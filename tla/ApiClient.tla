----------------------------- MODULE ApiClient ------------------------------
(***************************************************************************)
(* The client every layer reaches eBay through: execute_with_auth asks the *)
(* rate limiter once, then makes up to auth_default_max_retry + 1 attempts *)
(* with a token from the cache or a new one, and sorts the answers into    *)
(* success, retry and failure.  The polling loop's thread and the threads  *)
(* of triggered jobs share one client: one limiter behind one lock, and    *)
(* one token cache without a lock.                                         *)
(*                                                                         *)
(* One scope, one token kind and no seller, as all callers have it.  The   *)
(* limiter counts in the time the refill of one unit takes: a request      *)
(* costs Cost units, and a tick brings one.                                *)
(***************************************************************************)
EXTENDS Integers, Sequences, FiniteSets

CONSTANTS
    Threads,         \* threads that use the client
    Operations,      \* operation keys
    None,            \* nothing
    MaxRetry,        \* auth_default_max_retry
    Lifetime,        \* expires_in of a new token
    Lead,            \* auth_refresh_lead_seconds
    Burst,           \* rate_limit_default_burst
    Cost,            \* 1 / rate_limit_default_rps, in ticks
    MaxTime,         \* bound on the clock, but for sleeps that began before
    MaxCalls,        \* bound on the calls
    MaxRevocations   \* bound on the tokens eBay revokes

VARIABLES
    now,        \* time.time()
    expiry,     \* when each token minted so far expires, in order
    revoked,    \* tokens that eBay no longer accepts
    cache,      \* the cached token, or None
    bucket,     \* the limiter's bucket of each operation, or None
    lock,       \* the thread inside the limiter, or None
    call,       \* the call each thread is in
    admitted,   \* history: when the limiter let the calls of an operation pass
    calls       \* calls so far

vars == <<now, expiry, revoked, cache, bucket, lock, call, admitted, calls>>
limiter == <<bucket, lock, admitted>>
tokens == <<expiry, cache>>

-----------------------------------------------------------------------------
Bucket == [last: Nat, units: Nat]

ASSUME ApiClientAssumption ==
    /\ MaxRetry \in Nat /\ Lifetime \in Nat /\ Lead \in Nat
    /\ Burst \in Nat \ {0} /\ Cost \in Nat \ {0}
    /\ MaxTime \in Nat /\ MaxCalls \in Nat /\ MaxRevocations \in Nat
    /\ None \notin Int \cup Threads \cup Bucket

Token == 1 .. Len(expiry)
Capacity == Burst * Cost

Call ==
    [pc: {"idle", "limit", "sleep", "token", "store", "send", "expired", "wait"},
     op: Operations \cup {None}, attempt: Nat, token: Nat \cup {None},
     wake: Nat,              \* when the limiter's sleep ends
     refused: SUBSET Nat,    \* history: the tokens this call got a 401 for
     unread: SUBSET Nat]     \* history: those whose last 401 it could not parse

Idle == [pc |-> "idle", op |-> None, attempt |-> 0, token |-> None, wake |-> 0,
         refused |-> {}, unread |-> {}]

TypeOK ==
    /\ now \in Nat
    /\ expiry \in Seq(Nat)
    /\ revoked \subseteq Token
    /\ cache \in Token \cup {None}
    /\ bucket \in [Operations -> Bucket \cup {None}]
    /\ lock \in Threads \cup {None}
    /\ call \in [Threads -> Call]
    /\ \A t \in Threads : call[t].attempt <= MaxRetry /\ call[t].refused \subseteq Token
    /\ admitted \in [Operations -> Seq(Nat)]
    /\ calls \in 0 .. MaxCalls

Init ==
    /\ now = 0
    /\ expiry = <<>>
    /\ revoked = {}
    /\ cache = None
    /\ bucket = [op \in Operations |-> None]
    /\ lock = None
    /\ call = [t \in Threads |-> Idle]
    /\ admitted = [op \in Operations |-> <<>>]
    /\ calls = 0

-----------------------------------------------------------------------------
(* eBay and the clock. *)

Accepted(k) == k \notin revoked /\ now < expiry[k]

Tick ==
    /\ now < MaxTime \/ \E t \in Threads : call[t].pc = "sleep" /\ now < call[t].wake
    /\ now' = now + 1
    /\ UNCHANGED <<tokens, revoked, limiter, call, calls>>

Revoke(k) ==
    /\ Cardinality(revoked) < MaxRevocations
    /\ k \notin revoked
    /\ revoked' = revoked \cup {k}
    /\ UNCHANGED <<now, tokens, limiter, call, calls>>

-----------------------------------------------------------------------------
(* The rate limiter. *)

At(t, pc) == call[t].pc = pc
Goes(t, pc) == call' = [call EXCEPT ![t].pc = pc]

Begin(t, op) ==
    /\ At(t, "idle")
    /\ calls < MaxCalls
    /\ calls' = calls + 1
    /\ call' = [call EXCEPT ![t] = [Idle EXCEPT !.pc = "limit", !.op = op]]
    /\ UNCHANGED <<now, tokens, revoked, limiter>>

(* The units of an operation's bucket at this moment: a full bucket at     *)
(* first, and what came in since the last request.                         *)
Refilled(op) ==
    IF bucket[op] = None THEN Capacity
    ELSE LET sum == bucket[op].units + (now - bucket[op].last)
         IN IF sum < Capacity THEN sum ELSE Capacity

Admit(op, units) ==
    /\ bucket' = [bucket EXCEPT ![op] = [last |-> now, units |-> units]]
    /\ admitted' = [admitted EXCEPT ![op] = Append(@, now)]

(* acquire() with a full unit in the bucket. *)
Pass(t) ==
    /\ At(t, "limit")
    /\ lock = None
    /\ Refilled(call[t].op) >= Cost
    /\ Admit(call[t].op, Refilled(call[t].op) - Cost)
    /\ Goes(t, "token")
    /\ UNCHANGED <<now, tokens, revoked, lock, calls>>

(* Mutated form: the lock is released for the sleep. *)
SleepUnlocked(t) ==
    /\ At(t, "limit")
    /\ lock = None
    /\ LET op == call[t].op IN
        /\ Refilled(op) < Cost
        /\ bucket' = [bucket EXCEPT ![op] = [last |-> now, units |-> Refilled(op)]]
        /\ call' = [call EXCEPT ![t].pc = "sleep", ![t].wake = now + Cost - Refilled(op)]
    /\ UNCHANGED <<now, tokens, revoked, lock, admitted, calls>>

(* acquire() has to sleep, and does so with the lock in its hands. *)
Sleep(t) ==
    /\ At(t, "limit")
    /\ lock = None
    /\ LET op == call[t].op IN
        /\ Refilled(op) < Cost
        /\ bucket' = [bucket EXCEPT ![op] = [last |-> now, units |-> Refilled(op)]]
        /\ call' = [call EXCEPT ![t].pc = "sleep", ![t].wake = now + Cost - Refilled(op)]
    /\ lock' = t
    /\ UNCHANGED <<now, tokens, revoked, admitted, calls>>

(* Mutated form: the lock is not given back. *)
WakeKeepingLock(t) ==
    /\ At(t, "sleep")
    /\ now >= call[t].wake
    /\ Admit(call[t].op, 0)
    /\ call' = [call EXCEPT ![t].pc = "token", ![t].wake = 0]
    /\ UNCHANGED <<now, tokens, revoked, lock, calls>>

(* The sleep is over, however late: the bucket counts as empty from now. *)
Wake(t) ==
    /\ At(t, "sleep")
    /\ now >= call[t].wake
    /\ Admit(call[t].op, 0)
    /\ lock' = None
    /\ call' = [call EXCEPT ![t].pc = "token", ![t].wake = 0]
    /\ UNCHANGED <<now, tokens, revoked, calls>>

-----------------------------------------------------------------------------
(* One attempt: a token, the request, and what becomes of the answer. *)

UseToken(t, k, pc) == call' = [call EXCEPT ![t].pc = pc, ![t].token = k]

(* The cached token, if there is one that does not expire within the lead. *)
Cached == cache # None /\ now + Lead <= expiry[cache]

UseCached(t) ==
    /\ At(t, "token")
    /\ Cached
    /\ UseToken(t, cache, "send")
    /\ UNCHANGED <<now, tokens, revoked, limiter, calls>>

(* eBay mints a token for the refresh token. *)
Mint(t) ==
    /\ At(t, "token")
    /\ ~Cached
    /\ expiry' = Append(expiry, now + Lifetime)
    /\ UseToken(t, Len(expiry) + 1, "store")
    /\ UNCHANGED <<now, cache, revoked, limiter, calls>>

Store(t) ==
    /\ At(t, "store")
    /\ cache' = call[t].token
    /\ Goes(t, "send")
    /\ UNCHANGED <<now, expiry, revoked, limiter, calls>>

(* An attempt failed in a way that is worth another one, if one is left. *)
Failed(t, pc, c) ==
    call' = [call EXCEPT ![t] = IF c.attempt >= MaxRetry THEN Idle
                                 ELSE [c EXCEPT !.pc = pc, !.token = None]]

(* The token endpoint fails, or there is no refresh token: an exception,   *)
(* and one inside the loop is always worth another attempt.                *)
MintFails(t) ==
    /\ At(t, "token")
    /\ ~Cached
    /\ Failed(t, "wait", call[t])
    /\ UNCHANGED <<now, tokens, revoked, limiter, calls>>

(* A success, or an error that no retry mends: the call returns. *)
Returns(t) ==
    /\ At(t, "send")
    /\ Accepted(call[t].token)
    /\ call' = [call EXCEPT ![t] = Idle]
    /\ UNCHANGED <<now, tokens, revoked, limiter, calls>>

(* A timeout, a 429, a server error, or an answer other than a 401 that    *)
(* cannot be parsed.                                                       *)
Transient(t) ==
    /\ At(t, "send")
    /\ Failed(t, "wait", call[t])
    /\ UNCHANGED <<now, tokens, revoked, limiter, calls>>

(* A 401 whose body is JSON: the call goes on to invalidate the token. *)
Unauthorized(t) ==
    /\ At(t, "send")
    /\ ~Accepted(call[t].token)
    /\ LET k == call[t].token IN
        Failed(t, "expired", [call[t] EXCEPT !.refused = @ \cup {k}, !.unread = @ \ {k}])
    /\ UNCHANGED <<now, tokens, revoked, limiter, calls>>

(* A 401 with any other body, as a proxy sends it: response.json() raises, *)
(* and the handler retries with the refused token still in the cache.      *)
Unreadable(t) ==
    /\ At(t, "send")
    /\ ~Accepted(call[t].token)
    /\ LET k == call[t].token IN
        Failed(t, "wait", [call[t] EXCEPT !.refused = @ \cup {k}, !.unread = @ \cup {k}])
    /\ UNCHANGED <<now, tokens, revoked, limiter, calls>>

(* Mutated form: nothing is invalidated, as with a seller in the key that  *)
(* the token was not stored under.                                         *)
InvalidateNothing(t) ==
    /\ At(t, "expired")
    /\ Goes(t, "wait")
    /\ UNCHANGED <<now, tokens, revoked, limiter, calls>>

(* The cached token goes, the refused one or one that another thread has   *)
(* put in its place.                                                       *)
Invalidate(t) ==
    /\ At(t, "expired")
    /\ cache' = None
    /\ Goes(t, "wait")
    /\ UNCHANGED <<now, expiry, revoked, limiter, calls>>

Retry(t) ==
    /\ At(t, "wait")
    /\ call' = [call EXCEPT ![t].pc = "token", ![t].attempt = @ + 1]
    /\ UNCHANGED <<now, tokens, revoked, limiter, calls>>

Step(t) ==
    \/ Pass(t) \/ Sleep(t) \/ Wake(t)
    \/ UseCached(t) \/ Mint(t) \/ MintFails(t) \/ Store(t)
    \/ Returns(t) \/ Transient(t) \/ Unauthorized(t) \/ Unreadable(t)
    \/ Invalidate(t) \/ Retry(t)

-----------------------------------------------------------------------------
Next ==
    \/ Tick
    \/ \E k \in Token : Revoke(k)
    \/ \E t \in Threads : Step(t) \/ \E op \in Operations : Begin(t, op)

Spec == Init /\ [][Next]_vars

(* Time passes and a thread in a call goes on.  The lock's queue need not  *)
(* be fair: the calls are bounded, and so is the time others hold it.      *)
FairSpec == Spec /\ WF_vars(Tick) /\ \A t \in Threads : WF_vars(Step(t))

-----------------------------------------------------------------------------
(* PROPERTIES *)

(***************************************************************************)
(* In any stretch of time, the limiter lets at most a burst of an          *)
(* operation's calls pass and one more for every 1 / rps seconds, with     *)
(* whatever threads in whatever order and however late a sleep ends.       *)
(***************************************************************************)
AdmissionsLimited ==
    \A op \in Operations :
        \A i, j \in 1 .. Len(admitted[op]) :
            i <= j => (j - i + 1) * Cost <= Capacity + (admitted[op][j] - admitted[op][i])

(***************************************************************************)
(* A call shows eBay a token again that eBay has refused it only where it  *)
(* could not parse the refusal: a 401 that it has read costs the token its *)
(* place in the cache, and no other thread, whatever it stores there       *)
(* between the call's attempts, brings it back.                            *)
(***************************************************************************)
ReadRefusalIsFinal ==
    \A t \in Threads :
        call[t].pc = "send" /\ call[t].token \in call[t].refused
            => call[t].token \in call[t].unread

(***************************************************************************)
(* Every call returns: no thread waits for ever for the limiter's lock,    *)
(* sleeps for ever, or goes on retrying.                                   *)
(***************************************************************************)
CallsReturn == \A t \in Threads : (call[t].pc # "idle") ~> (call[t].pc = "idle")
=============================================================================
