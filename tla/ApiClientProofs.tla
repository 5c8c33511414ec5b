-------------------------- MODULE ApiClientProofs ---------------------------
(***************************************************************************)
(* What ApiClient guarantees for any number of threads, operations, tokens *)
(* and retries: its types, that a refusal a call could read is final, and  *)
(* the rate of the limiter.                                                *)
(*                                                                         *)
(* Tokens: one that is minted and not stored yet is known to its minter    *)
(* alone, so that storing it brings back nothing that was refused          *)
(* (Unshown), and a call that has invalidated never finds a token again    *)
(* whose refusal it has read (Forgotten).                                  *)
(*                                                                         *)
(* The limiter: for every call admitted so far, the units that are left    *)
(* pay for the calls since then (Paid); a sleeper holds the lock, so that  *)
(* the bucket it reckoned with is the one it wakes up to (Asleep).         *)
(***************************************************************************)
EXTENDS ApiClient, TLAPS

(* What is sure of a call, when tk are the tokens minted so far.           *)
CallHolds(c, tk) ==
    /\ c.pc # "idle" => c.op \in Operations
    /\ c.pc \in {"expired", "wait"} => c.attempt < MaxRetry
    /\ c.pc \in {"store", "send"} => c.token \in tk
    /\ c.token \in tk \cup {None}
    /\ c.attempt <= MaxRetry
    /\ c.refused \subseteq tk

Calls == \A t \in Threads : CallHolds(call[t], Token)

(* The clock only matters to the types because sleeps are reckoned in it.  *)
Clocked == \A op \in Operations : bucket[op] # None => bucket[op].last <= now

TInv == TypeOK /\ Calls /\ Clocked

(* The tokens whose refusal a call has read.                               *)
Heeded(c) == c.refused \ c.unread

(* A token that waits to be stored has been shown to nobody.               *)
Unshown ==
    \A t, u \in Threads :
        call[t].pc = "store" =>
            /\ cache # call[t].token
            /\ call[t].token \notin call[u].refused
            /\ u # t => call[u].token # call[t].token

(* Past the invalidation, what is in the cache is new to the call.         *)
Forgotten == \A t \in Threads : call[t].pc # "expired" => cache \notin Heeded(call[t])

KInv == Unshown /\ Forgotten /\ ReadRefusalIsFinal

-----------------------------------------------------------------------------
LEMMA CapacityType == Capacity \in Nat /\ Cost <= Capacity
BY ApiClientAssumption DEF Capacity

LEMMA RefilledType ==
    ASSUME TInv, NEW op \in Operations
    PROVE  Refilled(op) \in Nat /\ Refilled(op) <= Capacity
<1>1. CASE bucket[op] = None
  BY <1>1, CapacityType DEF Refilled
<1>2. CASE bucket[op] # None
  <2>1. bucket[op] \in Bucket /\ bucket[op].last <= now /\ now \in Nat
    BY <1>2 DEF TInv, TypeOK, Clocked
  <2>2. bucket[op].units + (now - bucket[op].last) \in Nat
    BY <2>1 DEF Bucket
  <2> QED BY <1>2, <2>2, CapacityType DEF Refilled
<1> QED BY <1>1, <1>2

LEMMA IdleHolds == Idle \in Call /\ \A tk : CallHolds(Idle, tk)
BY ApiClientAssumption DEF Idle, Call, CallHolds

LEMMA CallFacts ==
    ASSUME TInv, NEW t \in Threads
    PROVE  /\ call[t] \in Call
           /\ CallHolds(call[t], Token)
           /\ call[t].pc # "idle" => call[t].op \in Operations
BY DEF TInv, TypeOK, Calls, CallHolds

(* A step of one call, with the tokens minted so far or more of them.      *)
LEMMA OneCall ==
    ASSUME TInv, NEW t \in Threads, NEW d \in Call, call' = [call EXCEPT ![t] = d],
           Token \subseteq Token', CallHolds(d, Token')
    PROVE  /\ call' \in [Threads -> Call]
           /\ Calls'
           /\ \A u \in Threads : call'[u].attempt <= MaxRetry /\ call'[u].refused \subseteq Token'
<1>1. /\ call' \in [Threads -> Call]
      /\ call'[t] = d
      /\ \A u \in Threads : u # t => call'[u] = call[u]
  BY DEF TInv, TypeOK
<1>2. ASSUME NEW u \in Threads PROVE CallHolds(call'[u], Token')
  <2>1. CASE u = t
    BY <1>1, <2>1
  <2>2. CASE u # t
    BY <1>1, <2>2, CallFacts DEF CallHolds
  <2> QED BY <2>1, <2>2
<1> QED BY <1>1, <1>2 DEF Calls, CallHolds

-----------------------------------------------------------------------------
(* Types                                                                   *)

LEMMA TypeInit == Init => TInv
<1> SUFFICES ASSUME Init PROVE TInv
  OBVIOUS
<1>1. \A t \in Threads : call[t] = Idle
  BY DEF Init
<1>2. Calls /\ call \in [Threads -> Call]
  BY <1>1, IdleHolds DEF Calls, Init
<1>3. expiry \in Seq(Nat) /\ admitted \in [Operations -> Seq(Nat)]
  BY DEF Init
<1>4. \A t \in Threads : call[t].attempt <= MaxRetry /\ call[t].refused \subseteq Token
  BY <1>1, ApiClientAssumption DEF Idle
<1>5. TypeOK
  BY <1>2, <1>3, <1>4, ApiClientAssumption DEF Init, TypeOK
<1> QED BY <1>2, <1>5 DEF Init, TInv, Clocked

LEMMA AdmitType ==
    ASSUME TInv, NEW op \in Operations, NEW units \in Nat, Admit(op, units)
    PROVE  /\ bucket' \in [Operations -> Bucket \cup {None}]
           /\ admitted' \in [Operations -> Seq(Nat)]
           /\ \A o \in Operations : bucket'[o] # None => bucket'[o].last <= now
<1>1. [last |-> now, units |-> units] \in Bucket
  BY DEF Bucket, TInv, TypeOK
<1>2. Append(admitted[op], now) \in Seq(Nat)
  BY DEF TInv, TypeOK
<1> QED BY <1>1, <1>2 DEF Admit, TInv, TypeOK, Clocked

LEMMA TypeTick == TInv /\ Tick => TInv'
BY DEF TInv, TypeOK, Calls, CallHolds, Clocked, Tick, tokens, limiter, Token, Bucket

LEMMA TypeRevoke ==
    ASSUME TInv, NEW k \in Token, Revoke(k)
    PROVE  TInv'
BY DEF TInv, TypeOK, Calls, CallHolds, Clocked, Revoke, tokens, limiter, Token

LEMMA TypeBegin ==
    ASSUME TInv, NEW t \in Threads, NEW op \in Operations, Begin(t, op)
    PROVE  TInv'
<1> DEFINE d == [Idle EXCEPT !.pc = "limit", !.op = op]
<1>1. UNCHANGED <<now, expiry, cache, revoked, bucket, lock, admitted>>
  BY DEF Begin, tokens, limiter
<1>2. d \in Call /\ CallHolds(d, Token')
  <2>1. /\ d.pc = "limit" /\ d.op = op /\ d.attempt = 0 /\ d.token = None /\ d.refused = {}
    BY DEF Idle
  <2>2. d \in Call
    BY DEF Idle, Call
  <2> HIDE DEF d
  <2> QED BY <2>1, <2>2, ApiClientAssumption DEF CallHolds
<1>3. Token' = Token
  BY <1>1 DEF Token
<1>4. /\ call' \in [Threads -> Call] /\ Calls'
      /\ \A u \in Threads : call'[u].attempt <= MaxRetry /\ call'[u].refused \subseteq Token'
  BY <1>2, <1>3, OneCall DEF Begin
<1>5. calls' \in 0 .. MaxCalls
  BY ApiClientAssumption DEF Begin, TInv, TypeOK
<1> QED BY <1>1, <1>3, <1>4, <1>5 DEF TInv, TypeOK, Clocked

LEMMA TypePass ==
    ASSUME TInv, NEW t \in Threads, Pass(t)
    PROVE  TInv'
<1> DEFINE d == [call[t] EXCEPT !.pc = "token"]
<1> DEFINE op == call[t].op
<1>1. /\ call[t] \in Call /\ op \in Operations /\ CallHolds(call[t], Token)
      /\ call[t].pc = "limit"
  BY CallFacts DEF Pass, At
<1>2. Refilled(op) - Cost \in Nat
  BY <1>1, RefilledType, ApiClientAssumption DEF Pass
<1>3. /\ bucket' \in [Operations -> Bucket \cup {None}]
      /\ admitted' \in [Operations -> Seq(Nat)]
      /\ \A o \in Operations : bucket'[o] # None => bucket'[o].last <= now
  BY <1>1, <1>2, AdmitType DEF Pass
<1>4. UNCHANGED <<now, expiry, cache, revoked, lock, calls, Token>>
  BY DEF Pass, tokens, Token
<1>5. d \in Call /\ CallHolds(d, Token')
  BY <1>1, <1>4 DEF Call, CallHolds
<1>6. /\ call' \in [Threads -> Call] /\ Calls'
      /\ \A u \in Threads : call'[u].attempt <= MaxRetry /\ call'[u].refused \subseteq Token'
  BY <1>4, <1>5, OneCall DEF Pass, Goes
<1> QED BY <1>3, <1>4, <1>6 DEF TInv, TypeOK, Clocked

LEMMA TypeSleep ==
    ASSUME TInv, NEW t \in Threads, Sleep(t)
    PROVE  TInv'
<1> DEFINE op == call[t].op
<1> DEFINE d == [call[t] EXCEPT !.pc = "sleep", !.wake = now + Cost - Refilled(op)]
<1>1. /\ call[t] \in Call /\ op \in Operations /\ CallHolds(call[t], Token)
      /\ call[t].pc = "limit"
  BY CallFacts DEF Sleep, At
<1>2. Refilled(op) \in Nat /\ now \in Nat /\ now + Cost - Refilled(op) \in Nat
  BY <1>1, RefilledType, ApiClientAssumption DEF Sleep, TInv, TypeOK
<1>3. /\ bucket' \in [Operations -> Bucket \cup {None}]
      /\ \A o \in Operations : bucket'[o] # None => bucket'[o].last <= now
  <2>1. [last |-> now, units |-> Refilled(op)] \in Bucket
    BY <1>2 DEF Bucket
  <2> QED BY <1>1, <1>2, <2>1 DEF Sleep, TInv, TypeOK, Clocked
<1>4. UNCHANGED <<now, expiry, cache, revoked, admitted, calls, Token>> /\ lock' = t
  BY DEF Sleep, tokens, Token
<1>5. d \in Call /\ CallHolds(d, Token')
  BY <1>1, <1>2, <1>4 DEF Call, CallHolds
<1>6. /\ call' \in [Threads -> Call] /\ Calls'
      /\ \A u \in Threads : call'[u].attempt <= MaxRetry /\ call'[u].refused \subseteq Token'
  BY <1>4, <1>5, OneCall DEF Sleep
<1> QED BY <1>3, <1>4, <1>6 DEF TInv, TypeOK, Clocked

LEMMA TypeWake ==
    ASSUME TInv, NEW t \in Threads, Wake(t)
    PROVE  TInv'
<1> DEFINE d == [call[t] EXCEPT !.pc = "token", !.wake = 0]
<1> DEFINE op == call[t].op
<1>1. /\ call[t] \in Call /\ op \in Operations /\ CallHolds(call[t], Token)
      /\ call[t].pc = "sleep"
  BY CallFacts DEF Wake, At
<1>2. /\ bucket' \in [Operations -> Bucket \cup {None}]
      /\ admitted' \in [Operations -> Seq(Nat)]
      /\ \A o \in Operations : bucket'[o] # None => bucket'[o].last <= now
  BY <1>1, AdmitType DEF Wake
<1>3. UNCHANGED <<now, expiry, cache, revoked, calls, Token>> /\ lock' = None
  BY DEF Wake, tokens, Token
<1>4. d \in Call /\ CallHolds(d, Token')
  BY <1>1, <1>3 DEF Call, CallHolds
<1>5. /\ call' \in [Threads -> Call] /\ Calls'
      /\ \A u \in Threads : call'[u].attempt <= MaxRetry /\ call'[u].refused \subseteq Token'
  BY <1>3, <1>4, OneCall DEF Wake
<1> QED BY <1>2, <1>3, <1>5 DEF TInv, TypeOK, Clocked

(* A step past the limiter: only the call, the tokens and the cache change. *)
PastLimiter(t, d) ==
    /\ call' = [call EXCEPT ![t] = d]
    /\ UNCHANGED <<now, revoked, limiter, calls>>

LEMMA TypeAttempt ==
    ASSUME TInv, NEW t \in Threads, NEW d \in Call, PastLimiter(t, d), CallHolds(d, Token'),
           expiry' \in Seq(Nat), Token \subseteq Token', cache' \in Token' \cup {None}
    PROVE  TInv'
<1>1. UNCHANGED <<now, revoked, bucket, lock, admitted, calls>>
  BY DEF PastLimiter, limiter
<1>2. /\ call' \in [Threads -> Call] /\ Calls'
      /\ \A u \in Threads : call'[u].attempt <= MaxRetry /\ call'[u].refused \subseteq Token'
  BY OneCall DEF PastLimiter
<1> QED BY <1>1, <1>2 DEF TInv, TypeOK, Clocked

(* What the call becomes in each step past the limiter.                    *)
Using(c, k, pc) == [c EXCEPT !.pc = pc, !.token = k]
Failing(c, pc) == IF c.attempt >= MaxRetry THEN Idle ELSE [c EXCEPT !.pc = pc, !.token = None]

LEMMA TypeUseCached ==
    ASSUME TInv, NEW t \in Threads, UseCached(t)
    PROVE  TInv' /\ PastLimiter(t, Using(call[t], cache, "send"))
<1> DEFINE d == Using(call[t], cache, "send")
<1>1. call[t] \in Call /\ CallHolds(call[t], Token) /\ call[t].pc = "token"
  BY CallFacts DEF UseCached, At
<1>2. UNCHANGED <<expiry, cache, Token>> /\ cache \in Token
  BY DEF UseCached, tokens, Token, Cached, TInv, TypeOK
<1>3. PastLimiter(t, d)
  BY DEF UseCached, UseToken, Using, PastLimiter
<1>4. d \in Call /\ CallHolds(d, Token')
  <2>1. cache \in Nat
    BY <1>2 DEF Token
  <2> QED BY <1>1, <1>2, <2>1 DEF Using, Call, CallHolds
<1> QED BY <1>2, <1>3, <1>4, TypeAttempt DEF TInv, TypeOK

LEMMA TypeMint ==
    ASSUME TInv, NEW t \in Threads, Mint(t)
    PROVE  /\ TInv'
           /\ PastLimiter(t, Using(call[t], Len(expiry) + 1, "store"))
           /\ Len(expiry) + 1 \notin Token
<1> DEFINE d == Using(call[t], Len(expiry) + 1, "store")
<1>1. call[t] \in Call /\ CallHolds(call[t], Token) /\ call[t].pc = "token"
  BY CallFacts DEF Mint, At
<1>2. /\ expiry' \in Seq(Nat)
      /\ Len(expiry') = Len(expiry) + 1
      /\ Len(expiry) \in Nat
  BY ApiClientAssumption DEF Mint, TInv, TypeOK
<1>3. /\ Token \subseteq Token'
      /\ Len(expiry) + 1 \in Token'
      /\ Len(expiry) + 1 \notin Token
  BY <1>2 DEF Token
<1>4. PastLimiter(t, d)
  BY DEF Mint, UseToken, Using, PastLimiter
<1>5. d \in Call /\ CallHolds(d, Token')
  <2>1. Len(expiry) + 1 \in Nat
    BY <1>2
  <2>2. /\ d \in Call /\ d.pc = "store" /\ d.op = call[t].op /\ d.token = Len(expiry) + 1
        /\ d.attempt = call[t].attempt /\ d.refused = call[t].refused
    BY <1>1, <2>1 DEF Using, Call
  <2> HIDE DEF d
  <2> QED BY <1>1, <1>3, <2>2 DEF CallHolds
<1>6. cache' \in Token' \cup {None}
  BY <1>3 DEF Mint, TInv, TypeOK
<1> QED BY <1>2, <1>3, <1>4, <1>5, <1>6, TypeAttempt

LEMMA TypeStore ==
    ASSUME TInv, NEW t \in Threads, Store(t)
    PROVE  TInv' /\ PastLimiter(t, Using(call[t], call[t].token, "send"))
<1> DEFINE d == Using(call[t], call[t].token, "send")
<1>1. call[t] \in Call /\ CallHolds(call[t], Token) /\ call[t].pc = "store"
  BY CallFacts DEF Store, At
<1>2. UNCHANGED <<expiry, Token>>
  BY DEF Store, Token
<1>3. d = [call[t] EXCEPT !.pc = "send"]
  BY <1>1 DEF Using, Call
<1>4. PastLimiter(t, d)
  BY <1>3 DEF Store, Goes, PastLimiter
<1>5. d \in Call /\ CallHolds(d, Token')
  BY <1>1, <1>2, <1>3 DEF Call, CallHolds
<1>6. cache' \in Token' \cup {None}
  BY <1>1, <1>2 DEF Store, CallHolds
<1> QED BY <1>2, <1>4, <1>5, <1>6, TypeAttempt DEF TInv, TypeOK

(* An attempt that failed.                                                 *)
LEMMA FailingHolds ==
    ASSUME NEW c \in Call, NEW tk, CallHolds(c, tk), c.pc # "idle",
           NEW pc \in {"wait", "expired"}
    PROVE  /\ Failing(c, pc) \in Call
           /\ CallHolds(Failing(c, pc), tk)
           /\ \/ Failing(c, pc) = Idle
              \/ /\ Failing(c, pc).pc = pc
                 /\ Failing(c, pc).token = None
                 /\ Failing(c, pc).refused = c.refused
                 /\ Failing(c, pc).unread = c.unread
<1>1. CASE c.attempt >= MaxRetry
  BY <1>1, IdleHolds DEF Failing
<1>2. CASE ~(c.attempt >= MaxRetry)
  <2>1. Failing(c, pc) = [c EXCEPT !.pc = pc, !.token = None]
    BY <1>2 DEF Failing
  <2>2. c.attempt < MaxRetry
    BY <1>2, ApiClientAssumption DEF Call
  <2> QED BY <2>1, <2>2 DEF Call, CallHolds
<1> QED BY <1>1, <1>2

LEMMA TypeFailed ==
    ASSUME TInv, NEW t \in Threads, MintFails(t) \/ Transient(t)
    PROVE  /\ TInv'
           /\ PastLimiter(t, Failing(call[t], "wait"))
           /\ UNCHANGED tokens
<1> DEFINE d == Failing(call[t], "wait")
<1>1. call[t] \in Call /\ CallHolds(call[t], Token) /\ call[t].pc # "idle"
  BY CallFacts DEF MintFails, Transient, At
<1>2. d \in Call /\ CallHolds(d, Token)
  BY <1>1, FailingHolds
<1>3. PastLimiter(t, d)
  BY DEF MintFails, Transient, Failed, Failing, PastLimiter
<1>4. UNCHANGED tokens /\ UNCHANGED <<expiry, cache, Token>>
  BY DEF MintFails, Transient, tokens, Token
<1> QED BY <1>2, <1>3, <1>4, TypeAttempt DEF TInv, TypeOK

(* The call with one more token that eBay has refused it, and the tokens   *)
(* whose refusal it could not read.                                        *)
Shown(c, unread) == [c EXCEPT !.refused = c.refused \cup {c.token}, !.unread = unread]
Refused(c) == Shown(c, c.unread \ {c.token})
Unread(c) == Shown(c, c.unread \cup {c.token})

LEMMA ShownHolds ==
    ASSUME NEW c \in Call, NEW tk, CallHolds(c, tk), c.pc = "send", tk \subseteq Nat,
           NEW z \in SUBSET Nat
    PROVE  /\ Shown(c, z) \in Call
           /\ CallHolds(Shown(c, z), tk)
           /\ Shown(c, z).pc = "send" /\ Shown(c, z).token = c.token
           /\ Shown(c, z).refused = c.refused \cup {c.token}
           /\ Shown(c, z).unread = z
<1> DEFINE d == Shown(c, z)
<1>1. c.token \in tk /\ c.token \in Nat
  BY DEF CallHolds
<1>2. /\ d.pc = "send" /\ d.op = c.op /\ d.attempt = c.attempt
      /\ d.token = c.token /\ d.refused = c.refused \cup {c.token} /\ d.unread = z
  BY DEF Shown, Call
<1>3. d \in Call
  BY <1>1 DEF Shown, Call
<1> HIDE DEF d
<1>4. CallHolds(d, tk)
  BY <1>1, <1>2 DEF CallHolds
<1> QED BY <1>2, <1>3, <1>4 DEF d

LEMMA RefusedHolds ==
    ASSUME NEW c \in Call, NEW tk, CallHolds(c, tk), c.pc = "send", tk \subseteq Nat
    PROVE  /\ Refused(c) \in Call /\ CallHolds(Refused(c), tk)
           /\ Refused(c).pc = "send" /\ Refused(c).token = c.token
           /\ Refused(c).refused = c.refused \cup {c.token}
           /\ Unread(c) \in Call /\ CallHolds(Unread(c), tk)
           /\ Unread(c).pc = "send" /\ Unread(c).token = c.token
           /\ Unread(c).refused = c.refused \cup {c.token}
           /\ Unread(c).unread = c.unread \cup {c.token}
<1>1. c.token \in Nat /\ c.unread \in SUBSET Nat
  BY DEF CallHolds, Call
<1>2. (c.unread \ {c.token}) \in SUBSET Nat /\ (c.unread \cup {c.token}) \in SUBSET Nat
  BY <1>1
<1>3. \A z \in SUBSET Nat :
        /\ Shown(c, z) \in Call
        /\ CallHolds(Shown(c, z), tk)
        /\ Shown(c, z).pc = "send" /\ Shown(c, z).token = c.token
        /\ Shown(c, z).refused = c.refused \cup {c.token}
        /\ Shown(c, z).unread = z
  BY ShownHolds
<1> QED BY <1>2, <1>3 DEF Refused, Unread

LEMMA TypeUnauthorized ==
    ASSUME TInv, NEW t \in Threads, Unauthorized(t)
    PROVE  /\ TInv'
           /\ UNCHANGED tokens
           /\ PastLimiter(t, Failing(Refused(call[t]), "expired"))
<1> DEFINE d == Failing(Refused(call[t]), "expired")
<1>1. call[t] \in Call /\ CallHolds(call[t], Token) /\ call[t].pc = "send"
  BY CallFacts DEF Unauthorized, At
<1>2. /\ Refused(call[t]) \in Call /\ CallHolds(Refused(call[t]), Token)
      /\ Refused(call[t]).pc # "idle"
  BY <1>1, RefusedHolds DEF Token
<1>3. d \in Call /\ CallHolds(d, Token)
  BY <1>2, FailingHolds
<1>4. PastLimiter(t, d)
  BY DEF Unauthorized, Failed, Failing, Refused, Shown, PastLimiter
<1>5. UNCHANGED tokens /\ UNCHANGED <<expiry, cache, Token>>
  BY DEF Unauthorized, tokens, Token
<1> QED BY <1>3, <1>4, <1>5, TypeAttempt DEF TInv, TypeOK

LEMMA TypeUnreadable ==
    ASSUME TInv, NEW t \in Threads, Unreadable(t)
    PROVE  /\ TInv'
           /\ UNCHANGED tokens
           /\ PastLimiter(t, Failing(Unread(call[t]), "wait"))
<1> DEFINE d == Failing(Unread(call[t]), "wait")
<1>1. call[t] \in Call /\ CallHolds(call[t], Token) /\ call[t].pc = "send"
  BY CallFacts DEF Unreadable, At
<1>2. /\ Unread(call[t]) \in Call /\ CallHolds(Unread(call[t]), Token)
      /\ Unread(call[t]).pc # "idle"
  BY <1>1, RefusedHolds DEF Token
<1>3. d \in Call /\ CallHolds(d, Token)
  BY <1>2, FailingHolds
<1>4. PastLimiter(t, d)
  BY DEF Unreadable, Failed, Failing, Unread, Shown, PastLimiter
<1>5. UNCHANGED tokens /\ UNCHANGED <<expiry, cache, Token>>
  BY DEF Unreadable, tokens, Token
<1> QED BY <1>3, <1>4, <1>5, TypeAttempt DEF TInv, TypeOK

LEMMA TypeReturns ==
    ASSUME TInv, NEW t \in Threads, Returns(t)
    PROVE  TInv' /\ PastLimiter(t, Idle) /\ UNCHANGED tokens
<1>1. PastLimiter(t, Idle)
  BY DEF Returns, PastLimiter
<1>2. UNCHANGED tokens /\ UNCHANGED <<expiry, cache, Token>>
  BY DEF Returns, tokens, Token
<1> QED BY <1>1, <1>2, IdleHolds, TypeAttempt DEF TInv, TypeOK

LEMMA TypeInvalidate ==
    ASSUME TInv, NEW t \in Threads, Invalidate(t)
    PROVE  TInv' /\ PastLimiter(t, [call[t] EXCEPT !.pc = "wait"])
<1> DEFINE d == [call[t] EXCEPT !.pc = "wait"]
<1>1. call[t] \in Call /\ CallHolds(call[t], Token) /\ call[t].pc = "expired"
  BY CallFacts DEF Invalidate, At
<1>2. d \in Call /\ CallHolds(d, Token)
  BY <1>1 DEF Call, CallHolds
<1>3. PastLimiter(t, d)
  BY DEF Invalidate, Goes, PastLimiter
<1>4. UNCHANGED <<expiry, Token>> /\ cache' = None
  BY DEF Invalidate, Token
<1> QED BY <1>2, <1>3, <1>4, TypeAttempt DEF TInv, TypeOK

LEMMA TypeRetry ==
    ASSUME TInv, NEW t \in Threads, Retry(t)
    PROVE  /\ TInv'
           /\ PastLimiter(t, [call[t] EXCEPT !.pc = "token", !.attempt = @ + 1])
           /\ UNCHANGED tokens
<1> DEFINE d == [call[t] EXCEPT !.pc = "token", !.attempt = @ + 1]
<1>1. call[t] \in Call /\ CallHolds(call[t], Token) /\ call[t].pc = "wait"
  BY CallFacts DEF Retry, At
<1>2. d \in Call /\ CallHolds(d, Token)
  <2>1. call[t].attempt \in Nat /\ call[t].attempt + 1 \in Nat /\ call[t].attempt < MaxRetry
    BY <1>1 DEF Call, CallHolds
  <2>2. /\ d \in Call /\ d.pc = "token" /\ d.op = call[t].op /\ d.token = call[t].token
        /\ d.attempt = call[t].attempt + 1 /\ d.refused = call[t].refused
    BY <1>1, <2>1 DEF Call
  <2>3. d.attempt <= MaxRetry
    BY <2>1, <2>2, ApiClientAssumption
  <2> HIDE DEF d
  <2> QED BY <1>1, <2>2, <2>3 DEF CallHolds
<1>3. PastLimiter(t, d)
  BY DEF Retry, PastLimiter
<1>4. UNCHANGED tokens /\ UNCHANGED <<expiry, cache, Token>>
  BY DEF Retry, tokens, Token
<1> QED BY <1>2, <1>3, <1>4, TypeAttempt DEF TInv, TypeOK

LEMMA TypeStep ==
    ASSUME TInv, [Next]_vars
    PROVE  TInv'
<1>1. ASSUME NEW t \in Threads, Step(t) PROVE TInv'
  BY <1>1, TypePass, TypeSleep, TypeWake, TypeUseCached, TypeMint, TypeFailed, TypeStore,
     TypeReturns, TypeUnauthorized, TypeUnreadable, TypeInvalidate, TypeRetry DEF Step
<1>2. CASE UNCHANGED vars
  BY <1>2 DEF vars, TInv, TypeOK, Calls, CallHolds, Clocked, Token
<1> QED BY <1>1, <1>2, TypeTick, TypeRevoke, TypeBegin DEF Next

-----------------------------------------------------------------------------
(* Tokens                                                                  *)

LEMMA TokensInit == Init => KInv
BY ApiClientAssumption DEF Init, KInv, Unshown, Forgotten, Heeded, ReadRefusalIsFinal, Idle

(* A call that takes no new token and leaves the cache alone disturbs      *)
(* nothing, as long as no refusal it has read is in the cache when it is   *)
(* past the invalidation.                                                  *)
LEMMA QuietCall ==
    ASSUME TInv, KInv, NEW t \in Threads, NEW d, call' = [call EXCEPT ![t] = d],
           UNCHANGED cache,
           d.pc \notin {"store", "send"}, d.token \in {None, call[t].token},
           \A k \in d.refused : k \in call[t].refused \/ k = call[t].token,
           call[t].pc # "store",
           d.pc = "expired" \/ cache \notin Heeded(d)
    PROVE  KInv'
<1>1. /\ call'[t] = d
      /\ \A u \in Threads : u # t => call'[u] = call[u]
      /\ call \in [Threads -> Call]
  BY DEF TInv, TypeOK
<1>2. \A u \in Threads : call[u].pc = "store" => call[u].token # None
  BY CallFacts, ApiClientAssumption DEF CallHolds, Token
<1>3. Unshown'
  <2> SUFFICES ASSUME NEW s \in Threads, NEW u \in Threads, call'[s].pc = "store"
               PROVE  /\ cache' # call'[s].token
                      /\ call'[s].token \notin call'[u].refused
                      /\ u # s => call'[u].token # call'[s].token
    BY DEF Unshown
  <2>1. s # t /\ call'[s] = call[s] /\ call[s].pc = "store"
    BY <1>1
  <2>2. /\ cache # call[s].token
        /\ call[s].token \notin call[u].refused
        /\ u # s => call[u].token # call[s].token
        /\ call[t].token # call[s].token
        /\ call[s].token \notin call[t].refused
    BY <2>1 DEF KInv, Unshown
  <2>3. CASE u = t
    BY <1>1, <1>2, <2>1, <2>2, <2>3
  <2>4. CASE u # t
    BY <1>1, <2>1, <2>2, <2>4
  <2> QED BY <2>3, <2>4
<1>4. Forgotten'
  BY <1>1 DEF KInv, Forgotten
<1>5. ReadRefusalIsFinal'
  BY <1>1 DEF KInv, ReadRefusalIsFinal
<1> QED BY <1>3, <1>4, <1>5 DEF KInv

LEMMA TokensFailed ==
    ASSUME TInv, KInv, NEW t \in Threads, NEW c \in Call, c.pc # "idle",
           NEW tk, CallHolds(c, tk),
           NEW pc \in {"wait", "expired"}, PastLimiter(t, Failing(c, pc)), UNCHANGED tokens,
           c.token = call[t].token, call[t].pc # "store",
           \A k \in c.refused : k \in call[t].refused \/ k = call[t].token,
           pc = "expired" \/ cache \notin Heeded(c)
    PROVE  KInv'
<1> DEFINE d == Failing(c, pc)
<1>1. \/ d = Idle
      \/ /\ d.pc = pc /\ d.token = None
         /\ d.refused = c.refused /\ Heeded(d) = Heeded(c)
  BY FailingHolds DEF Heeded
<1>2. /\ Idle.pc = "idle" /\ Idle.token = None /\ Idle.refused = {} /\ Heeded(Idle) = {}
  BY DEF Idle, Heeded
<1>3. /\ d.pc \notin {"store", "send"} /\ d.token = None
      /\ \A k \in d.refused : k \in call[t].refused \/ k = call[t].token
      /\ d.pc = "expired" \/ cache \notin Heeded(d)
  BY <1>1, <1>2
<1>4. call' = [call EXCEPT ![t] = d] /\ UNCHANGED cache
  BY DEF PastLimiter, tokens
<1> HIDE DEF d
<1> QED BY <1>3, <1>4, QuietCall

LEMMA TokensQuiet ==
    ASSUME TInv, KInv, NEW t \in Threads,
           \/ Pass(t) \/ Sleep(t) \/ Wake(t) \/ Retry(t) \/ Returns(t)
           \/ \E op \in Operations : Begin(t, op)
    PROVE  KInv'
<1>1. call[t] \in Call /\ UNCHANGED cache
  BY CallFacts DEF Pass, Sleep, Wake, Retry, Returns, Begin, tokens
<1>2. PICK d : /\ call' = [call EXCEPT ![t] = d]
               /\ d.pc \in {"limit", "token", "sleep", "idle"}
               /\ d.token \in {None, call[t].token}
               /\ d.refused = {} \/ (d.refused = call[t].refused /\ d.unread = call[t].unread)
  <2>1. CASE Pass(t) \/ Sleep(t) \/ Wake(t) \/ Retry(t)
    <3> DEFINE d == call'[t]
    <3>1. call' = [call EXCEPT ![t] = d]
      BY <2>1 DEF Pass, Sleep, Wake, Retry, Goes, TInv, TypeOK
    <3>2. /\ d.pc \in {"token", "sleep"}
          /\ d.token = call[t].token
          /\ d.refused = call[t].refused /\ d.unread = call[t].unread
      <4>1. CASE Pass(t)
        BY <1>1, <4>1 DEF Pass, Goes, Call, TInv, TypeOK
      <4>2. CASE Sleep(t)
        BY <1>1, <4>2 DEF Sleep, Call, TInv, TypeOK
      <4>3. CASE Wake(t)
        BY <1>1, <4>3 DEF Wake, Call, TInv, TypeOK
      <4>4. CASE Retry(t)
        BY <1>1, <4>4 DEF Retry, Call, TInv, TypeOK
      <4> QED BY <2>1, <4>1, <4>2, <4>3, <4>4
    <3> QED BY <3>1, <3>2
  <2>2. CASE Returns(t)
    <3>1. call' = [call EXCEPT ![t] = Idle]
      BY <2>2 DEF Returns
    <3>2. Idle.pc = "idle" /\ Idle.token = None /\ Idle.refused = {}
      BY DEF Idle
    <3> QED BY <3>1, <3>2
  <2>3. CASE \E op \in Operations : Begin(t, op)
    <3>1. PICK op \in Operations : Begin(t, op)
      BY <2>3
    <3> DEFINE d == [Idle EXCEPT !.pc = "limit", !.op = op]
    <3>2. d.pc = "limit" /\ d.token = None /\ d.refused = {}
      BY DEF Idle
    <3>3. call' = [call EXCEPT ![t] = d]
      BY <3>1 DEF Begin
    <3> HIDE DEF d
    <3> QED BY <3>2, <3>3
  <2> QED BY <2>1, <2>2, <2>3
<1>3. call[t].pc \in {"limit", "sleep", "wait", "send", "idle"}
  BY DEF Pass, Sleep, Wake, Retry, Returns, Begin, At
<1>4. cache \notin Heeded(call[t]) /\ cache \notin Heeded(d)
  BY <1>2, <1>3 DEF KInv, Forgotten, Heeded
<1>5. d.pc \notin {"store", "send"} /\ \A k \in d.refused : k \in call[t].refused
  BY <1>2
<1> QED BY <1>1, <1>2, <1>3, <1>4, <1>5, QuietCall

LEMMA TokensFailing ==
    ASSUME TInv, KInv, NEW t \in Threads,
           MintFails(t) \/ Transient(t) \/ Unauthorized(t) \/ Unreadable(t)
    PROVE  KInv'
<1>1. call[t] \in Call /\ CallHolds(call[t], Token)
  BY CallFacts
<1>2. CASE MintFails(t) \/ Transient(t)
  <2>1. call[t].pc \in {"token", "send"}
    BY <1>2 DEF MintFails, Transient, At
  <2>2. cache \notin Heeded(call[t])
    BY <2>1 DEF KInv, Forgotten
  <2> QED BY <1>1, <1>2, <2>1, <2>2, TypeFailed, TokensFailed
<1>3. CASE Unauthorized(t)
  <2>1. call[t].pc = "send"
    BY <1>3 DEF Unauthorized, At
  <2>2. /\ Refused(call[t]) \in Call /\ CallHolds(Refused(call[t]), Token)
        /\ Refused(call[t]).pc # "idle" /\ Refused(call[t]).token = call[t].token
        /\ Refused(call[t]).refused = call[t].refused \cup {call[t].token}
    BY <1>1, <2>1, RefusedHolds DEF Token
  <2> QED BY <1>3, <2>1, <2>2, TypeUnauthorized, TokensFailed
<1>4. CASE Unreadable(t)
  <2>1. call[t].pc = "send" /\ cache \notin Heeded(call[t])
    BY <1>4 DEF Unreadable, At, KInv, Forgotten
  <2>2. /\ Unread(call[t]) \in Call /\ CallHolds(Unread(call[t]), Token)
        /\ Unread(call[t]).pc # "idle" /\ Unread(call[t]).token = call[t].token
        /\ Unread(call[t]).refused = call[t].refused \cup {call[t].token}
    BY <1>1, <2>1, RefusedHolds DEF Token
  <2>3. Unread(call[t]).unread = call[t].unread \cup {call[t].token}
    BY <1>1, <2>1, RefusedHolds DEF Token
  <2>4. cache \notin Heeded(Unread(call[t]))
    BY <2>1, <2>2, <2>3 DEF Heeded
  <2> QED BY <1>4, <2>1, <2>2, <2>4, TypeUnreadable, TokensFailed
<1> QED BY <1>2, <1>3, <1>4

(* What a step that uses, mints or stores a token makes of the calls.      *)
LEMMA UsingCall ==
    ASSUME TInv, NEW t \in Threads, NEW k \in Nat, NEW pc \in {"store", "send"},
           PastLimiter(t, Using(call[t], k, pc))
    PROVE  /\ call'[t].pc = pc /\ call'[t].token = k
           /\ call'[t].refused = call[t].refused /\ call'[t].unread = call[t].unread
           /\ \A u \in Threads : u # t => call'[u] = call[u]
<1>1. call[t] \in Call /\ call \in [Threads -> Call]
  BY CallFacts DEF TInv, TypeOK
<1>2. call'[t] = Using(call[t], k, pc) /\ \A u \in Threads : u # t => call'[u] = call[u]
  BY <1>1 DEF PastLimiter
<1> QED BY <1>1, <1>2 DEF Using, Call

LEMMA TokensUseCached ==
    ASSUME TInv, KInv, NEW t \in Threads, UseCached(t)
    PROVE  KInv'
<1>1. cache' = cache /\ cache \in Nat /\ cache \notin Heeded(call[t])
  BY DEF UseCached, At, tokens, Cached, TInv, TypeOK, Token, KInv, Forgotten
<1>2. /\ call'[t].pc = "send" /\ call'[t].token = cache
      /\ call'[t].refused = call[t].refused /\ call'[t].unread = call[t].unread
      /\ \A u \in Threads : u # t => call'[u] = call[u]
  BY <1>1, TypeUseCached, UsingCall
<1>3. call[t].pc = "token"
  BY DEF UseCached, At
<1>4. Unshown'
  BY <1>1, <1>2 DEF KInv, Unshown
<1>5. Forgotten'
  BY <1>1, <1>2 DEF KInv, Forgotten, Heeded
<1>6. ReadRefusalIsFinal'
  BY <1>1, <1>2 DEF KInv, ReadRefusalIsFinal, Heeded
<1> QED BY <1>4, <1>5, <1>6 DEF KInv

LEMMA TokensMint ==
    ASSUME TInv, KInv, NEW t \in Threads, Mint(t)
    PROVE  KInv'
<1> DEFINE k == Len(expiry) + 1
<1>1. cache' = cache /\ k \in Nat /\ k \notin Token
  BY TypeMint DEF Mint, TInv, TypeOK
<1>2. /\ call'[t].pc = "store" /\ call'[t].token = k
      /\ call'[t].refused = call[t].refused /\ call'[t].unread = call[t].unread
      /\ \A u \in Threads : u # t => call'[u] = call[u]
  BY <1>1, TypeMint, UsingCall
<1>3. /\ cache # k
      /\ \A u \in Threads : k \notin call[u].refused /\ call[u].token # k
  <2>1. k # None
    BY <1>1, ApiClientAssumption
  <2>2. cache \in Token \cup {None}
    BY DEF TInv, TypeOK
  <2>3. \A u \in Threads : call[u].refused \subseteq Token /\ call[u].token \in Token \cup {None}
    BY CallFacts DEF CallHolds
  <2> HIDE DEF k
  <2> QED BY <1>1, <2>1, <2>2, <2>3
<1>4. call[t].pc = "token"
  BY DEF Mint, At
<1> HIDE DEF k
<1>5. Unshown'
  <2> SUFFICES ASSUME NEW s \in Threads, NEW u \in Threads, call'[s].pc = "store"
               PROVE  /\ cache # call'[s].token
                      /\ call'[s].token \notin call'[u].refused
                      /\ u # s => call'[u].token # call'[s].token
    BY <1>1 DEF Unshown
  <2>1. call'[u].refused = call[u].refused
    BY <1>2
  <2>2. CASE s = t
    BY <1>2, <1>3, <2>1, <2>2
  <2>3. CASE s # t
    <3>1. /\ call'[s] = call[s] /\ cache # call[s].token
          /\ call[s].token \notin call[u].refused
          /\ u # s => call[u].token # call[s].token
      BY <1>2, <2>3 DEF KInv, Unshown
    <3> QED BY <1>2, <1>3, <2>1, <2>3, <3>1
  <2> QED BY <2>2, <2>3
<1>6. Forgotten'
  BY <1>1, <1>2, <1>4 DEF KInv, Forgotten, Heeded
<1>7. ReadRefusalIsFinal'
  BY <1>2 DEF KInv, ReadRefusalIsFinal
<1> QED BY <1>5, <1>6, <1>7 DEF KInv

LEMMA TokensStore ==
    ASSUME TInv, KInv, NEW t \in Threads, Store(t)
    PROVE  KInv'
<1> DEFINE k == call[t].token
<1>1. cache' = k /\ call[t].pc = "store" /\ k \in Nat
  BY CallFacts DEF Store, At, CallHolds, Token
<1>2. /\ call'[t].pc = "send" /\ call'[t].token = k
      /\ call'[t].refused = call[t].refused /\ call'[t].unread = call[t].unread
      /\ \A u \in Threads : u # t => call'[u] = call[u]
  BY <1>1, TypeStore, UsingCall
<1>3. \A u \in Threads : /\ k \notin call[u].refused
                         /\ u # t => call[u].token # k
  BY <1>1 DEF KInv, Unshown
<1> HIDE DEF k
<1>4. Unshown'
  <2> SUFFICES ASSUME NEW s \in Threads, NEW u \in Threads, call'[s].pc = "store"
               PROVE  /\ k # call'[s].token
                      /\ call'[s].token \notin call'[u].refused
                      /\ u # s => call'[u].token # call'[s].token
    BY <1>1 DEF Unshown
  <2>1. s # t /\ call'[s] = call[s]
    BY <1>2
  <2>2. /\ call[s].token \notin call[u].refused
        /\ u # s => call[u].token # call[s].token
    BY <2>1 DEF KInv, Unshown
  <2> QED BY <1>2, <1>3, <2>1, <2>2
<1>5. Forgotten'
  BY <1>1, <1>2, <1>3 DEF Forgotten, Heeded
<1>6. ReadRefusalIsFinal'
  BY <1>2, <1>3 DEF KInv, ReadRefusalIsFinal
<1> QED BY <1>4, <1>5, <1>6 DEF KInv

LEMMA TokensInvalidate ==
    ASSUME TInv, KInv, NEW t \in Threads, Invalidate(t)
    PROVE  KInv'
<1>1. /\ cache' = None
      /\ call'[t].pc = "wait" /\ call'[t].token = call[t].token
      /\ call'[t].refused = call[t].refused /\ call'[t].unread = call[t].unread
      /\ \A u \in Threads : u # t => call'[u] = call[u]
  BY CallFacts DEF Invalidate, Goes, TInv, TypeOK, Call
<1>2. \A u \in Threads : /\ None \notin call[u].refused
                         /\ call[u].pc = "store" => call[u].token # None
  BY CallFacts, ApiClientAssumption DEF CallHolds, Token
<1>3. Unshown'
  BY <1>1, <1>2 DEF KInv, Unshown
<1>4. Forgotten'
  BY <1>1, <1>2 DEF Forgotten, Heeded
<1>5. ReadRefusalIsFinal'
  BY <1>1 DEF KInv, ReadRefusalIsFinal
<1> QED BY <1>3, <1>4, <1>5 DEF KInv

LEMMA TokensStep ==
    ASSUME TInv, KInv, [Next]_vars
    PROVE  KInv'
<1>1. CASE Tick \/ (\E k \in Token : Revoke(k)) \/ UNCHANGED vars
  BY <1>1 DEF Tick, Revoke, vars, tokens, KInv, Unshown, Forgotten, ReadRefusalIsFinal
<1>2. ASSUME NEW t \in Threads, Step(t) \/ \E op \in Operations : Begin(t, op)
      PROVE  KInv'
  BY <1>2, TokensQuiet, TokensFailing, TokensUseCached, TokensMint, TokensStore,
     TokensInvalidate DEF Step
<1> QED BY <1>1, <1>2 DEF Next

-----------------------------------------------------------------------------
(* The limiter                                                             *)

(* What an operation's bucket holds pays for the calls since any admitted  *)
(* one, out of a burst and the time since then.                            *)
Pays(op, units, at) ==
    \A i \in 1 .. Len(admitted[op]) :
        /\ admitted[op][i] <= at
        /\ units + (Len(admitted[op]) - i + 1) * Cost <= Capacity + (at - admitted[op][i])

Paid ==
    \A op \in Operations :
        IF bucket[op] = None THEN admitted[op] = <<>>
        ELSE Pays(op, bucket[op].units, bucket[op].last)

Asleep ==
    \A t \in Threads :
        call[t].pc = "sleep" =>
            LET b == bucket[call[t].op] IN
            /\ lock = t
            /\ b # None
            /\ b.units < Cost
            /\ call[t].wake = b.last + (Cost - b.units)

LInv == Paid /\ Asleep /\ AdmissionsLimited

LEMMA Times == \A n \in Int : n * Cost \in Int /\ (n + 1) * Cost = n * Cost + Cost
BY ApiClientAssumption

LEMMA LaterPays ==
    \A a, last, time, units, left, owed, cap \in Int :
        /\ a <= last /\ last <= time
        /\ units + owed <= cap + (last - a)
        /\ left <= units + (time - last)
        => a <= time /\ left + owed <= cap + (time - a)
OBVIOUS

LEMMA LimiterInit == Init => LInv
<1> SUFFICES ASSUME Init PROVE LInv
  OBVIOUS
<1>1. Paid
  BY DEF Init, Paid
<1>2. Asleep
  BY DEF Init, Asleep, Idle
<1>3. AdmissionsLimited
  <2>1. \A op \in Operations : Len(admitted[op]) = 0
    BY DEF Init
  <2> QED BY <2>1 DEF AdmissionsLimited
<1> QED BY <1>1, <1>2, <1>3 DEF LInv

LEMMA RefilledPays ==
    ASSUME TInv, LInv, NEW op \in Operations
    PROVE  Pays(op, Refilled(op), now)
<1>1. CASE bucket[op] = None
  BY <1>1 DEF LInv, Paid, Pays
<1>2. CASE bucket[op] # None
  <2> DEFINE b == bucket[op]
  <2>1. b.last \in Nat /\ b.units \in Nat /\ b.last <= now /\ now \in Nat
    BY <1>2 DEF TInv, TypeOK, Clocked, Bucket
  <2>2. Refilled(op) \in Nat /\ Refilled(op) <= b.units + (now - b.last)
    BY <1>2, <2>1, CapacityType DEF Refilled
  <2>3. Pays(op, b.units, b.last)
    BY <1>2 DEF LInv, Paid
  <2> SUFFICES ASSUME NEW i \in 1 .. Len(admitted[op])
               PROVE  /\ admitted[op][i] <= now
                      /\ Refilled(op) + (Len(admitted[op]) - i + 1) * Cost
                            <= Capacity + (now - admitted[op][i])
    BY DEF Pays
  <2> DEFINE a == admitted[op][i]
  <2> DEFINE owed == (Len(admitted[op]) - i + 1) * Cost
  <2>4. a \in Nat /\ owed \in Int
    <3>1. admitted[op] \in Seq(Nat)
      BY DEF TInv, TypeOK
    <3>2. Len(admitted[op]) - i + 1 \in Int
      BY <3>1
    <3>3. owed \in Int
      BY <3>2, Times
    <3>4. a \in Nat
      BY <3>1
    <3> QED BY <3>3, <3>4
  <2>5. a <= b.last /\ b.units + owed <= Capacity + (b.last - a)
    BY <2>3 DEF Pays
  <2> HIDE DEF a, owed, b
  <2>6. /\ a \in Int /\ b.last \in Int /\ now \in Int /\ b.units \in Int
        /\ Refilled(op) \in Int /\ owed \in Int /\ Capacity \in Int
    BY <2>1, <2>2, <2>4, CapacityType
  <2>7. a <= now /\ Refilled(op) + owed <= Capacity + (now - a)
    BY <2>1, <2>2, <2>5, <2>6, LaterPays
  <2> QED BY <2>7 DEF a, owed
<1> QED BY <1>1, <1>2

(* A call is admitted, and what is left pays for it too.                   *)
LEMMA AdmitPays ==
    ASSUME TInv, LInv, NEW op \in Operations, NEW units \in Nat, Admit(op, units),
           Pays(op, units + Cost, now), units + Cost <= Capacity
    PROVE  Paid' /\ AdmissionsLimited'
<1> DEFINE A == admitted[op]
<1> DEFINE n == Len(A)
<1>1. /\ A \in Seq(Nat) /\ n \in Nat /\ now \in Nat
      /\ admitted'[op] = Append(A, now)
      /\ bucket'[op] = [last |-> now, units |-> units]
      /\ \A o \in Operations : o # op => admitted'[o] = admitted[o] /\ bucket'[o] = bucket[o]
  BY DEF Admit, TInv, TypeOK
<1>2. /\ Len(admitted'[op]) = n + 1
      /\ admitted'[op][n + 1] = now
      /\ \A i \in 1 .. n : admitted'[op][i] = A[i] /\ A[i] \in Nat
  BY <1>1
<1> HIDE DEF A, n
<1>3. ASSUME NEW i \in 1 .. n + 1
      PROVE  /\ admitted'[op][i] \in Nat /\ admitted'[op][i] <= now
             /\ units + (n + 1 - i + 1) * Cost <= Capacity + (now - admitted'[op][i])
  <2>1. CASE i = n + 1
    <3>1. (n + 1 - i + 1) * Cost = Cost
      BY <1>1, <2>1, ApiClientAssumption
    <3> QED BY <1>1, <1>2, <2>1, <3>1, CapacityType, ApiClientAssumption
  <2>2. CASE i # n + 1
    <3> DEFINE owed == (n - i + 1) * Cost
    <3>1. i \in 1 .. n
      BY <1>1, <2>2
    <3>2. A[i] <= now /\ units + Cost + owed <= Capacity + (now - A[i])
      BY <3>1 DEF Pays, A, n
    <3>3. owed \in Int /\ (n + 1 - i + 1) * Cost = owed + Cost
      <4>1. n - i + 1 \in Int /\ n + 1 - i + 1 = (n - i + 1) + 1
        BY <1>1
      <4> QED BY <4>1, Times
    <3>4. admitted'[op][i] = A[i] /\ A[i] \in Nat
      BY <1>2, <3>1
    <3> HIDE DEF owed
    <3> QED BY <1>1, <3>2, <3>3, <3>4, CapacityType, ApiClientAssumption
  <2> QED BY <2>1, <2>2
<1>4. Paid'
  <2> SUFFICES ASSUME NEW o \in Operations
               PROVE  IF bucket'[o] = None THEN admitted'[o] = <<>>
                      ELSE Pays(o, bucket[o].units, bucket[o].last)'
    BY DEF Paid
  <2>1. CASE o = op
    <3>1. bucket'[op] # None /\ bucket'[op].units = units /\ bucket'[op].last = now
      <4>1. bucket'[op] \in Bucket
        BY <1>1 DEF Bucket
      <4>2. None \notin Bucket
        BY ApiClientAssumption
      <4> QED BY <1>1, <4>1, <4>2
    <3>2. Pays(op, bucket[op].units, bucket[op].last)'
      <4>1. Capacity' = Capacity
        BY DEF Capacity
      <4> QED BY <1>1, <1>2, <1>3, <3>1, <4>1 DEF Pays
    <3> QED BY <2>1, <3>1, <3>2
  <2>2. CASE o # op
    BY <1>1, <2>2 DEF LInv, Paid, Pays, Capacity
  <2> QED BY <2>1, <2>2
<1>5. AdmissionsLimited'
  <2> SUFFICES ASSUME NEW o \in Operations,
                      NEW i \in 1 .. Len(admitted'[o]), NEW j \in 1 .. Len(admitted'[o]), i <= j
               PROVE  (j - i + 1) * Cost <= Capacity + (admitted'[o][j] - admitted'[o][i])
    BY DEF AdmissionsLimited, Capacity
  <2>1. CASE o = op /\ j = n + 1
    <3>1. i \in 1 .. n + 1
      BY <1>2, <2>1
    <3> DEFINE owed == (n + 1 - i + 1) * Cost
    <3>2. /\ owed \in Int /\ units + owed <= Capacity + (now - admitted'[op][i])
          /\ admitted'[op][i] \in Nat
      <4>1. n + 1 - i + 1 \in Int
        BY <1>1
      <4> QED BY <1>3, <3>1, <4>1, Times
    <3> HIDE DEF owed
    <3>3. owed <= Capacity + (now - admitted'[op][i])
      <4>1. \A a, b, c, d, e \in Int : e >= 0 /\ e + a <= b + (c - d) => a <= b + (c - d)
        OBVIOUS
      <4>2. owed \in Int /\ Capacity \in Int /\ now \in Int /\ admitted'[op][i] \in Int
            /\ units \in Int /\ units >= 0
        <5>1. now \in Int
          BY <1>1
        <5>2. owed \in Int /\ admitted'[op][i] \in Int
          BY <3>2
        <5>3. units \in Int /\ units >= 0 /\ Capacity \in Int
          BY CapacityType
        <5> QED BY <5>1, <5>2, <5>3
      <4> QED BY <3>2, <4>1, <4>2
    <3>4. (j - i + 1) * Cost = owed
      <4>1. n \in Int /\ i \in Int
        BY <1>1, <3>1
      <4>2. j - i + 1 = n + 1 - i + 1
        BY <2>1, <4>1
      <4> QED BY <4>2 DEF owed
    <3>5. admitted'[o][j] = now /\ admitted'[o][i] = admitted'[op][i]
      BY <1>2, <2>1
    <3> QED BY <3>3, <3>4, <3>5
  <2>2. CASE o = op /\ j # n + 1
    <3>1. i \in 1 .. n /\ j \in 1 .. n
      BY <1>1, <1>2, <2>2
    <3>2. (j - i + 1) * Cost <= Capacity + (admitted[op][j] - admitted[op][i])
      BY <3>1 DEF LInv, AdmissionsLimited, A, n
    <3> QED BY <1>2, <2>2, <3>1, <3>2 DEF A
  <2>3. CASE o # op
    BY <1>1, <2>3 DEF LInv, AdmissionsLimited
  <2> QED BY <2>1, <2>2, <2>3
<1> QED BY <1>4, <1>5

(* Threads other than t sleep on as they did.                              *)
Others(t) ==
    \A u \in Threads :
        u # t => /\ call'[u] = call[u]
                 /\ call[u].pc = "sleep" =>
                        lock' = lock /\ bucket'[call[u].op] = bucket[call[u].op]

LEMMA SleepOn ==
    ASSUME TInv, LInv, NEW t \in Threads, Others(t), call'[t].pc # "sleep"
    PROVE  Asleep'
BY DEF LInv, Asleep, Others

(* The lock is free: nobody sleeps.                                        *)
LEMMA NobodySleeps ==
    ASSUME LInv, lock = None
    PROVE  \A u \in Threads : call[u].pc # "sleep"
BY ApiClientAssumption DEF LInv, Asleep

LEMMA LimiterPass ==
    ASSUME TInv, LInv, NEW t \in Threads, Pass(t)
    PROVE  LInv'
<1> DEFINE op == call[t].op
<1> DEFINE units == Refilled(op) - Cost
<1>1. call[t] \in Call /\ call \in [Threads -> Call] /\ op \in Operations
  BY CallFacts DEF Pass, At, TInv, TypeOK
<1>2. /\ Refilled(op) \in Nat /\ Refilled(op) <= Capacity /\ Cost <= Refilled(op)
      /\ Pays(op, Refilled(op), now)
  BY <1>1, RefilledType, RefilledPays DEF Pass
<1>3. units \in Nat /\ units + Cost = Refilled(op)
  BY <1>2, ApiClientAssumption DEF Pass
<1>4. Admit(op, units)
  BY DEF Pass
<1>5. Paid' /\ AdmissionsLimited'
  <2> HIDE DEF units
  <2> QED BY <1>1, <1>2, <1>3, <1>4, AdmitPays
<1>6. Others(t) /\ call'[t].pc = "token"
  <2>1. \A u \in Threads : call[u].pc # "sleep"
    BY NobodySleeps DEF Pass
  <2> QED BY <1>1, <2>1 DEF Pass, Goes, Others, Call
<1> QED BY <1>5, <1>6, SleepOn DEF LInv

LEMMA LimiterSleep ==
    ASSUME TInv, LInv, NEW t \in Threads, Sleep(t)
    PROVE  LInv'
<1> DEFINE op == call[t].op
<1> DEFINE left == Refilled(op)
<1>1. call[t] \in Call /\ call \in [Threads -> Call] /\ op \in Operations
  BY CallFacts DEF Sleep, At, TInv, TypeOK
<1>2. left \in Nat /\ left < Cost /\ Pays(op, left, now) /\ now \in Nat
  BY <1>1, RefilledType, RefilledPays DEF Sleep, TInv, TypeOK
<1>3. /\ bucket'[op] = [last |-> now, units |-> left] /\ bucket'[op] # None
      /\ \A o \in Operations : o # op => bucket'[o] = bucket[o]
      /\ UNCHANGED admitted
  <2>1. [last |-> now, units |-> left] \in Bucket
    BY <1>2 DEF Bucket
  <2> QED BY <1>1, <2>1, ApiClientAssumption DEF Sleep, TInv, TypeOK
<1>4. /\ call'[t].pc = "sleep" /\ call'[t].op = op /\ call'[t].wake = now + Cost - left
      /\ \A u \in Threads : u # t => call'[u] = call[u] /\ call'[u].pc # "sleep"
      /\ lock' = t
  BY <1>1, NobodySleeps DEF Sleep, Call
<1> HIDE DEF left
<1>5. Paid'
  <2> SUFFICES ASSUME NEW o \in Operations
               PROVE  IF bucket'[o] = None THEN admitted'[o] = <<>>
                      ELSE Pays(o, bucket[o].units, bucket[o].last)'
    BY DEF Paid
  <2>1. Capacity' = Capacity
    BY DEF Capacity
  <2>2. CASE o = op
    BY <1>2, <1>3, <2>1, <2>2 DEF Pays
  <2>3. CASE o # op
    BY <1>3, <2>1, <2>3 DEF LInv, Paid, Pays
  <2> QED BY <2>2, <2>3
<1>6. Asleep'
  <2>1. now + Cost - left = now + (Cost - left)
    BY <1>2, ApiClientAssumption
  <2>2. /\ bucket'[call'[t].op] = bucket'[op]
        /\ bucket'[op].units = left /\ bucket'[op].last = now
    BY <1>3, <1>4
  <2> QED BY <1>2, <1>3, <1>4, <2>1, <2>2 DEF Asleep
<1>7. AdmissionsLimited'
  BY <1>3 DEF LInv, AdmissionsLimited, Capacity
<1> QED BY <1>5, <1>6, <1>7 DEF LInv

LEMMA LimiterWake ==
    ASSUME TInv, LInv, NEW t \in Threads, Wake(t)
    PROVE  LInv'
<1> DEFINE op == call[t].op
<1> DEFINE b == bucket[op]
<1>1. call[t] \in Call /\ call \in [Threads -> Call] /\ op \in Operations /\ call[t].pc = "sleep"
  BY CallFacts DEF Wake, At, TInv, TypeOK
<1>2. /\ lock = t /\ b # None /\ b.units < Cost
      /\ call[t].wake = b.last + (Cost - b.units) /\ call[t].wake <= now
  BY <1>1 DEF Wake, LInv, Asleep, Call, TInv, TypeOK
<1>3. b.last \in Nat /\ b.units \in Nat /\ now \in Nat
  BY <1>1, <1>2 DEF TInv, TypeOK, Bucket
<1>4. Pays(op, b.units, b.last)
  BY <1>1, <1>2 DEF LInv, Paid
<1>5. Pays(op, 0 + Cost, now)
  <2> SUFFICES ASSUME NEW i \in 1 .. Len(admitted[op])
               PROVE  /\ admitted[op][i] <= now
                      /\ 0 + Cost + (Len(admitted[op]) - i + 1) * Cost
                            <= Capacity + (now - admitted[op][i])
    BY DEF Pays
  <2> DEFINE a == admitted[op][i]
  <2> DEFINE owed == (Len(admitted[op]) - i + 1) * Cost
  <2>1. a \in Nat /\ owed \in Int
    <3>1. admitted[op] \in Seq(Nat)
      BY <1>1 DEF TInv, TypeOK
    <3>2. Len(admitted[op]) - i + 1 \in Int
      BY <3>1
    <3>3. owed \in Int
      BY <3>2, Times
    <3>4. a \in Nat
      BY <3>1
    <3> QED BY <3>3, <3>4
  <2>2. a <= b.last /\ b.units + owed <= Capacity + (b.last - a)
    BY <1>4 DEF Pays
  <2> HIDE DEF a, owed, b
  <2>3. b.last <= now /\ Cost <= b.units + (now - b.last)
    BY <1>2, <1>3, ApiClientAssumption
  <2>4. /\ a \in Int /\ b.last \in Int /\ now \in Int /\ b.units \in Int
        /\ Cost \in Int /\ owed \in Int /\ Capacity \in Int
    BY <1>3, <2>1, CapacityType, ApiClientAssumption
  <2>5. a <= now /\ Cost + owed <= Capacity + (now - a)
    BY <2>2, <2>3, <2>4, LaterPays
  <2>6. 0 + Cost + owed = Cost + owed
    BY <2>4
  <2> QED BY <2>5, <2>6 DEF a, owed
<1>6. Admit(op, 0)
  BY DEF Wake
<1>7. Paid' /\ AdmissionsLimited'
  <2>1. 0 + Cost <= Capacity
    BY CapacityType, ApiClientAssumption
  <2> HIDE DEF op
  <2> QED BY <1>1, <1>5, <1>6, <2>1, AdmitPays
<1>8. Others(t) /\ call'[t].pc = "token"
  <2>1. \A u \in Threads : u # t => call[u].pc # "sleep"
    BY <1>2 DEF LInv, Asleep
  <2> QED BY <1>1, <2>1 DEF Wake, Others, Call
<1> QED BY <1>7, <1>8, SleepOn DEF LInv

(* A step of a call that leaves the limiter alone.                         *)
LEMMA LimiterQuiet ==
    ASSUME TInv, LInv, UNCHANGED limiter,
           \A u \in Threads : call'[u] = call[u] \/ call'[u].pc # "sleep"
    PROVE  LInv'
<1>1. UNCHANGED <<bucket, lock, admitted, Capacity>>
  BY DEF limiter, Capacity
<1>2. Paid' /\ AdmissionsLimited'
  BY <1>1 DEF LInv, Paid, Pays, AdmissionsLimited
<1>3. Asleep'
  BY <1>1 DEF LInv, Asleep
<1> QED BY <1>2, <1>3 DEF LInv

LEMMA QuietAttempt ==
    ASSUME TInv, LInv, NEW t \in Threads, NEW d, PastLimiter(t, d), d.pc # "sleep"
    PROVE  LInv'
<1>1. UNCHANGED limiter /\ \A u \in Threads : call'[u] = call[u] \/ call'[u].pc # "sleep"
  BY DEF PastLimiter, TInv, TypeOK
<1> QED BY <1>1, LimiterQuiet

LEMMA LimiterStep ==
    ASSUME TInv, LInv, [Next]_vars
    PROVE  LInv'
<1>1. CASE Tick \/ (\E k \in Token : Revoke(k)) \/ UNCHANGED vars
  <2>1. UNCHANGED limiter /\ UNCHANGED call
    BY <1>1 DEF Tick, Revoke, vars, limiter
  <2> QED BY <2>1, LimiterQuiet
<1>2. ASSUME NEW t \in Threads, NEW op \in Operations, Begin(t, op)
      PROVE  LInv'
  <2>1. /\ UNCHANGED limiter
        /\ \A u \in Threads : call'[u] = call[u] \/ call'[u].pc = "limit"
    BY <1>2 DEF Begin, Idle, TInv, TypeOK
  <2> QED BY <2>1, LimiterQuiet
<1>3. ASSUME NEW t \in Threads, Step(t)
      PROVE  LInv'
  <2>1. call[t] \in Call /\ CallHolds(call[t], Token)
    BY CallFacts
  <2>2. CASE Pass(t) \/ Sleep(t) \/ Wake(t)
    BY <2>2, LimiterPass, LimiterSleep, LimiterWake
  <2>3. CASE UseCached(t) \/ Mint(t) \/ Store(t)
    <3>1. ASSUME NEW k, NEW pc \in {"store", "send"}, PastLimiter(t, Using(call[t], k, pc))
          PROVE  LInv'
      <4>1. Using(call[t], k, pc).pc = pc
        BY <2>1 DEF Using, Call
      <4> QED BY <3>1, <4>1, QuietAttempt
    <3>2. CASE UseCached(t)
      BY <3>1, <3>2, TypeUseCached
    <3>3. CASE Mint(t)
      BY <3>1, <3>3, TypeMint
    <3>4. CASE Store(t)
      BY <3>1, <3>4, TypeStore
    <3> QED BY <2>3, <3>2, <3>3, <3>4
  <2>4. CASE MintFails(t) \/ Transient(t)
    <3>1. call[t].pc # "idle"
      BY <2>4 DEF MintFails, Transient, At
    <3>2. Failing(call[t], "wait").pc # "sleep"
      BY <2>1, <3>1, FailingHolds DEF Idle
    <3> QED BY <2>4, <3>2, TypeFailed, QuietAttempt
  <2>5. CASE Unauthorized(t)
    <3>1. call[t].pc = "send"
      BY <2>5 DEF Unauthorized, At
    <3>2. /\ Refused(call[t]) \in Call /\ CallHolds(Refused(call[t]), Token)
          /\ Refused(call[t]).pc # "idle"
      BY <2>1, <3>1, RefusedHolds DEF Token
    <3>3. Failing(Refused(call[t]), "expired").pc # "sleep"
      BY <3>2, FailingHolds DEF Idle
    <3> QED BY <2>5, <3>3, TypeUnauthorized, QuietAttempt
  <2>9. CASE Unreadable(t)
    <3>1. call[t].pc = "send"
      BY <2>9 DEF Unreadable, At
    <3>2. /\ Unread(call[t]) \in Call /\ CallHolds(Unread(call[t]), Token)
          /\ Unread(call[t]).pc # "idle"
      BY <2>1, <3>1, RefusedHolds DEF Token
    <3>3. Failing(Unread(call[t]), "wait").pc # "sleep"
      BY <3>2, FailingHolds DEF Idle
    <3> QED BY <2>9, <3>3, TypeUnreadable, QuietAttempt
  <2>6. CASE Returns(t)
    BY <2>6, TypeReturns, QuietAttempt DEF Idle
  <2>7. CASE Invalidate(t)
    <3>1. [call[t] EXCEPT !.pc = "wait"].pc # "sleep"
      BY <2>1 DEF Call
    <3> QED BY <2>7, <3>1, TypeInvalidate, QuietAttempt
  <2>8. CASE Retry(t)
    <3>1. [call[t] EXCEPT !.pc = "token", !.attempt = @ + 1].pc # "sleep"
      BY <2>1 DEF Call
    <3> QED BY <2>8, <3>1, TypeRetry, QuietAttempt
  <2> QED BY <1>3, <2>2, <2>3, <2>4, <2>5, <2>6, <2>7, <2>8, <2>9 DEF Step
<1> QED BY <1>1, <1>2, <1>3 DEF Next

-----------------------------------------------------------------------------
IInv == TInv /\ KInv /\ LInv

LEMMA Invariant == Spec => []IInv
<1>1. Init => IInv
  BY TypeInit, TokensInit, LimiterInit DEF IInv
<1>2. IInv /\ [Next]_vars => IInv'
  BY TypeStep, TokensStep, LimiterStep DEF IInv
<1> QED BY <1>1, <1>2, PTL DEF Spec

(***************************************************************************)
(* The client's variables keep their types: the cache holds a token that   *)
(* eBay minted, and no call counts more attempts than it may make          *)
(* (execute_with_auth, TokenCache, RateLimiter).                           *)
(***************************************************************************)
THEOREM TypeCorrect == Spec => []TypeOK
<1>1. IInv => TypeOK
  BY DEF IInv, TInv
<1> QED BY <1>1, Invariant, PTL

(***************************************************************************)
(* A call shows eBay a token again that eBay has refused it only where it  *)
(* could not parse the refusal, with any number of threads that store and  *)
(* invalidate in the cache between its attempts (the two 401 paths of      *)
(* execute_with_auth).                                                     *)
(***************************************************************************)
THEOREM ReadRefusalsHeeded == Spec => []ReadRefusalIsFinal
<1>1. IInv => ReadRefusalIsFinal
  BY DEF IInv, KInv
<1> QED BY <1>1, Invariant, PTL

(***************************************************************************)
(* The limiter keeps its rate for any burst, any rate and any number of    *)
(* threads: in every stretch of time at most a burst and what the time     *)
(* brings (RateLimiter.acquire).                                           *)
(***************************************************************************)
THEOREM RateKept == Spec => []AdmissionsLimited
<1>1. IInv => AdmissionsLimited
  BY DEF IInv, LInv
<1> QED BY <1>1, Invariant, PTL
=============================================================================
