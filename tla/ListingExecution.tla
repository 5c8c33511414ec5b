-------------------------- MODULE ListingExecution --------------------------
(***************************************************************************)
(* The execution layer: ExecutionApplicationService takes one attempt to   *)
(* list an item through readiness, the state machine, the guard, eBay, the *)
(* listing's state and the attempt's row.  A service object has one        *)
(* database session, one in-memory table of listing states, one monitor    *)
(* and one mock executor, and serves one call after another; services in   *)
(* several processes share the database and eBay.                          *)
(*                                                                         *)
(* Every action ends with at most one commit.  A commit may fail, and then *)
(* the session may be unusable, because no handler rolls it back; or the   *)
(* process may stop between two commits.                                   *)
(***************************************************************************)
EXTENDS Integers

CONSTANTS
    Services,   \* service objects, each in a process of its own
    Attempts,   \* attempt_id values callers use
    Listings,   \* listing ids, the payloads' and eBay's
    ListingOf,  \* the listing_id of an attempt's payload
    EbayIdOf,   \* the listing id that eBay gives what it publishes for an attempt
    Requests,   \* the kinds of calls that are made, a subset of Request
    Numbers,    \* values of current_attempt_number
    None,       \* nothing
    MaxCalls,   \* bound on the calls
    MaxFaults   \* bound on failed commits and restarts

VARIABLES
    rows,       \* the table execution_attempts
    history,    \* the table execution_history: the state changes of an attempt
    published,  \* how often eBay, or its mock, has listed for an attempt
    session,    \* whether a service's session still works
    listing,    \* ListingSyncService._mock_db
    alerted,    \* ExecutionMonitor._alert_history
    cache,      \* MockExecutor._attempt_history
    call,       \* the call a service is in
    calls,      \* calls so far
    faults      \* faults so far

vars == <<rows, history, published, session, listing, alerted, cache, call, calls, faults>>
database == <<rows, history>>
memory == <<listing, alerted, cache>>

-----------------------------------------------------------------------------
MaxAttempts == 3

(* execute_with_live_gateway or execute_listing, for real or as a dry run. *)
Request == [live: BOOLEAN, dry: BOOLEAN]

ASSUME ListingExecutionAssumption ==
    /\ ListingOf \in [Attempts -> Listings]
    /\ EbayIdOf \in [Attempts -> Listings]
    /\ Requests \subseteq Request
    /\ Numbers \subseteq Nat
    /\ MaxCalls \in Nat /\ MaxFaults \in Nat

Machine == {"ready", "executing", "executed", "failed", "rolled_back"}
Action == {"RETRY_LATER", "DEFER", "CANCEL"}

(* What an executor answers: success, the guard's refusal, or a failure,   *)
(* by what the retry manager makes of its text: TIMEOUT, NETWORK_ERROR and *)
(* UNKNOWN are retried alike, SELLER_LIMIT, STATE_CONFLICT.  The texts of  *)
(* executors and of exceptions hold what others wrote: any can be any.     *)
Failure == {"transient", "limit", "conflict"}
Outcome == {"success", "guard"} \cup Failure

Row == [status: Machine \ {"ready"}, code: Action \cup {None}]

ASSUME NoneAssumption == None \notin Row \cup Outcome \cup Action

ListingState == {"pending", "active", "pending_retry", "rolled_back"}

Call ==
    [pc: {"idle", "readiness", "initiate", "create", "guard", "execute", "complete",
          "sync", "finish", "fail", "schedule", "record", "alert", "caught"},
     attempt: Attempts \cup {None}, live: BOOLEAN, dry: BOOLEAN, number: Nat,
     machine: Machine, outcome: Outcome \cup {None},
     handling: BOOLEAN]     \* inside the except clause: what is raised escapes

Idle ==
    [pc |-> "idle", attempt |-> None, live |-> FALSE, dry |-> FALSE, number |-> 0,
     machine |-> "ready", outcome |-> None, handling |-> FALSE]

TypeOK ==
    /\ rows \in [Attempts -> Row \cup {None}]
    /\ history \in [Attempts -> SUBSET Machine]
    /\ published \in [Attempts -> Nat]
    /\ session \in [Services -> {"usable", "broken"}]
    /\ listing \in [Services -> [Listings -> ListingState]]
    /\ alerted \in [Services -> SUBSET Attempts]
    /\ cache \in [Services -> [Attempts -> Outcome \cup {None}]]
    /\ call \in [Services -> Call]
    /\ calls \in 0 .. MaxCalls
    /\ faults \in 0 .. MaxFaults

NoListings == [l \in Listings |-> "pending"]
NoCache == [a \in Attempts |-> None]

Init ==
    /\ rows = [a \in Attempts |-> None]
    /\ history = [a \in Attempts |-> {}]
    /\ published = [a \in Attempts |-> 0]
    /\ session = [s \in Services |-> "usable"]
    /\ listing = [s \in Services |-> NoListings]
    /\ alerted = [s \in Services |-> {}]
    /\ cache = [s \in Services |-> NoCache]
    /\ call = [s \in Services |-> Idle]
    /\ calls = 0
    /\ faults = 0

-----------------------------------------------------------------------------
(* ExecutionStateMachine.validate_transition *)
Allowed(from, to) ==
    \/ from = "ready" /\ to = "executing"
    \/ from = "executing" /\ to \in {"executed", "failed"}
    \/ from \in {"executed", "failed"} /\ to = "rolled_back"

(* ExecutionRetryManager.evaluate_failure, and CANCEL for what the guard   *)
(* refused.                                                                *)
Decision(c) ==
    CASE c.outcome \in {"guard", "conflict"} -> "CANCEL"
      [] c.outcome = "limit" -> "DEFER"
      [] OTHER -> IF c.number >= MaxAttempts THEN "CANCEL" ELSE "RETRY_LATER"

(* A commit in service s: it succeeds, or it raises.  A failed read leaves *)
(* the session usable; a failed flush leaves it broken, and then every     *)
(* later statement raises.                                                 *)
Commits(s) == session[s] = "usable" /\ UNCHANGED <<session, faults>>

Raises(s) ==
    \/ session[s] = "broken" /\ UNCHANGED <<session, faults>>
    \/ /\ session[s] = "usable"
       /\ faults < MaxFaults
       /\ faults' = faults + 1
       /\ \E after \in {"usable", "broken"} : session' = [session EXCEPT ![s] = after]

At(s, pc) == call[s].pc = pc
Goes(s, c, pc) == call' = [call EXCEPT ![s] = IF pc = "idle" THEN Idle ELSE [c EXCEPT !.pc = pc]]

(* An exception in call c: caught once, by the except clause of the call. *)
Raised(s, c) == Goes(s, c, IF c.handling THEN "idle" ELSE "caught")

(* A history event no property reads. *)
Notes(s, c, pc) ==
    \/ (c.live => session[s] = "usable") /\ UNCHANGED <<session, faults>> /\ Goes(s, c, pc)
    \/ c.live /\ Raises(s) /\ Raised(s, c)

(* Mutated form: an event that cannot be written is ignored. *)
MovesAnyway(s, c, to, pc) ==
    /\ \/ /\ (c.live => session[s] = "usable")
          /\ UNCHANGED <<session, faults>>
          /\ history' = IF c.live /\ ~c.dry THEN [history EXCEPT ![c.attempt] = @ \cup {to}] ELSE history
       \/ c.live /\ Raises(s) /\ UNCHANGED history
    /\ Goes(s, [c EXCEPT !.machine = to], pc)

(* _apply_transition: the machine has moved before its event is written.   *)
(* Only a live call's machine has a repository; a dry run's events are     *)
(* flagged, and left out here.                                             *)
Moves(s, c, to, pc) ==
    LET m == [c EXCEPT !.machine = to] IN
    \/ /\ (c.live => session[s] = "usable")
       /\ UNCHANGED <<session, faults>>
       /\ history' = IF c.live /\ ~c.dry THEN [history EXCEPT ![c.attempt] = @ \cup {to}] ELSE history
       /\ Goes(s, m, pc)
    \/ c.live /\ Raises(s) /\ Raised(s, m) /\ UNCHANGED history

(* A listing's state in memory, which a dry run leaves alone. *)
Listed(s, c, l, state) ==
    IF c.live /\ ~c.dry THEN [listing[s] EXCEPT ![l] = state] ELSE listing[s]

-----------------------------------------------------------------------------
(* A call, up to the executor. *)

Begin(s, a, q, n) ==
    /\ At(s, "idle")
    /\ calls < MaxCalls
    /\ calls' = calls + 1
    /\ call' = [call EXCEPT ![s] = [Idle EXCEPT !.pc = "readiness", !.attempt = a, !.live = q.live,
                                                !.dry = q.dry, !.number = n]]
    /\ UNCHANGED <<rows, history, published, session, listing, alerted, cache, faults>>

(* Below 80 the call is rejected.  The event is written outside the try.   *)
Readiness(s) ==
    /\ At(s, "readiness")
    /\ \/ /\ call[s].live => session[s] = "usable"
          /\ \E pc \in {"initiate", "idle"} : Goes(s, call[s], pc)
          /\ UNCHANGED <<session, faults>>
       \/ call[s].live /\ Raises(s) /\ Goes(s, call[s], "idle")
    /\ UNCHANGED <<database, published, memory, calls>>

Initiate(s) ==
    /\ At(s, "initiate")
    /\ Moves(s, call[s], "executing", "create")
    /\ UNCHANGED <<rows, published, memory, calls>>

(* Mutated form: an existing row is replaced. *)
CreateOrReplace(s) ==
    /\ At(s, "create")
    /\ session[s] = "usable"
    /\ rows' = [rows EXCEPT ![call[s].attempt] = [status |-> "executing", code |-> None]]
    /\ Goes(s, call[s], "guard")
    /\ UNCHANGED <<history, published, session, memory, calls, faults>>

(* Insert the row.  attempt_id is the primary key: a duplicate raises, and *)
(* breaks the session.                                                     *)
Create(s) ==
    /\ At(s, "create")
    /\ LET c == call[s] IN
       \/ /\ c.dry
          /\ Goes(s, c, "guard")
          /\ UNCHANGED <<rows, session, faults>>
       \/ /\ ~c.dry /\ rows[c.attempt] = None
          /\ Commits(s)
          /\ rows' = [rows EXCEPT ![c.attempt] = [status |-> "executing", code |-> None]]
          /\ Goes(s, c, "guard")
       \/ /\ ~c.dry /\ rows[c.attempt] # None
          /\ session' = [session EXCEPT ![s] = "broken"]
          /\ Raised(s, c)
          /\ UNCHANGED <<rows, faults>>
       \/ ~c.dry /\ Raises(s) /\ Raised(s, c) /\ UNCHANGED rows
    /\ UNCHANGED <<history, published, memory, calls>>

(* Credentials, environment and seller.  The live entry allows the         *)
(* payload's own environment and seller, so a live dry run always passes.  *)
Guard(s) ==
    /\ At(s, "guard")
    /\ LET c == call[s] IN
       \/ Notes(s, c, "execute")
       \/ ~(c.live /\ c.dry) /\ Notes(s, [c EXCEPT !.outcome = "guard"], "complete")
    /\ UNCHANGED <<database, published, memory, calls>>

(* What the executor of call c may answer.  The mock executor of an        *)
(* execute_listing call answers as it did before for the same attempt_id.  *)
Answers(s, c) ==
    CASE ~c.live /\ cache[s][c.attempt] # None -> {cache[s][c.attempt]}
      [] (c.live \/ cache[s][c.attempt] = None) /\ c.dry -> {"success"}
      [] OTHER -> {"success"} \cup Failure

Execute(s) ==
    /\ At(s, "execute")
    /\ LET c == call[s]
           performed == ~c.dry /\ (c.live \/ cache[s][c.attempt] = None) IN
       \E answer \in Answers(s, c) :
          /\ published' = IF performed /\ answer = "success"
                          THEN [published EXCEPT ![c.attempt] = @ + 1] ELSE published
          /\ cache' = IF c.live THEN cache ELSE [cache EXCEPT ![s] = [@ EXCEPT ![c.attempt] = answer]]
          /\ Goes(s, [c EXCEPT !.outcome = answer], "complete")
    /\ UNCHANGED <<database, session, listing, alerted, calls, faults>>

-----------------------------------------------------------------------------
(* A call, after the executor. *)

(* Mutated form: whatever is not a refusal counts as executed. *)
CompleteUnlessRefused(s) ==
    /\ At(s, "complete")
    /\ LET c == call[s] IN
       IF c.outcome # "guard"
       THEN Moves(s, c, "executed", IF c.live THEN "sync" ELSE "finish")
       ELSE Moves(s, c, "failed", "fail")
    /\ UNCHANGED <<rows, published, memory, calls>>

Complete(s) ==
    /\ At(s, "complete")
    /\ LET c == call[s] IN
       IF c.outcome = "success"
       THEN Moves(s, c, "executed", IF c.live THEN "sync" ELSE "finish")
       ELSE Moves(s, c, "failed", "fail")
    /\ UNCHANGED <<rows, published, memory, calls>>

(* Mutated form: a dry run changes the listing too. *)
SyncAlways(s) ==
    /\ At(s, "sync")
    /\ listing' = [listing EXCEPT ![s] = [@ EXCEPT ![ListingOf[call[s].attempt]] = "active"]]
    /\ Goes(s, call[s], "finish")
    /\ UNCHANGED <<database, published, session, alerted, cache, calls, faults>>

(* The payload's listing becomes active.  If the event cannot be written   *)
(* the listing of eBay's id is rolled back, the payload's stays active, and *)
(* the attempt goes on as a failed one.                                    *)
Sync(s) ==
    /\ At(s, "sync")
    /\ LET c == call[s]
           synced == Listed(s, c, ListingOf[c.attempt], "active") IN
       \/ /\ Commits(s)
          /\ listing' = [listing EXCEPT ![s] = synced]
          /\ Goes(s, c, "finish")
       \/ /\ Raises(s)
          /\ listing' = [listing EXCEPT ![s] =
                             IF c.dry THEN synced ELSE [synced EXCEPT ![EbayIdOf[c.attempt]] = "rolled_back"]]
          /\ \E failure \in Failure : Goes(s, [c EXCEPT !.outcome = failure], "fail")
    /\ UNCHANGED <<database, published, alerted, cache, calls>>

(* update_status, unless it is a dry run; then the call goes on at pc.  An *)
(* attempt whose row could not be inserted has none to update.             *)
Updates(s, c, row, pc) ==
    \/ c.dry /\ Goes(s, c, pc) /\ UNCHANGED <<rows, session, faults>>
    \/ /\ ~c.dry /\ Commits(s)
       /\ rows' = IF rows[c.attempt] = None THEN rows ELSE [rows EXCEPT ![c.attempt] = row]
       /\ Goes(s, c, pc)
    \/ ~c.dry /\ Raises(s) /\ Raised(s, c) /\ UNCHANGED rows

Finish(s) ==
    /\ At(s, "finish")
    /\ Updates(s, call[s], [rows[call[s].attempt] EXCEPT !.status = "executed"], "idle")
    /\ UNCHANGED <<history, published, memory, calls>>

(* Mutated form: an exception in the except clause is caught again. *)
CaughtAgain(s) ==
    /\ At(s, "caught")
    /\ \E failure \in Failure :
          LET c == [call[s] EXCEPT !.outcome = failure] IN
          IF c.live /\ c.machine = "executing" THEN Moves(s, c, "failed", "fail")
          ELSE Goes(s, c, "fail") /\ UNCHANGED <<history, session, faults>>
    /\ UNCHANGED <<rows, published, memory, calls>>

(* The except clause.  A live call first completes what was executing. *)
Caught(s) ==
    /\ At(s, "caught")
    /\ \E failure \in Failure :
          LET c == [call[s] EXCEPT !.outcome = failure, !.handling = TRUE] IN
          IF c.live /\ c.machine = "executing" THEN Moves(s, c, "failed", "fail")
          ELSE Goes(s, c, "fail") /\ UNCHANGED <<history, session, faults>>
    /\ UNCHANGED <<rows, published, memory, calls>>

(* The listing a failure is handled for: the result of a publication that  *)
(* could not be synced has eBay's id, any other the payload's.             *)
FailedListing(c) ==
    IF c.machine = "executed" /\ ~c.handling THEN EbayIdOf[c.attempt] ELSE ListingOf[c.attempt]

(* The failure handlers: the listing is to be retried, and the machine is  *)
(* rolled back, which raises from any state but executed and failed.       *)
Fail(s) ==
    /\ At(s, "fail")
    /\ LET c == call[s] IN
       /\ listing' = [listing EXCEPT ![s] = Listed(s, c, FailedListing(c), "pending_retry")]
       /\ IF Allowed(c.machine, "rolled_back")
          THEN Moves(s, c, "rolled_back", "schedule")
          ELSE Raised(s, c) /\ UNCHANGED <<history, session, faults>>
    /\ UNCHANGED <<rows, published, alerted, cache, calls>>

(* retry_scheduled or retry_cancelled, of a dry run and of either entry.   *)
Schedule(s) ==
    /\ At(s, "schedule")
    /\ \/ Commits(s) /\ Goes(s, call[s], "record")
       \/ Raises(s) /\ Raised(s, call[s])
    /\ UNCHANGED <<database, published, memory, calls>>

(* Mutated form: a deferred attempt keeps its row.                         *)
RecordUnlessDeferred(s) ==
    /\ At(s, "record")
    /\ LET c == call[s]
           row == [status |-> "rolled_back", code |-> Decision(c)] IN
       Updates(s, c, IF Decision(c) = "DEFER" THEN rows[c.attempt] ELSE row,
               IF c.live THEN "alert" ELSE "idle")
    /\ UNCHANGED <<history, published, memory, calls>>

(* The row after a failure: failed if the attempt is cancelled, else what  *)
(* the machine says.                                                       *)
Record(s) ==
    /\ At(s, "record")
    /\ LET c == call[s]
           row == [status |-> IF Decision(c) = "CANCEL" THEN "failed" ELSE c.machine,
                   code |-> Decision(c)] IN
       Updates(s, c, row, IF c.live THEN "alert" ELSE "idle")
    /\ UNCHANGED <<history, published, memory, calls>>

(* ExecutionMonitor, once for each attempt. *)
Alert(s) ==
    /\ At(s, "alert")
    /\ LET c == call[s] IN
       /\ alerted' = IF c.dry THEN alerted ELSE [alerted EXCEPT ![s] = @ \cup {c.attempt}]
       /\ IF c.attempt \in alerted[s]
          THEN Goes(s, c, "idle") /\ UNCHANGED <<session, faults>>
          ELSE Notes(s, c, "idle")
    /\ UNCHANGED <<database, published, listing, cache, calls>>

Step(s) ==
    \/ Readiness(s) \/ Initiate(s) \/ Create(s) \/ Guard(s) \/ Execute(s) \/ Complete(s)
    \/ Sync(s) \/ Finish(s) \/ Caught(s) \/ Fail(s) \/ Schedule(s) \/ Record(s) \/ Alert(s)

-----------------------------------------------------------------------------
(* rollback_execution: a fresh machine is said to be executed and rolled   *)
(* back; the row is marked, whatever its status.                           *)
Rollback(s, a) ==
    /\ At(s, "idle")
    /\ calls < MaxCalls
    /\ calls' = calls + 1
    /\ rows[a] # None
    /\ \/ Commits(s) /\ rows' = [rows EXCEPT ![a].status = "rolled_back"]
       \/ Raises(s) /\ UNCHANGED rows
    /\ UNCHANGED <<history, published, memory, call>>

(* The process stops, and another one takes its place. *)
Restart(s) ==
    /\ faults < MaxFaults
    /\ faults' = faults + 1
    /\ session' = [session EXCEPT ![s] = "usable"]
    /\ listing' = [listing EXCEPT ![s] = NoListings]
    /\ alerted' = [alerted EXCEPT ![s] = {}]
    /\ cache' = [cache EXCEPT ![s] = NoCache]
    /\ call' = [call EXCEPT ![s] = Idle]
    /\ UNCHANGED <<database, published, calls>>

Next ==
    \E s \in Services :
        \/ \E a \in Attempts, q \in Requests, n \in Numbers : Begin(s, a, q, n)
        \/ Step(s)
        \/ \E a \in Attempts : Rollback(s, a)
        \/ Restart(s)

Spec == Init /\ [][Next]_vars

(* A call goes on until it returns; nothing obliges anybody to make one. *)
FairSpec == Spec /\ \A s \in Services : WF_vars(Step(s))

-----------------------------------------------------------------------------
(* PROPERTIES *)

InFlight(a) == \E s \in Services : call[s].attempt = a

(***************************************************************************)
(* An attempt_id is listed at most once, whichever services are called     *)
(* with it and whatever failed before: the primary key alone sees to it.   *)
(***************************************************************************)
PublishedOnce == \A a \in Attempts : published[a] <= 1

(***************************************************************************)
(* A row says executed only of an attempt that eBay has listed, in spite   *)
(* of failed commits, restarts and a second call with the same attempt_id. *)
(***************************************************************************)
ExecutedIsPublished ==
    \A a \in Attempts :
        rows[a] # None /\ rows[a].status = "executed" => published[a] = 1

(***************************************************************************)
(* As long as no commit fails and no process stops, every call that ended  *)
(* left a final row, and the row has an error code exactly when eBay has   *)
(* not listed the attempt, also if an operator rolled it back meanwhile.   *)
(***************************************************************************)
Settled ==
    faults = 0 =>
        \A a \in Attempts :
            rows[a] # None /\ ~InFlight(a) =>
                /\ rows[a].status # "executing"
                /\ (published[a] = 1) <=> (rows[a].code = None)

(***************************************************************************)
(* A service believes a listing active only if it is on eBay: a dry run or *)
(* a failed attempt never makes it so.                                     *)
(***************************************************************************)
ActiveIsPublished ==
    \A s \in Services, l \in Listings :
        listing[s][l] = "active" => \E a \in Attempts : ListingOf[a] = l /\ published[a] > 0

(***************************************************************************)
(* The audit trail is ahead of the row: a live call closes its row only    *)
(* after the machine's last change of state was recorded in the history.   *)
(***************************************************************************)
AuditedFirst ==
    [][\A s \in Services :
        LET c == call[s] IN
        c.live /\ c.pc \in {"finish", "record"} /\ call'[s] # c
            /\ rows'[c.attempt] # rows[c.attempt]
        => c.machine \in history[c.attempt]]_vars

(***************************************************************************)
(* Every call returns, although its failure handling may fail in turn.     *)
(***************************************************************************)
CallsEnd == \A s \in Services : (call[s].pc # "idle") ~> (call[s].pc = "idle")

(***************************************************************************)
(* DOCUMENTED, AND NOT KEPT.  What the system schedules for a retry is not *)
(* on eBay, so that sending it again does not list the item twice          *)
(* ("prevents double listing on a resend").                                *)
(***************************************************************************)
RetryIsSafe ==
    \A a \in Attempts :
        rows[a] # None /\ rows[a].code = "RETRY_LATER" => published[a] = 0

=============================================================================
