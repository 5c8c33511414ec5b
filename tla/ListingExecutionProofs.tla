----------------------- MODULE ListingExecutionProofs -----------------------
(***************************************************************************)
(* What ListingExecution guarantees for any number of services, attempts   *)
(* and calls: its types, that an attempt is listed at most once, that an   *)
(* executed row and an active listing are on eBay, and that the audit      *)
(* trail is ahead of the rows.                                             *)
(*                                                                         *)
(* The argument is the primary key.  A call that has inserted the row of   *)
(* its attempt and not asked eBay yet is the only one of its attempt       *)
(* (Alone), and eBay has not listed the attempt (CallHolds): who comes     *)
(* later finds the row.  What comes after the executor only carries its    *)
(* answer to the row.                                                      *)
(***************************************************************************)
EXTENDS ListingExecution, TLAPS

PC == {"idle", "readiness", "initiate", "create", "guard", "execute", "complete",
       "sync", "finish", "fail", "schedule", "record", "alert", "caught"}

(* No dry run goes through the mock entry point, whose cache would answer  *)
(* a later real call with it.                                              *)
NoDryMock == [live |-> FALSE, dry |-> TRUE] \notin Requests

(* A call that has inserted its row, one that eBay has not been asked for  *)
(* yet, and one that eBay has said yes to.                                 *)
Opened(c) == ~c.dry /\ c.pc \in {"guard", "execute", "complete", "sync", "finish"}
Fresh(c) == ~c.dry /\ c.pc \in {"guard", "execute"}
Succeeded(c) ==
    /\ ~c.dry
    /\ c.pc \in {"sync", "finish"} \/ (c.pc = "complete" /\ c.outcome = "success")

(* What is sure of a call, with rows r, publications p and history h.      *)
CallHolds(c, r, p, h) ==
    /\ c.pc # "idle" => c.attempt \in Attempts /\ [live |-> c.live, dry |-> c.dry] \in Requests
    /\ c.pc \in {"schedule", "record"} => c.machine = "rolled_back"
    /\ Opened(c) => r[c.attempt] # None
    /\ Fresh(c) => p[c.attempt] = 0
    /\ (c.live \/ NoDryMock) /\ Succeeded(c) => p[c.attempt] = 1
    /\ c.live /\ ~c.dry /\ c.pc \in {"sync", "finish", "schedule", "record"}
          => c.machine \in h[c.attempt]

Calls == \A s \in Services : CallHolds(call[s], rows, published, history)

Alone ==
    \A s, u \in Services :
        Fresh(call[s]) /\ Fresh(call[u]) /\ call[s].attempt = call[u].attempt => s = u

Once == \A a \in Attempts : published[a] <= 1 /\ (rows[a] = None => published[a] = 0)

Honest ==
    NoDryMock =>
        /\ ExecutedIsPublished
        /\ \A s \in Services, a \in Attempts : cache[s][a] = "success" => published[a] = 1

IInv == TypeOK /\ Calls /\ Alone /\ Once /\ Honest /\ ActiveIsPublished

-----------------------------------------------------------------------------
(* The call after Goes.                                                    *)
After(c, pc) == IF pc = "idle" THEN Idle ELSE [c EXCEPT !.pc = pc]

LEMMA IdleType == Idle \in Call
BY DEF Idle, Call, Machine

LEMMA AfterType ==
    ASSUME NEW c \in Call, NEW pc \in PC
    PROVE  /\ After(c, pc) \in Call
           /\ After(c, pc).pc = pc
           /\ pc # "idle" =>
                 /\ After(c, pc).attempt = c.attempt
                 /\ After(c, pc).live = c.live
                 /\ After(c, pc).dry = c.dry
                 /\ After(c, pc).machine = c.machine
                 /\ After(c, pc).outcome = c.outcome
<1>1. CASE pc = "idle"
  BY <1>1, IdleType DEF After, Idle
<1>2. CASE pc # "idle"
  BY <1>2 DEF After, Call, PC
<1> QED BY <1>1, <1>2

LEMMA GoesIs ==
    ASSUME NEW s, NEW c, NEW pc, Goes(s, c, pc)
    PROVE  call' = [call EXCEPT ![s] = After(c, pc)]
BY DEF Goes, After

(* A commit that raises leaves the types alone.                            *)
LEMMA RaisesType ==
    ASSUME TypeOK, NEW s \in Services, Raises(s)
    PROVE  session' \in [Services -> {"usable", "broken"}] /\ faults' \in 0 .. MaxFaults
BY ListingExecutionAssumption DEF TypeOK, Raises

LEMMA RaisedIs ==
    ASSUME NEW s, NEW c, Raised(s, c)
    PROVE  \E q \in {"idle", "caught"} : call' = [call EXCEPT ![s] = After(c, q)]
<1>1. CASE c.handling
  BY <1>1, GoesIs DEF Raised
<1>2. CASE ~c.handling
  BY <1>2, GoesIs DEF Raised
<1> QED BY <1>1, <1>2

LEMMA NotesIs ==
    ASSUME TypeOK, NEW s \in Services, NEW c, NEW pc \in PC, Notes(s, c, pc)
    PROVE  /\ \E q \in {pc, "idle", "caught"} : call' = [call EXCEPT ![s] = After(c, q)]
           /\ session' \in [Services -> {"usable", "broken"}]
           /\ faults' \in 0 .. MaxFaults
<1>1. CASE (c.live => session[s] = "usable") /\ UNCHANGED <<session, faults>> /\ Goes(s, c, pc)
  BY <1>1, GoesIs DEF TypeOK
<1>2. CASE c.live /\ Raises(s) /\ Raised(s, c)
  BY <1>2, RaisesType, RaisedIs
<1> QED BY <1>1, <1>2 DEF Notes

Moved(c, to) == [c EXCEPT !.machine = to]

LEMMA MovedType ==
    ASSUME NEW c \in Call, NEW to \in Machine
    PROVE  /\ Moved(c, to) \in Call
           /\ Moved(c, to).machine = to
           /\ Moved(c, to).attempt = c.attempt
           /\ Moved(c, to).live = c.live
           /\ Moved(c, to).dry = c.dry
           /\ Moved(c, to).outcome = c.outcome
BY DEF Moved, Call

(* A move of the machine: where the call goes to after it, and that the    *)
(* history knows of it if the call goes on.                                *)
LEMMA MovesIs ==
    ASSUME TypeOK, NEW s \in Services, NEW c \in Call, NEW to \in Machine, NEW pc \in PC,
           c.attempt \in Attempts, Moves(s, c, to, pc)
    PROVE  /\ \E q \in {pc, "idle", "caught"} :
                 /\ call' = [call EXCEPT ![s] = After(Moved(c, to), q)]
                 /\ \/ q \in {"idle", "caught"}
                    \/ c.live /\ ~c.dry => to \in history'[c.attempt]
           /\ session' \in [Services -> {"usable", "broken"}]
           /\ faults' \in 0 .. MaxFaults
           /\ history' \in [Attempts -> SUBSET Machine]
           /\ \A a \in Attempts : history[a] \subseteq history'[a]
<1> DEFINE m == Moved(c, to)
<1>1. CASE /\ c.live => session[s] = "usable"
           /\ UNCHANGED <<session, faults>>
           /\ history' = IF c.live /\ ~c.dry
                         THEN [history EXCEPT ![c.attempt] = @ \cup {to}] ELSE history
           /\ Goes(s, m, pc)
  <2>1. call' = [call EXCEPT ![s] = After(m, pc)]
    BY <1>1, GoesIs
  <2>2. c.live /\ ~c.dry => to \in history'[c.attempt]
    BY <1>1 DEF TypeOK
  <2>3. /\ history' \in [Attempts -> SUBSET Machine]
        /\ \A a \in Attempts : history[a] \subseteq history'[a]
    BY <1>1 DEF TypeOK
  <2> QED BY <1>1, <2>1, <2>2, <2>3 DEF TypeOK
<1>2. CASE c.live /\ Raises(s) /\ Raised(s, m) /\ UNCHANGED history
  <2>1. \E q \in {"idle", "caught"} : call' = [call EXCEPT ![s] = After(m, q)]
    BY <1>2, RaisedIs
  <2> QED BY <1>2, <2>1, RaisesType DEF TypeOK
<1> QED BY <1>1, <1>2 DEF Moves, Moved

LEMMA UpdatesIs ==
    ASSUME TypeOK, NEW s \in Services, NEW c \in Call, NEW row, NEW pc \in PC,
           c.attempt \in Attempts, ~c.dry /\ rows[c.attempt] # None => row \in Row,
           Updates(s, c, row, pc)
    PROVE  /\ \E q \in {pc, "idle", "caught"} : call' = [call EXCEPT ![s] = After(c, q)]
           /\ session' \in [Services -> {"usable", "broken"}]
           /\ faults' \in 0 .. MaxFaults
           /\ rows' \in [Attempts -> Row \cup {None}]
           /\ \A a \in Attempts :
                 /\ rows'[a] = None <=> rows[a] = None
                 /\ rows'[a] = rows[a] \/ (a = c.attempt /\ ~c.dry /\ rows'[a] = row)
<1>0. CASE c.dry /\ Goes(s, c, pc) /\ UNCHANGED <<rows, session, faults>>
  BY <1>0, GoesIs DEF TypeOK
<1>1. CASE /\ ~c.dry /\ Commits(s)
           /\ rows' = IF rows[c.attempt] = None THEN rows ELSE [rows EXCEPT ![c.attempt] = row]
           /\ Goes(s, c, pc)
  <2>1. call' = [call EXCEPT ![s] = After(c, pc)]
    BY <1>1, GoesIs
  <2>2. CASE rows[c.attempt] = None
    BY <1>1, <2>1, <2>2 DEF TypeOK, Commits
  <2>3. CASE rows[c.attempt] # None
    <3>1. rows' = [rows EXCEPT ![c.attempt] = row] /\ row \in Row
      BY <1>1, <2>3
    <3>2. row # None
      BY <3>1, NoneAssumption
    <3> QED BY <1>1, <2>1, <2>3, <3>1, <3>2 DEF TypeOK, Commits
  <2> QED BY <2>2, <2>3
<1>2. CASE ~c.dry /\ Raises(s) /\ Raised(s, c) /\ UNCHANGED rows
  BY <1>2, RaisesType, RaisedIs DEF TypeOK
<1> QED BY <1>0, <1>1, <1>2 DEF Updates

-----------------------------------------------------------------------------
(* A step of one call that eBay does not see and that inserts no row.      *)
LEMMA OneCall ==
    ASSUME IInv, NEW s \in Services, NEW d \in Call, call' = [call EXCEPT ![s] = d],
           UNCHANGED published,
           \A a \in Attempts : rows'[a] = None <=> rows[a] = None,
           \A a \in Attempts : history[a] \subseteq history'[a],
           CallHolds(d, rows', published', history'),
           Fresh(d) => Fresh(call[s]) /\ d.attempt = call[s].attempt
    PROVE  call' \in [Services -> Call] /\ Calls' /\ Alone' /\ Once'
<1>1. /\ call' \in [Services -> Call]
      /\ call'[s] = d
      /\ \A u \in Services : u # s => call'[u] = call[u]
  BY DEF IInv, TypeOK
<1>2. ASSUME NEW u \in Services PROVE CallHolds(call'[u], rows', published', history')
  <2>1. CASE u = s
    BY <2>1, <1>1
  <2>2. CASE u # s
    <3>1. CallHolds(call[u], rows, published, history)
      BY DEF IInv, Calls
    <3>2. call'[u] = call[u]
      BY <2>2, <1>1
    <3> QED BY <3>1, <3>2 DEF CallHolds, Opened, Fresh, Succeeded
  <2> QED BY <2>1, <2>2
<1>3. Calls'
  BY <1>2 DEF Calls
<1>4. Alone'
  BY <1>1 DEF IInv, Alone
<1>5. Once'
  BY DEF IInv, Once
<1> QED BY <1>1, <1>3, <1>4, <1>5

(* A call that has not inserted its row, or is done with it.               *)
Quiet == {"idle", "readiness", "initiate", "create", "caught", "fail", "alert"}

LEMMA QuietHolds ==
    ASSUME NEW c \in Call, NEW q \in Quiet, NEW r, NEW p, NEW h,
           c.attempt \in Attempts, [live |-> c.live, dry |-> c.dry] \in Requests
    PROVE  After(c, q) \in Call /\ CallHolds(After(c, q), r, p, h) /\ ~Fresh(After(c, q))
<1>1. /\ After(c, q) \in Call
      /\ After(c, q).pc = q
      /\ q # "idle" => /\ After(c, q).attempt = c.attempt
                       /\ After(c, q).live = c.live
                       /\ After(c, q).dry = c.dry
  BY AfterType DEF PC, Quiet
<1> QED BY <1>1 DEF CallHolds, Opened, Fresh, Succeeded, Quiet

-----------------------------------------------------------------------------
LEMMA InitHolds == Init => IInv
<1> SUFFICES ASSUME Init PROVE IInv
  OBVIOUS
<1>1. TypeOK
  <2>1. call \in [Services -> Call]
    BY IdleType DEF Init
  <2> QED BY <2>1, ListingExecutionAssumption
        DEF Init, TypeOK, NoListings, NoCache, ListingState
<1>2. Calls /\ Alone
  <2>1. \A s \in Services : call[s].pc = "idle"
    BY DEF Init, Idle
  <2> QED BY <2>1 DEF Calls, Alone, CallHolds, Opened, Fresh, Succeeded
<1>3. Once
  BY DEF Init, Once
<1>4. Honest
  BY NoneAssumption DEF Init, Honest, ExecutedIsPublished, NoCache, Outcome
<1>5. ActiveIsPublished
  BY DEF Init, ActiveIsPublished, NoListings
<1> QED BY <1>1, <1>2, <1>3, <1>4, <1>5 DEF IInv

-----------------------------------------------------------------------------
(* A step by step proof that every action preserves IInv.                  *)

LEMMA CallFacts ==
    ASSUME IInv, NEW s \in Services
    PROVE  /\ call[s] \in Call
           /\ CallHolds(call[s], rows, published, history)
           /\ call[s].pc # "idle" =>
                 /\ call[s].attempt \in Attempts
                 /\ [live |-> call[s].live, dry |-> call[s].dry] \in Requests
BY DEF IInv, TypeOK, Calls, CallHolds

LEMMA BeginStep ==
    ASSUME IInv, NEW s \in Services, NEW a \in Attempts, NEW q \in Requests, NEW n \in Numbers,
           Begin(s, a, q, n)
    PROVE  IInv'
<1> DEFINE d == [Idle EXCEPT !.pc = "readiness", !.attempt = a, !.live = q.live,
                             !.dry = q.dry, !.number = n]
<1>1. d \in Call /\ CallHolds(d, rows', published', history') /\ ~Fresh(d)
  BY ListingExecutionAssumption
     DEF Idle, Call, Request, CallHolds, Opened, Fresh, Succeeded, Machine
<1>2. call' \in [Services -> Call] /\ Calls' /\ Alone' /\ Once'
  BY <1>1, OneCall DEF Begin
<1>3. TypeOK'
  BY <1>2, ListingExecutionAssumption DEF IInv, TypeOK, Begin
<1>4. Honest' /\ ActiveIsPublished'
  BY DEF IInv, Honest, ExecutedIsPublished, ActiveIsPublished, Begin
<1> QED BY <1>2, <1>3, <1>4 DEF IInv

LEMMA ReadinessStep ==
    ASSUME IInv, NEW s \in Services, Readiness(s)
    PROVE  IInv'
<1> DEFINE c == call[s]
<1>1. c \in Call /\ c.attempt \in Attempts /\ [live |-> c.live, dry |-> c.dry] \in Requests
  BY CallFacts DEF Readiness, At
<1>2. PICK q \in {"initiate", "idle"} : call' = [call EXCEPT ![s] = After(c, q)]
  <2>1. \E pc \in {"initiate", "idle"} : Goes(s, c, pc)
    BY DEF Readiness
  <2> QED BY <2>1, GoesIs
<1>3. session' \in [Services -> {"usable", "broken"}] /\ faults' \in 0 .. MaxFaults
  BY RaisesType DEF Readiness, IInv, TypeOK
<1>4. /\ After(c, q) \in Call
      /\ CallHolds(After(c, q), rows', published', history')
      /\ ~Fresh(After(c, q))
  BY <1>1, QuietHolds DEF Quiet
<1>5. call' \in [Services -> Call] /\ Calls' /\ Alone' /\ Once'
  BY <1>2, <1>4, OneCall DEF Readiness, database
<1>6. TypeOK'
  BY <1>3, <1>5 DEF IInv, TypeOK, Readiness, database, memory
<1>7. Honest' /\ ActiveIsPublished'
  BY DEF IInv, Honest, ExecutedIsPublished, ActiveIsPublished, Readiness, database, memory
<1> QED BY <1>5, <1>6, <1>7 DEF IInv

LEMMA InitiateStep ==
    ASSUME IInv, NEW s \in Services, Initiate(s)
    PROVE  IInv'
<1> DEFINE c == call[s]
<1> DEFINE m == Moved(c, "executing")
<1>1. c \in Call /\ c.attempt \in Attempts /\ [live |-> c.live, dry |-> c.dry] \in Requests
  BY CallFacts DEF Initiate, At
<1>2. /\ \E q \in {"create", "idle", "caught"} : call' = [call EXCEPT ![s] = After(m, q)]
      /\ session' \in [Services -> {"usable", "broken"}]
      /\ faults' \in 0 .. MaxFaults
      /\ history' \in [Attempts -> SUBSET Machine]
      /\ \A a \in Attempts : history[a] \subseteq history'[a]
  BY <1>1, MovesIs DEF PC, Machine, Initiate, IInv
<1>3. PICK q \in {"create", "idle", "caught"} : call' = [call EXCEPT ![s] = After(m, q)]
  BY <1>2
<1>4. /\ After(m, q) \in Call
      /\ CallHolds(After(m, q), rows', published', history')
      /\ ~Fresh(After(m, q))
  BY <1>1, MovedType, QuietHolds DEF Quiet, Machine
<1>5. call' \in [Services -> Call] /\ Calls' /\ Alone' /\ Once'
  BY <1>2, <1>3, <1>4, OneCall DEF Initiate
<1>6. TypeOK'
  BY <1>2, <1>5 DEF IInv, TypeOK, Initiate, memory
<1>7. Honest' /\ ActiveIsPublished'
  BY DEF IInv, Honest, ExecutedIsPublished, ActiveIsPublished, Initiate, memory
<1> QED BY <1>5, <1>6, <1>7 DEF IInv

(* The insert makes a call the only one of its attempt: the others that    *)
(* have not asked eBay yet would have a row.                               *)
LEMMA CreateStep ==
    ASSUME IInv, NEW s \in Services, Create(s)
    PROVE  IInv'
<1> DEFINE c == call[s]
<1>1. c \in Call /\ c.attempt \in Attempts /\ [live |-> c.live, dry |-> c.dry] \in Requests
  BY CallFacts DEF Create, At
<1>2. UNCHANGED <<history, published, listing, alerted, cache, calls>>
  BY DEF Create, memory
<1>3. CASE ~c.dry /\ rows[c.attempt] = None /\ Commits(s) /\ Goes(s, c, "guard")
           /\ rows' = [rows EXCEPT ![c.attempt] = [status |-> "executing", code |-> None]]
  <2> DEFINE d == After(c, "guard")
  <2>1. /\ d \in Call /\ d.pc = "guard" /\ d.attempt = c.attempt
        /\ d.live = c.live /\ d.dry = c.dry
    BY <1>1, AfterType DEF PC
  <2>2. call' = [call EXCEPT ![s] = d]
    BY <1>3, GoesIs
  <2> HIDE DEF d
  <2>3. [status |-> "executing", code |-> None] \in Row
    BY DEF Row, Machine
  <2>4. /\ rows' \in [Attempts -> Row \cup {None}]
        /\ rows'[c.attempt] # None
        /\ rows'[c.attempt].status # "executed"
        /\ \A a \in Attempts : a # c.attempt => rows'[a] = rows[a]
    BY <1>1, <1>3, <2>3, NoneAssumption DEF IInv, TypeOK
  <2>5. published[c.attempt] = 0
    BY <1>1, <1>3 DEF IInv, Once
  <2>6. /\ call' \in [Services -> Call]
        /\ call'[s] = d
        /\ \A u \in Services : u # s => call'[u] = call[u]
    BY <2>1, <2>2 DEF IInv, TypeOK
  <2>7. CallHolds(d, rows', published', history')
    BY <1>1, <1>2, <2>1, <2>4, <2>5 DEF CallHolds, Opened, Fresh, Succeeded
  <2>8. ASSUME NEW u \in Services, u # s
        PROVE  CallHolds(call[u], rows', published', history')
    BY <1>2, <2>4, CallFacts DEF CallHolds, Opened, Fresh, Succeeded
  <2>9. Calls'
    BY <2>6, <2>7, <2>8 DEF Calls
  <2>10. ASSUME NEW u \in Services, Fresh(call[u]) PROVE call[u].attempt # c.attempt
    BY <1>3, <2>10, CallFacts DEF CallHolds, Opened, Fresh
  <2>11. Alone'
    BY <2>1, <2>6, <2>10 DEF IInv, Alone
  <2>12. Once'
    BY <1>2, <2>4 DEF IInv, Once
  <2>13. Honest' /\ ActiveIsPublished'
    BY <1>2, <2>4 DEF IInv, Honest, ExecutedIsPublished, ActiveIsPublished
  <2>14. TypeOK'
    BY <1>2, <1>3, <2>4, <2>6 DEF IInv, TypeOK, Commits
  <2> QED BY <2>9, <2>11, <2>12, <2>13, <2>14 DEF IInv
<1>4. CASE rows' = rows /\ \E d \in Call :
              /\ call' = [call EXCEPT ![s] = d]
              /\ CallHolds(d, rows', published', history')
              /\ ~Fresh(d)
              /\ session' \in [Services -> {"usable", "broken"}]
              /\ faults' \in 0 .. MaxFaults
  <2>1. call' \in [Services -> Call] /\ Calls' /\ Alone' /\ Once'
    BY <1>2, <1>4, OneCall
  <2>2. TypeOK'
    BY <1>2, <1>4, <2>1 DEF IInv, TypeOK
  <2>3. Honest' /\ ActiveIsPublished'
    BY <1>2, <1>4 DEF IInv, Honest, ExecutedIsPublished, ActiveIsPublished
  <2> QED BY <2>1, <2>2, <2>3 DEF IInv
<1>5. CASE c.dry /\ Goes(s, c, "guard") /\ UNCHANGED <<rows, session, faults>>
  <2>1. /\ After(c, "guard") \in Call /\ After(c, "guard").pc = "guard"
        /\ After(c, "guard").attempt = c.attempt
        /\ After(c, "guard").live = c.live /\ After(c, "guard").dry = c.dry
    BY <1>1, AfterType DEF PC
  <2>2. CallHolds(After(c, "guard"), rows', published', history') /\ ~Fresh(After(c, "guard"))
    BY <1>1, <1>5, <2>1 DEF CallHolds, Opened, Fresh, Succeeded
  <2>3. call' = [call EXCEPT ![s] = After(c, "guard")]
    BY <1>5, GoesIs
  <2> QED BY <1>4, <1>5, <2>1, <2>2, <2>3 DEF IInv, TypeOK
<1>6. CASE rows' = rows /\ Raised(s, c) /\ session' \in [Services -> {"usable", "broken"}]
           /\ faults' \in 0 .. MaxFaults
  <2>1. PICK q \in {"idle", "caught"} : call' = [call EXCEPT ![s] = After(c, q)]
    BY <1>6, RaisedIs
  <2>2. /\ After(c, q) \in Call
        /\ CallHolds(After(c, q), rows', published', history')
        /\ ~Fresh(After(c, q))
    BY <1>1, QuietHolds DEF Quiet
  <2> QED BY <1>4, <1>6, <2>1, <2>2
<1>7. CASE ~c.dry /\ rows[c.attempt] # None /\ session' = [session EXCEPT ![s] = "broken"]
           /\ Raised(s, c) /\ UNCHANGED <<rows, faults>>
  BY <1>6, <1>7 DEF IInv, TypeOK
<1>8. CASE ~c.dry /\ Raises(s) /\ Raised(s, c) /\ UNCHANGED rows
  BY <1>6, <1>8, RaisesType DEF IInv
<1> QED BY <1>3, <1>5, <1>7, <1>8 DEF Create

LEMMA GuardStep ==
    ASSUME IInv, NEW s \in Services, Guard(s)
    PROVE  IInv'
<1> DEFINE c == call[s]
<1> DEFINE g == [c EXCEPT !.outcome = "guard"]
<1>1. /\ c \in Call /\ c.attempt \in Attempts /\ c.pc = "guard"
      /\ [live |-> c.live, dry |-> c.dry] \in Requests
      /\ CallHolds(c, rows, published, history)
  BY CallFacts DEF Guard, At
<1>2. g \in Call /\ g.attempt = c.attempt /\ g.live = c.live /\ g.dry = c.dry
      /\ g.outcome = "guard"
  BY <1>1 DEF Call, Outcome
<1>3. UNCHANGED <<rows, history, published, listing, alerted, cache, calls>>
  BY DEF Guard, database, memory
<1>4. /\ session' \in [Services -> {"usable", "broken"}]
      /\ faults' \in 0 .. MaxFaults
      /\ \E d \in Call : /\ call' = [call EXCEPT ![s] = d]
                         /\ CallHolds(d, rows', published', history')
                         /\ Fresh(d) => ~c.dry /\ d.attempt = c.attempt
  <2>1. CASE Notes(s, c, "execute")
    <3>1. /\ session' \in [Services -> {"usable", "broken"}]
          /\ faults' \in 0 .. MaxFaults
          /\ \E q \in {"execute", "idle", "caught"} : call' = [call EXCEPT ![s] = After(c, q)]
      BY <2>1, NotesIs DEF IInv, PC
    <3>2. PICK q \in {"execute", "idle", "caught"} : call' = [call EXCEPT ![s] = After(c, q)]
      BY <3>1
    <3>3. CASE q = "execute"
      <4>1. /\ After(c, q) \in Call /\ After(c, q).pc = "execute"
            /\ After(c, q).attempt = c.attempt
            /\ After(c, q).live = c.live /\ After(c, q).dry = c.dry
        BY <1>1, <3>3, AfterType DEF PC
      <4>2. CallHolds(After(c, q), rows', published', history')
        BY <1>1, <1>3, <4>1 DEF CallHolds, Opened, Fresh, Succeeded
      <4> QED BY <3>1, <3>2, <4>1, <4>2 DEF Fresh
    <3>4. CASE q # "execute"
      BY <1>1, <3>1, <3>2, <3>4, QuietHolds DEF Quiet
    <3> QED BY <3>3, <3>4
  <2>2. CASE Notes(s, g, "complete")
    <3> HIDE DEF g
    <3>1. /\ session' \in [Services -> {"usable", "broken"}]
          /\ faults' \in 0 .. MaxFaults
          /\ \E q \in {"complete", "idle", "caught"} : call' = [call EXCEPT ![s] = After(g, q)]
      BY <2>2, NotesIs DEF IInv, PC
    <3>2. PICK q \in {"complete", "idle", "caught"} : call' = [call EXCEPT ![s] = After(g, q)]
      BY <3>1
    <3>3. CASE q = "complete"
      <4>1. /\ After(g, q) \in Call /\ After(g, q).pc = "complete"
            /\ After(g, q).attempt = c.attempt /\ After(g, q).outcome = "guard"
            /\ After(g, q).live = c.live /\ After(g, q).dry = c.dry
        BY <1>2, <3>3, AfterType DEF PC
      <4>2. CallHolds(After(g, q), rows', published', history') /\ ~Fresh(After(g, q))
        BY <1>1, <1>3, <4>1 DEF CallHolds, Opened, Fresh, Succeeded
      <4> QED BY <3>1, <3>2, <4>1, <4>2
    <3>4. CASE q # "complete"
      BY <1>1, <1>2, <3>1, <3>2, <3>4, QuietHolds DEF Quiet
    <3> QED BY <3>3, <3>4
  <2> QED BY <2>1, <2>2 DEF Guard
<1>5. call' \in [Services -> Call] /\ Calls' /\ Alone' /\ Once'
  BY <1>1, <1>3, <1>4, OneCall DEF Fresh
<1>6. TypeOK'
  BY <1>3, <1>4, <1>5 DEF IInv, TypeOK
<1>7. Honest' /\ ActiveIsPublished'
  BY <1>3 DEF IInv, Honest, ExecutedIsPublished, ActiveIsPublished
<1> QED BY <1>5, <1>6, <1>7 DEF IInv

(* The only step that eBay sees.  A real call is fresh, so that its        *)
(* attempt goes from 0 to 1 and nobody else's call is fresh with it.       *)
LEMMA ExecuteStep ==
    ASSUME IInv, NEW s \in Services, Execute(s)
    PROVE  IInv'
<1> DEFINE c == call[s]
<1>1. /\ c \in Call /\ c.attempt \in Attempts /\ c.pc = "execute"
      /\ [live |-> c.live, dry |-> c.dry] \in Requests
      /\ CallHolds(c, rows, published, history)
  BY CallFacts DEF Execute, At
<1> DEFINE performed == ~c.dry /\ (c.live \/ cache[s][c.attempt] = None)
<1>2. PICK answer \in Answers(s, c) :
         /\ published' = IF performed /\ answer = "success"
                         THEN [published EXCEPT ![c.attempt] = @ + 1] ELSE published
         /\ cache' = IF c.live THEN cache
                     ELSE [cache EXCEPT ![s] = [@ EXCEPT ![c.attempt] = answer]]
         /\ Goes(s, [c EXCEPT !.outcome = answer], "complete")
  BY DEF Execute
<1>3. UNCHANGED <<rows, history, session, listing, alerted, calls, faults>>
  BY DEF Execute, database
<1>4. answer \in Outcome
  <2>1. cache[s][c.attempt] \in Outcome \cup {None}
    BY <1>1 DEF IInv, TypeOK
  <2>2. Answers(s, c) \subseteq Outcome
    BY <2>1 DEF Answers, Outcome, Failure
  <2> QED BY <2>2
<1> DEFINE d == After([c EXCEPT !.outcome = answer], "complete")
<1>5. /\ d \in Call /\ d.pc = "complete" /\ d.attempt = c.attempt
      /\ d.live = c.live /\ d.dry = c.dry /\ d.outcome = answer
  <2>1. [c EXCEPT !.outcome = answer] \in Call
    BY <1>1, <1>4 DEF Call
  <2> QED BY <1>1, <2>1, AfterType DEF PC, Call
<1>6. call' = [call EXCEPT ![s] = d]
  BY <1>2, GoesIs
<1> HIDE DEF d
<1>7. /\ call' \in [Services -> Call]
      /\ call'[s] = d
      /\ \A u \in Services : u # s => call'[u] = call[u]
  BY <1>5, <1>6 DEF IInv, TypeOK
<1>8. /\ published' \in [Attempts -> Nat]
      /\ \A a \in Attempts : published'[a] = published[a] \/ (a = c.attempt /\ published'[a] = 1)
      /\ \A a \in Attempts : published'[a] # published[a] => ~c.dry /\ a = c.attempt
      /\ performed /\ answer = "success" => published'[c.attempt] = 1
  <2>1. CASE performed /\ answer = "success"
    <3>1. published[c.attempt] = 0
      BY <1>1, <2>1 DEF CallHolds, Fresh
    <3> QED BY <1>1, <1>2, <2>1, <3>1 DEF IInv, TypeOK
  <2>2. CASE ~(performed /\ answer = "success")
    BY <1>2, <2>2 DEF IInv, TypeOK
  <2> QED BY <2>1, <2>2
<1>9. NoDryMock /\ ~c.live => ~c.dry
  BY <1>1 DEF NoDryMock, Call
<1>10. (c.live \/ NoDryMock) /\ ~c.dry /\ answer = "success" => published'[c.attempt] = 1
  <2>1. CASE performed
    BY <1>8, <2>1
  <2>2. CASE ~performed
    <3> SUFFICES ASSUME NoDryMock, ~c.live, ~c.dry, answer = "success"
                 PROVE  published'[c.attempt] = 1
      BY <2>2
    <3>1. cache[s][c.attempt] = "success"
      BY <2>2 DEF Answers
    <3>2. published[c.attempt] = 1
      BY <1>1, <3>1 DEF IInv, Honest
    <3> QED BY <1>1, <1>8, <3>2
  <2> QED BY <2>1, <2>2
<1>11. CallHolds(d, rows', published', history') /\ ~Fresh(d)
  BY <1>1, <1>3, <1>5, <1>10 DEF CallHolds, Opened, Fresh, Succeeded
<1>12. ASSUME NEW u \in Services, u # s
       PROVE  CallHolds(call[u], rows', published', history')
  <2>1. CallHolds(call[u], rows, published, history)
    BY CallFacts
  <2>2. Fresh(call[u]) => published'[call[u].attempt] = published[call[u].attempt]
    <3> SUFFICES ASSUME Fresh(call[u]), published'[call[u].attempt] # published[call[u].attempt]
                 PROVE  FALSE
      OBVIOUS
    <3>1. call[u].attempt \in Attempts
      BY <2>1 DEF CallHolds, Fresh
    <3>2. ~c.dry /\ call[u].attempt = c.attempt
      BY <1>8, <3>1
    <3> QED BY <1>1, <1>12, <3>2 DEF IInv, Alone, Fresh
  <2>3. Succeeded(call[u]) /\ published[call[u].attempt] = 1 => published'[call[u].attempt] = 1
    BY <1>8, <2>1 DEF CallHolds, Succeeded
  <2> QED BY <1>3, <2>1, <2>2, <2>3 DEF CallHolds
<1>13. Calls'
  BY <1>7, <1>11, <1>12 DEF Calls
<1>14. Alone'
  BY <1>7, <1>11 DEF IInv, Alone
<1>15. Once'
  <2>1. ~c.dry => rows[c.attempt] # None
    BY <1>1 DEF CallHolds, Opened
  <2> QED BY <1>1, <1>3, <1>8, <2>1 DEF IInv, TypeOK, Once
<1>16. Honest'
  <2> SUFFICES ASSUME NoDryMock
               PROVE  /\ ExecutedIsPublished'
                      /\ \A u \in Services, a \in Attempts :
                            cache'[u][a] = "success" => published'[a] = 1
    BY DEF Honest
  <2>1. ExecutedIsPublished'
    BY <1>3, <1>8 DEF IInv, Honest, ExecutedIsPublished
  <2>2. ASSUME NEW u \in Services, NEW a \in Attempts, cache'[u][a] = "success"
        PROVE  published'[a] = 1
    <3>1. CASE ~c.live /\ u = s /\ a = c.attempt
      <4>1. answer = "success"
        BY <1>1, <1>2, <2>2, <3>1 DEF IInv, TypeOK
      <4> QED BY <1>9, <1>10, <3>1, <4>1
    <3>2. CASE ~(~c.live /\ u = s /\ a = c.attempt)
      <4>1. cache[u][a] = "success"
        BY <1>1, <1>2, <2>2, <3>2 DEF IInv, TypeOK
      <4>2. published[a] = 1
        BY <4>1 DEF IInv, Honest
      <4> QED BY <1>8, <4>2
    <3> QED BY <3>1, <3>2
  <2> QED BY <2>1, <2>2
<1>17. ActiveIsPublished'
  BY <1>3, <1>8 DEF IInv, ActiveIsPublished
<1>18. TypeOK'
  BY <1>1, <1>2, <1>3, <1>4, <1>7, <1>8 DEF IInv, TypeOK
<1> QED BY <1>13, <1>14, <1>15, <1>16, <1>17, <1>18 DEF IInv

LEMMA CompleteStep ==
    ASSUME IInv, NEW s \in Services, Complete(s)
    PROVE  IInv'
<1> DEFINE c == call[s]
<1>1. /\ c \in Call /\ c.attempt \in Attempts /\ c.pc = "complete"
      /\ [live |-> c.live, dry |-> c.dry] \in Requests
      /\ CallHolds(c, rows, published, history)
  BY CallFacts DEF Complete, At
<1>2. UNCHANGED <<rows, published, listing, alerted, cache, calls>>
  BY DEF Complete, memory
<1>3. /\ session' \in [Services -> {"usable", "broken"}]
      /\ faults' \in 0 .. MaxFaults
      /\ history' \in [Attempts -> SUBSET Machine]
      /\ \A a \in Attempts : history[a] \subseteq history'[a]
      /\ \E d \in Call : /\ call' = [call EXCEPT ![s] = d]
                         /\ CallHolds(d, rows', published', history')
                         /\ ~Fresh(d)
  <2>1. CASE c.outcome = "success"
    <3> DEFINE next == IF c.live THEN "sync" ELSE "finish"
    <3> DEFINE m == Moved(c, "executed")
    <3>1. /\ \E q \in {next, "idle", "caught"} :
                /\ call' = [call EXCEPT ![s] = After(m, q)]
                /\ \/ q \in {"idle", "caught"}
                   \/ c.live /\ ~c.dry => "executed" \in history'[c.attempt]
          /\ session' \in [Services -> {"usable", "broken"}]
          /\ faults' \in 0 .. MaxFaults
          /\ history' \in [Attempts -> SUBSET Machine]
          /\ \A a \in Attempts : history[a] \subseteq history'[a]
      BY <1>1, <2>1, MovesIs DEF Complete, IInv, PC, Machine
    <3>2. PICK q \in {next, "idle", "caught"} :
             /\ call' = [call EXCEPT ![s] = After(m, q)]
             /\ \/ q \in {"idle", "caught"}
                \/ c.live /\ ~c.dry => "executed" \in history'[c.attempt]
      BY <3>1
    <3>3. /\ m \in Call /\ m.attempt = c.attempt /\ m.live = c.live /\ m.dry = c.dry
          /\ m.machine = "executed"
      BY <1>1, MovedType DEF Machine
    <3> HIDE DEF m
    <3>4. CASE q \notin {"idle", "caught"}
      <4>1. /\ After(m, q) \in Call /\ After(m, q).pc = q /\ q \in {"sync", "finish"}
            /\ After(m, q).attempt = c.attempt /\ After(m, q).machine = "executed"
            /\ After(m, q).live = c.live /\ After(m, q).dry = c.dry
        BY <3>2, <3>3, <3>4, AfterType DEF PC
      <4>2. CallHolds(After(m, q), rows', published', history') /\ ~Fresh(After(m, q))
        BY <1>1, <1>2, <2>1, <3>2, <3>4, <4>1 DEF CallHolds, Opened, Fresh, Succeeded
      <4> QED BY <3>1, <3>2, <4>1, <4>2
    <3>5. CASE q \in {"idle", "caught"}
      BY <1>1, <3>1, <3>2, <3>3, <3>5, QuietHolds DEF Quiet
    <3> QED BY <3>4, <3>5
  <2>2. CASE c.outcome # "success"
    <3> DEFINE m == Moved(c, "failed")
    <3>1. /\ \E q \in {"fail", "idle", "caught"} : call' = [call EXCEPT ![s] = After(m, q)]
          /\ session' \in [Services -> {"usable", "broken"}]
          /\ faults' \in 0 .. MaxFaults
          /\ history' \in [Attempts -> SUBSET Machine]
          /\ \A a \in Attempts : history[a] \subseteq history'[a]
      BY <1>1, <2>2, MovesIs DEF Complete, IInv, PC, Machine
    <3>2. PICK q \in {"fail", "idle", "caught"} : call' = [call EXCEPT ![s] = After(m, q)]
      BY <3>1
    <3>3. m \in Call /\ m.attempt = c.attempt /\ m.live = c.live /\ m.dry = c.dry
      BY <1>1, MovedType DEF Machine
    <3> HIDE DEF m
    <3> QED BY <1>1, <3>1, <3>2, <3>3, QuietHolds DEF Quiet
  <2> QED BY <2>1, <2>2
<1>4. call' \in [Services -> Call] /\ Calls' /\ Alone' /\ Once'
  BY <1>2, <1>3, OneCall
<1>5. TypeOK'
  BY <1>2, <1>3, <1>4 DEF IInv, TypeOK
<1>6. Honest' /\ ActiveIsPublished'
  BY <1>2 DEF IInv, Honest, ExecutedIsPublished, ActiveIsPublished
<1> QED BY <1>4, <1>5, <1>6 DEF IInv

(* What a call does to a listing's state in memory.                        *)
LEMMA ListedType ==
    ASSUME TypeOK, NEW s \in Services, NEW c, NEW i \in Listings, NEW state \in ListingState
    PROVE  /\ Listed(s, c, i, state) \in [Listings -> ListingState]
           /\ \A l \in Listings :
                 \/ Listed(s, c, i, state)[l] = listing[s][l]
                 \/ c.live /\ ~c.dry /\ l = i /\ Listed(s, c, i, state)[l] = state
<1>1. listing[s] \in [Listings -> ListingState]
  BY DEF TypeOK
<1>2. CASE c.live /\ ~c.dry
  BY <1>1, <1>2 DEF Listed
<1>3. CASE ~(c.live /\ ~c.dry)
  BY <1>1, <1>3 DEF Listed
<1> QED BY <1>2, <1>3

LEMMA SyncStep ==
    ASSUME IInv, NEW s \in Services, Sync(s)
    PROVE  IInv'
<1> DEFINE c == call[s]
           synced == Listed(s, c, ListingOf[c.attempt], "active")
           undone == IF c.dry THEN synced ELSE [synced EXCEPT ![EbayIdOf[c.attempt]] = "rolled_back"]
<1>1. /\ c \in Call /\ c.attempt \in Attempts /\ c.pc = "sync"
      /\ [live |-> c.live, dry |-> c.dry] \in Requests
      /\ CallHolds(c, rows, published, history)
  BY CallFacts DEF Sync, At
<1>2. ListingOf[c.attempt] \in Listings /\ EbayIdOf[c.attempt] \in Listings
  BY <1>1, ListingExecutionAssumption
<1>3. UNCHANGED <<rows, history, published, alerted, cache, calls>>
  BY DEF Sync, database
<1>4. /\ synced \in [Listings -> ListingState]
      /\ \A l \in Listings :
            synced[l] = listing[s][l] \/ (c.live /\ ~c.dry /\ l = ListingOf[c.attempt])
  BY <1>2, ListedType DEF IInv, ListingState
<1> HIDE DEF synced
<1>5. /\ listing' \in [Services -> [Listings -> ListingState]]
      /\ \A u \in Services, l \in Listings :
            \/ listing'[u][l] = listing[u][l]
            \/ listing'[u][l] # "active"
            \/ (c.live /\ ~c.dry /\ l = ListingOf[c.attempt])
  <2>1. /\ undone \in [Listings -> ListingState]
        /\ \A l \in Listings : undone[l] = synced[l] \/ undone[l] # "active"
    <3>1. CASE c.dry
      BY <1>4, <3>1
    <3>2. CASE ~c.dry
      <4>1. undone = [synced EXCEPT ![EbayIdOf[c.attempt]] = "rolled_back"]
        BY <3>2
      <4> HIDE DEF undone
      <4> QED BY <1>2, <1>4, <4>1 DEF ListingState
    <3> QED BY <3>1, <3>2
  <2> HIDE DEF undone
  <2>2. listing' = [listing EXCEPT ![s] = synced] \/ listing' = [listing EXCEPT ![s] = undone]
    BY DEF Sync, synced, undone
  <2>3. PICK after \in {synced, undone} : listing' = [listing EXCEPT ![s] = after]
    BY <2>2
  <2>4. /\ after \in [Listings -> ListingState]
        /\ \A l \in Listings : \/ after[l] = listing[s][l]
                              \/ after[l] # "active"
                              \/ (c.live /\ ~c.dry /\ l = ListingOf[c.attempt])
    <3>1. CASE after = synced
      BY <1>4, <3>1
    <3>2. CASE after = undone
      <4>1. undone \in [Listings -> ListingState]
        BY <2>1
      <4>2. ASSUME NEW l \in Listings
            PROVE  \/ undone[l] = listing[s][l]
                   \/ undone[l] # "active"
                   \/ (c.live /\ ~c.dry /\ l = ListingOf[c.attempt])
        <5>1. undone[l] = synced[l] \/ undone[l] # "active"
          BY <2>1
        <5>2. synced[l] = listing[s][l] \/ (c.live /\ ~c.dry /\ l = ListingOf[c.attempt])
          BY <1>4
        <5> QED BY <5>1, <5>2
      <4> QED BY <3>2, <4>1, <4>2
    <3> QED BY <3>1, <3>2
  <2>5. /\ listing \in [Services -> [Listings -> ListingState]]
        /\ listing' \in [Services -> [Listings -> ListingState]]
        /\ listing'[s] = after
        /\ \A u \in Services : u # s => listing'[u] = listing[u]
    BY <2>3, <2>4 DEF IInv, TypeOK
  <2> QED BY <2>4, <2>5
<1>6. c.live /\ ~c.dry => published[c.attempt] = 1
  BY <1>1 DEF CallHolds, Succeeded
<1>7. /\ session' \in [Services -> {"usable", "broken"}]
      /\ faults' \in 0 .. MaxFaults
      /\ \E d \in Call : /\ call' = [call EXCEPT ![s] = d]
                         /\ CallHolds(d, rows', published', history')
                         /\ ~Fresh(d)
  <2>1. CASE Commits(s) /\ Goes(s, c, "finish")
    <3>1. /\ After(c, "finish") \in Call /\ After(c, "finish").pc = "finish"
          /\ After(c, "finish").attempt = c.attempt /\ After(c, "finish").machine = c.machine
          /\ After(c, "finish").live = c.live /\ After(c, "finish").dry = c.dry
      BY <1>1, AfterType DEF PC
    <3>2. CallHolds(After(c, "finish"), rows', published', history') /\ ~Fresh(After(c, "finish"))
      BY <1>1, <1>3, <3>1 DEF CallHolds, Opened, Fresh, Succeeded
    <3> QED BY <2>1, <3>1, <3>2, GoesIs DEF IInv, TypeOK, Commits
  <2>2. ASSUME NEW failure \in Failure,
               Raises(s), Goes(s, [c EXCEPT !.outcome = failure], "fail")
        PROVE  /\ session' \in [Services -> {"usable", "broken"}]
               /\ faults' \in 0 .. MaxFaults
               /\ \E d \in Call : /\ call' = [call EXCEPT ![s] = d]
                                  /\ CallHolds(d, rows', published', history')
                                  /\ ~Fresh(d)
    <3> DEFINE g == [c EXCEPT !.outcome = failure]
    <3>0. g \in Call /\ g.attempt = c.attempt /\ g.live = c.live /\ g.dry = c.dry
      BY <1>1 DEF Call, Outcome
    <3>1. session' \in [Services -> {"usable", "broken"}] /\ faults' \in 0 .. MaxFaults
      BY <2>2, RaisesType DEF IInv
    <3> HIDE DEF g
    <3>2. /\ After(g, "fail") \in Call
          /\ CallHolds(After(g, "fail"), rows', published', history')
          /\ ~Fresh(After(g, "fail"))
      BY <1>1, <3>0, QuietHolds DEF Quiet
    <3>3. call' = [call EXCEPT ![s] = After(g, "fail")]
      BY <2>2, GoesIs DEF g
    <3> QED BY <3>1, <3>2, <3>3
  <2> QED BY <2>1, <2>2 DEF Sync
<1>8. call' \in [Services -> Call] /\ Calls' /\ Alone' /\ Once'
  BY <1>3, <1>7, OneCall
<1>9. TypeOK'
  BY <1>3, <1>5, <1>7, <1>8 DEF IInv, TypeOK
<1>10. Honest'
  BY <1>3 DEF IInv, Honest, ExecutedIsPublished
<1>11. ActiveIsPublished'
  <2> SUFFICES ASSUME NEW u \in Services, NEW l \in Listings, listing'[u][l] = "active"
               PROVE  \E a \in Attempts : ListingOf[a] = l /\ published'[a] > 0
    BY DEF ActiveIsPublished
  <2>1. CASE listing'[u][l] = listing[u][l]
    BY <1>3, <2>1 DEF IInv, ActiveIsPublished
  <2>2. CASE c.live /\ ~c.dry /\ l = ListingOf[c.attempt]
    BY <1>1, <1>3, <1>6, <2>2
  <2> QED BY <1>5, <2>1, <2>2
<1> QED BY <1>8, <1>9, <1>10, <1>11 DEF IInv

(* The end of a call that writes a row: executed is only written of what   *)
(* eBay has listed.                                                        *)
LEMMA WriteRow ==
    ASSUME IInv, NEW s \in Services, NEW row, NEW pc \in {"idle", "alert"},
           call[s].pc # "idle",
           ~call[s].dry /\ rows[call[s].attempt] # None => row \in Row,
           row.status = "executed" => (NoDryMock /\ ~call[s].dry => published[call[s].attempt] = 1),
           Updates(s, call[s], row, pc),
           UNCHANGED <<history, published, listing, alerted, cache, calls>>
    PROVE  IInv'
<1> DEFINE c == call[s]
<1>1. c \in Call /\ c.attempt \in Attempts /\ [live |-> c.live, dry |-> c.dry] \in Requests
  BY CallFacts
<1>2. /\ \E q \in {pc, "idle", "caught"} : call' = [call EXCEPT ![s] = After(c, q)]
      /\ session' \in [Services -> {"usable", "broken"}]
      /\ faults' \in 0 .. MaxFaults
      /\ rows' \in [Attempts -> Row \cup {None}]
      /\ \A a \in Attempts :
            /\ rows'[a] = None <=> rows[a] = None
            /\ rows'[a] = rows[a] \/ (a = c.attempt /\ ~c.dry /\ rows'[a] = row)
  BY <1>1, UpdatesIs DEF IInv, PC
<1>3. PICK q \in {pc, "idle", "caught"} : call' = [call EXCEPT ![s] = After(c, q)]
  BY <1>2
<1>4. /\ After(c, q) \in Call
      /\ CallHolds(After(c, q), rows', published', history')
      /\ ~Fresh(After(c, q))
  BY <1>1, QuietHolds DEF Quiet
<1>5. call' \in [Services -> Call] /\ Calls' /\ Alone' /\ Once'
  BY <1>2, <1>3, <1>4, OneCall
<1>6. TypeOK'
  BY <1>2, <1>5 DEF IInv, TypeOK
<1>7. Honest'
  BY <1>2 DEF IInv, Honest, ExecutedIsPublished
<1>8. ActiveIsPublished'
  BY DEF IInv, ActiveIsPublished
<1> QED BY <1>5, <1>6, <1>7, <1>8 DEF IInv

LEMMA FinishStep ==
    ASSUME IInv, NEW s \in Services, Finish(s)
    PROVE  IInv'
<1> DEFINE c == call[s]
<1>1. /\ c \in Call /\ c.attempt \in Attempts /\ c.pc = "finish"
      /\ [live |-> c.live, dry |-> c.dry] \in Requests
      /\ CallHolds(c, rows, published, history)
  BY CallFacts DEF Finish, At
<1>2. UNCHANGED <<history, published, listing, alerted, cache, calls>>
  BY DEF Finish, memory
<1>3. CASE c.dry
  <2>1. /\ After(c, "idle") \in Call
        /\ CallHolds(After(c, "idle"), rows', published', history')
        /\ ~Fresh(After(c, "idle"))
    BY <1>1, QuietHolds DEF Quiet
  <2>2. call' = [call EXCEPT ![s] = After(c, "idle")] /\ UNCHANGED <<rows, session, faults>>
    BY <1>3, GoesIs DEF Finish, Updates
  <2>3. call' \in [Services -> Call] /\ Calls' /\ Alone' /\ Once'
    BY <1>2, <2>1, <2>2, OneCall
  <2>4. TypeOK' /\ Honest' /\ ActiveIsPublished'
    BY <1>2, <2>2, <2>3
       DEF IInv, TypeOK, Honest, ExecutedIsPublished, ActiveIsPublished
  <2> QED BY <2>3, <2>4 DEF IInv
<1>4. CASE ~c.dry
  <2> DEFINE row == [rows[c.attempt] EXCEPT !.status = "executed"]
  <2>1. Updates(s, c, row, "idle")
    BY <1>4 DEF Finish
  <2>2. rows[c.attempt] \in Row
    BY <1>1, <1>4 DEF CallHolds, Opened, IInv, TypeOK
  <2>3. row \in Row
    BY <2>2 DEF Row, Machine
  <2>4. NoDryMock => published[c.attempt] = 1
    BY <1>1, <1>4 DEF CallHolds, Succeeded
  <2> QED BY <1>1, <1>2, <1>4, <2>1, <2>3, <2>4, WriteRow
<1> QED BY <1>3, <1>4

LEMMA RecordStep ==
    ASSUME IInv, NEW s \in Services, Record(s)
    PROVE  IInv'
<1> DEFINE c == call[s]
<1> DEFINE row == [status |-> IF Decision(c) = "CANCEL" THEN "failed" ELSE c.machine,
                   code |-> Decision(c)]
<1>1. c.pc = "record" /\ c.machine = "rolled_back"
  BY CallFacts DEF Record, At, CallHolds
<1>2. Decision(c) \in Action
  BY DEF Decision, Action
<1>3. row \in Row /\ row.status # "executed"
  BY <1>1, <1>2 DEF Row, Machine
<1>4. Updates(s, c, row, IF c.live THEN "alert" ELSE "idle")
  BY DEF Record
<1>5. UNCHANGED <<history, published, listing, alerted, cache, calls>>
  BY DEF Record, memory
<1> QED BY <1>1, <1>3, <1>4, <1>5, WriteRow

(* A step of the failure handling, after which the call is at q.           *)
LEMMA HandlerStep ==
    ASSUME IInv, NEW s \in Services, NEW d \in Call,
           call' = [call EXCEPT ![s] = d], CallHolds(d, rows', published', history'), ~Fresh(d),
           session' \in [Services -> {"usable", "broken"}], faults' \in 0 .. MaxFaults,
           history' \in [Attempts -> SUBSET Machine],
           \A a \in Attempts : history[a] \subseteq history'[a],
           listing' \in [Services -> [Listings -> ListingState]],
           \A u \in Services, l \in Listings :
              listing'[u][l] = listing[u][l] \/ listing'[u][l] # "active",
           alerted' \in [Services -> SUBSET Attempts],
           UNCHANGED <<rows, published, cache, calls>>
    PROVE  IInv'
<1>1. call' \in [Services -> Call] /\ Calls' /\ Alone' /\ Once'
  BY OneCall
<1>2. TypeOK'
  BY <1>1 DEF IInv, TypeOK
<1>3. Honest'
  BY DEF IInv, Honest, ExecutedIsPublished
<1>4. ActiveIsPublished'
  <2> SUFFICES ASSUME NEW u \in Services, NEW l \in Listings, listing'[u][l] = "active"
               PROVE  \E a \in Attempts : ListingOf[a] = l /\ published'[a] > 0
    BY DEF ActiveIsPublished
  <2>1. listing[u][l] = "active"
    OBVIOUS
  <2> QED BY <2>1 DEF IInv, ActiveIsPublished
<1> QED BY <1>1, <1>2, <1>3, <1>4 DEF IInv

LEMMA ScheduleStep ==
    ASSUME IInv, NEW s \in Services, Schedule(s)
    PROVE  IInv'
<1> DEFINE c == call[s]
<1>1. /\ c \in Call /\ c.attempt \in Attempts /\ c.pc = "schedule"
      /\ [live |-> c.live, dry |-> c.dry] \in Requests
      /\ CallHolds(c, rows, published, history)
  BY CallFacts DEF Schedule, At
<1>2. UNCHANGED <<rows, history, published, listing, alerted, cache, calls>>
  BY DEF Schedule, database, memory
<1>3. CASE Commits(s) /\ Goes(s, c, "record")
  <2>1. /\ After(c, "record") \in Call /\ After(c, "record").pc = "record"
        /\ After(c, "record").attempt = c.attempt /\ After(c, "record").machine = c.machine
        /\ After(c, "record").live = c.live /\ After(c, "record").dry = c.dry
    BY <1>1, AfterType DEF PC
  <2>2. CallHolds(After(c, "record"), rows', published', history') /\ ~Fresh(After(c, "record"))
    BY <1>1, <1>2, <2>1 DEF CallHolds, Opened, Fresh, Succeeded
  <2>3. call' = [call EXCEPT ![s] = After(c, "record")]
    BY <1>3, GoesIs
  <2> QED BY <1>2, <1>3, <2>1, <2>2, <2>3, HandlerStep DEF IInv, TypeOK, Commits
<1>4. CASE Raises(s) /\ Raised(s, c)
  <2>1. PICK q \in {"idle", "caught"} : call' = [call EXCEPT ![s] = After(c, q)]
    BY <1>4, RaisedIs
  <2>2. /\ After(c, q) \in Call
        /\ CallHolds(After(c, q), rows', published', history')
        /\ ~Fresh(After(c, q))
    BY <1>1, QuietHolds DEF Quiet
  <2>3. session' \in [Services -> {"usable", "broken"}] /\ faults' \in 0 .. MaxFaults
    BY <1>4, RaisesType DEF IInv
  <2> QED BY <1>2, <2>1, <2>2, <2>3, HandlerStep DEF IInv, TypeOK
<1> QED BY <1>3, <1>4 DEF Schedule

LEMMA CaughtStep ==
    ASSUME IInv, NEW s \in Services, Caught(s)
    PROVE  IInv'
<1> PICK failure \in Failure :
       LET g == [call[s] EXCEPT !.outcome = failure, !.handling = TRUE]
       IN  \/ Moves(s, g, "failed", "fail")
           \/ Goes(s, g, "fail") /\ UNCHANGED <<history, session, faults>>
  BY DEF Caught
<1> DEFINE c == [call[s] EXCEPT !.outcome = failure, !.handling = TRUE]
<1>1. /\ c \in Call /\ c.attempt \in Attempts
      /\ [live |-> c.live, dry |-> c.dry] \in Requests
  BY CallFacts DEF Caught, At, Call, Outcome
<1>2. UNCHANGED <<rows, published, listing, alerted, cache, calls>>
  BY DEF Caught, memory
<1>3. CASE Moves(s, c, "failed", "fail")
  <2> DEFINE m == Moved(c, "failed")
  <2> HIDE DEF c
  <2>1. /\ \E q \in {"fail", "idle", "caught"} : call' = [call EXCEPT ![s] = After(m, q)]
        /\ session' \in [Services -> {"usable", "broken"}]
        /\ faults' \in 0 .. MaxFaults
        /\ history' \in [Attempts -> SUBSET Machine]
        /\ \A a \in Attempts : history[a] \subseteq history'[a]
    BY <1>1, <1>3, MovesIs DEF IInv, PC, Machine
  <2>2. PICK q \in {"fail", "idle", "caught"} : call' = [call EXCEPT ![s] = After(m, q)]
    BY <2>1
  <2>3. /\ After(m, q) \in Call
        /\ CallHolds(After(m, q), rows', published', history')
        /\ ~Fresh(After(m, q))
    BY <1>1, MovedType, QuietHolds DEF Quiet, Machine
  <2> QED BY <1>2, <2>1, <2>2, <2>3, HandlerStep DEF IInv, TypeOK
<1>4. CASE Goes(s, c, "fail") /\ UNCHANGED <<history, session, faults>>
  <2> HIDE DEF c
  <2>1. /\ After(c, "fail") \in Call
        /\ CallHolds(After(c, "fail"), rows', published', history')
        /\ ~Fresh(After(c, "fail"))
    BY <1>1, QuietHolds DEF Quiet
  <2>2. call' = [call EXCEPT ![s] = After(c, "fail")]
    BY <1>4, GoesIs
  <2> QED BY <1>2, <1>4, <2>1, <2>2, HandlerStep DEF IInv, TypeOK
<1> QED BY <1>3, <1>4

LEMMA FailStep ==
    ASSUME IInv, NEW s \in Services, Fail(s)
    PROVE  IInv'
<1> DEFINE c == call[s]
<1>1. c \in Call /\ c.attempt \in Attempts /\ [live |-> c.live, dry |-> c.dry] \in Requests
  BY CallFacts DEF Fail, At
<1>2. UNCHANGED <<rows, published, alerted, cache, calls>>
  BY DEF Fail
<1>3. /\ listing' \in [Services -> [Listings -> ListingState]]
      /\ \A u \in Services, l \in Listings :
            listing'[u][l] = listing[u][l] \/ listing'[u][l] # "active"
  <2> DEFINE failed == Listed(s, c, FailedListing(c), "pending_retry")
  <2>1. FailedListing(c) \in Listings
    BY <1>1, ListingExecutionAssumption DEF FailedListing
  <2>2. /\ failed \in [Listings -> ListingState]
        /\ \A l \in Listings : failed[l] = listing[s][l] \/ failed[l] # "active"
    BY <2>1, ListedType DEF IInv, ListingState
  <2>3. listing' = [listing EXCEPT ![s] = failed]
    BY DEF Fail
  <2> HIDE DEF failed
  <2> QED BY <2>2, <2>3 DEF IInv, TypeOK
<1>4. CASE Moves(s, c, "rolled_back", "schedule")
  <2> DEFINE m == Moved(c, "rolled_back")
  <2>1. /\ \E q \in {"schedule", "idle", "caught"} :
              /\ call' = [call EXCEPT ![s] = After(m, q)]
              /\ \/ q \in {"idle", "caught"}
                 \/ c.live /\ ~c.dry => "rolled_back" \in history'[c.attempt]
        /\ session' \in [Services -> {"usable", "broken"}]
        /\ faults' \in 0 .. MaxFaults
        /\ history' \in [Attempts -> SUBSET Machine]
        /\ \A a \in Attempts : history[a] \subseteq history'[a]
    BY <1>1, <1>4, MovesIs DEF IInv, PC, Machine
  <2>2. PICK q \in {"schedule", "idle", "caught"} :
           /\ call' = [call EXCEPT ![s] = After(m, q)]
           /\ \/ q \in {"idle", "caught"}
              \/ c.live /\ ~c.dry => "rolled_back" \in history'[c.attempt]
    BY <2>1
  <2>3. /\ m \in Call /\ m.attempt = c.attempt /\ m.live = c.live /\ m.dry = c.dry
        /\ m.machine = "rolled_back"
    BY <1>1, MovedType DEF Machine
  <2> HIDE DEF m
  <2>4. /\ After(m, q) \in Call
        /\ CallHolds(After(m, q), rows', published', history')
        /\ ~Fresh(After(m, q))
    <3>1. CASE q \in {"idle", "caught"}
      BY <1>1, <2>3, <3>1, QuietHolds DEF Quiet
    <3>2. CASE q = "schedule" /\ q \notin {"idle", "caught"}
      BY <1>1, <2>2, <2>3, <3>2, AfterType DEF PC, CallHolds, Opened, Fresh, Succeeded
    <3> QED BY <2>2, <3>1, <3>2
  <2> QED BY <1>2, <1>3, <2>1, <2>2, <2>4, HandlerStep DEF IInv, TypeOK
<1>5. CASE Raised(s, c) /\ UNCHANGED <<history, session, faults>>
  <2>1. PICK q \in {"idle", "caught"} : call' = [call EXCEPT ![s] = After(c, q)]
    BY <1>5, RaisedIs
  <2>2. /\ After(c, q) \in Call
        /\ CallHolds(After(c, q), rows', published', history')
        /\ ~Fresh(After(c, q))
    BY <1>1, QuietHolds DEF Quiet
  <2> QED BY <1>2, <1>3, <1>5, <2>1, <2>2, HandlerStep DEF IInv, TypeOK
<1> QED BY <1>4, <1>5 DEF Fail

LEMMA AlertStep ==
    ASSUME IInv, NEW s \in Services, Alert(s)
    PROVE  IInv'
<1> DEFINE c == call[s]
<1>1. c \in Call /\ c.attempt \in Attempts /\ [live |-> c.live, dry |-> c.dry] \in Requests
  BY CallFacts DEF Alert, At
<1>2. UNCHANGED <<rows, history, published, listing, cache, calls>>
  BY DEF Alert, database
<1>3. alerted' \in [Services -> SUBSET Attempts]
  BY <1>1 DEF Alert, IInv, TypeOK
<1>4. /\ session' \in [Services -> {"usable", "broken"}]
      /\ faults' \in 0 .. MaxFaults
      /\ \E q \in {"idle", "caught"} : call' = [call EXCEPT ![s] = After(c, q)]
  <2>1. CASE c.attempt \in alerted[s]
    <3>1. call' = [call EXCEPT ![s] = After(c, "idle")] /\ UNCHANGED <<session, faults>>
      BY <2>1, GoesIs DEF Alert
    <3> QED BY <3>1 DEF IInv, TypeOK
  <2>2. CASE c.attempt \notin alerted[s]
    <3>1. Notes(s, c, "idle")
      BY <2>2 DEF Alert
    <3>2. /\ session' \in [Services -> {"usable", "broken"}]
          /\ faults' \in 0 .. MaxFaults
          /\ \E q \in {"idle", "idle", "caught"} : call' = [call EXCEPT ![s] = After(c, q)]
      BY <3>1, NotesIs DEF IInv, PC
    <3> QED BY <3>2
  <2> QED BY <2>1, <2>2
<1>5. PICK q \in {"idle", "caught"} : call' = [call EXCEPT ![s] = After(c, q)]
  BY <1>4
<1>6. /\ After(c, q) \in Call
      /\ CallHolds(After(c, q), rows', published', history')
      /\ ~Fresh(After(c, q))
  BY <1>1, QuietHolds DEF Quiet
<1> QED BY <1>2, <1>3, <1>4, <1>5, <1>6, HandlerStep DEF IInv, TypeOK

(* An operator's rollback changes the status of a row that exists.         *)
LEMMA RollbackStep ==
    ASSUME IInv, NEW s \in Services, NEW a \in Attempts, Rollback(s, a)
    PROVE  IInv'
<1>1. UNCHANGED <<history, published, listing, alerted, cache, call>> /\ calls' \in 0 .. MaxCalls
  BY ListingExecutionAssumption DEF Rollback, memory, IInv, TypeOK
<1>2. session' \in [Services -> {"usable", "broken"}] /\ faults' \in 0 .. MaxFaults
  BY RaisesType DEF Rollback, Commits, IInv, TypeOK
<1>3. /\ rows' \in [Attempts -> Row \cup {None}]
      /\ \A b \in Attempts :
            /\ rows'[b] = None <=> rows[b] = None
            /\ rows'[b] = rows[b] \/ rows'[b].status # "executed"
  <2>1. CASE rows' = [rows EXCEPT ![a].status = "rolled_back"]
    <3>1. rows[a] \in Row
      BY DEF Rollback, IInv, TypeOK
    <3>2. /\ [rows[a] EXCEPT !.status = "rolled_back"] \in Row
          /\ [rows[a] EXCEPT !.status = "rolled_back"].status # "executed"
          /\ [rows[a] EXCEPT !.status = "rolled_back"] # None
          /\ rows[a] # None
      BY <3>1, NoneAssumption DEF Row, Machine
    <3> QED BY <2>1, <3>2 DEF IInv, TypeOK
  <2>2. CASE rows' = rows
    BY <2>2 DEF IInv, TypeOK
  <2> QED BY <2>1, <2>2 DEF Rollback
<1>4. TypeOK'
  BY <1>1, <1>2, <1>3 DEF IInv, TypeOK
<1>5. Calls'
  <2> SUFFICES ASSUME NEW u \in Services
               PROVE  CallHolds(call[u], rows', published, history)
    BY <1>1 DEF Calls
  <2> QED BY <1>3, CallFacts DEF CallHolds, Opened
<1>6. Alone' /\ Once'
  BY <1>1, <1>3 DEF IInv, Alone, Once
<1>7. Honest' /\ ActiveIsPublished'
  BY <1>1, <1>3 DEF IInv, Honest, ExecutedIsPublished, ActiveIsPublished
<1> QED BY <1>4, <1>5, <1>6, <1>7 DEF IInv

LEMMA RestartStep ==
    ASSUME IInv, NEW s \in Services, Restart(s)
    PROVE  IInv'
<1>1. CallHolds(Idle, rows', published', history') /\ ~Fresh(Idle)
  BY DEF Idle, CallHolds, Opened, Fresh, Succeeded
<1>2. UNCHANGED <<rows, history, published, calls>>
  BY DEF Restart, database
<1>3. call' \in [Services -> Call] /\ Calls' /\ Alone' /\ Once'
  BY <1>1, <1>2, IdleType, OneCall DEF Restart
<1>4. NoListings \in [Listings -> ListingState] /\ NoCache \in [Attempts -> Outcome \cup {None}]
  BY DEF NoListings, NoCache, ListingState
<1>5. TypeOK'
  BY <1>2, <1>3, <1>4, ListingExecutionAssumption DEF IInv, TypeOK, Restart
<1>6. Honest'
  <2>1. \A u \in Services, a \in Attempts :
           cache'[u][a] = "success" => cache[u][a] = "success"
    BY NoneAssumption DEF IInv, TypeOK, Restart, NoCache, Outcome
  <2> QED BY <1>2, <2>1 DEF IInv, Honest, ExecutedIsPublished
<1>7. ActiveIsPublished'
  <2>1. \A u \in Services, l \in Listings :
           listing'[u][l] = "active" => listing[u][l] = "active"
    BY DEF IInv, TypeOK, Restart, NoListings
  <2> QED BY <1>2, <2>1 DEF IInv, ActiveIsPublished
<1> QED BY <1>3, <1>5, <1>6, <1>7 DEF IInv

-----------------------------------------------------------------------------
LEMMA NextHolds == IInv /\ [Next]_vars => IInv'
<1> SUFFICES ASSUME IInv, [Next]_vars PROVE IInv'
  OBVIOUS
<1>1. ASSUME NEW s \in Services, Step(s) PROVE IInv'
  BY <1>1, ReadinessStep, InitiateStep, CreateStep, GuardStep, ExecuteStep, CompleteStep,
     SyncStep, FinishStep, CaughtStep, FailStep, ScheduleStep, RecordStep, AlertStep DEF Step
<1>2. CASE Next
  BY <1>1, <1>2, BeginStep, RollbackStep, RestartStep DEF Next
<1>3. CASE UNCHANGED vars
  <2>1. UNCHANGED <<rows, history, published, session, listing, alerted, cache, call, calls,
                    faults>>
    BY <1>3 DEF vars
  <2>2. TypeOK' /\ Calls'
    BY <2>1 DEF IInv, TypeOK, Calls
  <2>3. Alone' /\ Once' /\ Honest' /\ ActiveIsPublished'
    BY <2>1 DEF IInv, Alone, Once, Honest, ExecutedIsPublished, ActiveIsPublished
  <2> QED BY <2>2, <2>3 DEF IInv
<1> QED BY <1>2, <1>3

LEMMA Invariant == Spec => []IInv
BY InitHolds, NextHolds, PTL DEF Spec

(***************************************************************************)
(* Rows, calls and the rest keep their types.                              *)
(***************************************************************************)
THEOREM TypeCorrect == Spec => []TypeOK
<1>1. IInv => TypeOK
  BY DEF IInv
<1> QED BY <1>1, Invariant, PTL

(***************************************************************************)
(* An attempt_id is listed at most once, whatever calls are made with it,  *)
(* dry runs included, by any number of services.                           *)
(***************************************************************************)
THEOREM ListedOnce == Spec => []PublishedOnce
<1>1. IInv => PublishedOnce
  BY DEF IInv, Once, PublishedOnce
<1> QED BY <1>1, Invariant, PTL

(***************************************************************************)
(* A listing that a service believes active is on eBay.                    *)
(***************************************************************************)
THEOREM ActiveIsListed == Spec => []ActiveIsPublished
<1>1. IInv => ActiveIsPublished
  BY DEF IInv
<1> QED BY <1>1, Invariant, PTL

(***************************************************************************)
(* If nobody makes a dry run through the mock entry point, an executed row *)
(* is one of an attempt that eBay has listed.                              *)
(***************************************************************************)
THEOREM ExecutedIsListed ==
    ASSUME NoDryMock
    PROVE  Spec => []ExecutedIsPublished
<1>1. IInv => ExecutedIsPublished
  BY DEF IInv, Honest
<1> QED BY <1>1, Invariant, PTL

(* The steps that write a row, and whose call they change.                 *)
LEMMA RowWriters ==
    ASSUME [Next]_vars, rows' # rows
    PROVE  \E u \in Services : \/ Create(u) \/ Finish(u) \/ Record(u)
                              \/ \E a \in Attempts : Rollback(u, a)
<1>1. PICK u \in Services :
         \/ \E a \in Attempts, q \in Requests, n \in Numbers : Begin(u, a, q, n)
         \/ Step(u)
         \/ \E a \in Attempts : Rollback(u, a)
         \/ Restart(u)
  BY DEF Next, vars
<1>2. ~\E a \in Attempts, q \in Requests, n \in Numbers : Begin(u, a, q, n)
  BY DEF Begin
<1>3. ~Readiness(u) /\ ~Initiate(u) /\ ~Guard(u) /\ ~Execute(u) /\ ~Complete(u)
  BY DEF Readiness, Initiate, Guard, Execute, Complete, database
<1>4. ~Sync(u) /\ ~Caught(u) /\ ~Fail(u) /\ ~Schedule(u) /\ ~Alert(u) /\ ~Restart(u)
  BY DEF Sync, Caught, Fail, Schedule, Alert, Restart, database
<1> QED BY <1>1, <1>2, <1>3, <1>4 DEF Step

LEMMA OnlyCaller ==
    ASSUME TypeOK, NEW s \in Services, NEW u \in Services, call'[s] # call[s],
           Create(u) \/ Finish(u) \/ Record(u)
    PROVE  u = s
<1>1. \E d : call' = [call EXCEPT ![u] = d]
  BY GoesIs DEF Create, Finish, Record, Updates, Raised
<1> QED BY <1>1 DEF TypeOK

(***************************************************************************)
(* A live call closes its row only after the history has the machine's     *)
(* last change of state.                                                   *)
(***************************************************************************)
THEOREM AuditIsAhead == Spec => AuditedFirst
<1>1. IInv /\ [Next]_vars =>
        [\A s \in Services :
            LET c == call[s] IN
            c.live /\ c.pc \in {"finish", "record"} /\ call'[s] # c
                /\ rows'[c.attempt] # rows[c.attempt]
            => c.machine \in history[c.attempt]]_vars
  <2> SUFFICES ASSUME IInv, [Next]_vars, NEW s \in Services,
                      call[s].live, call[s].pc \in {"finish", "record"}, call'[s] # call[s],
                      rows'[call[s].attempt] # rows[call[s].attempt]
               PROVE  call[s].machine \in history[call[s].attempt]
    OBVIOUS
  <2>1. CASE ~call[s].dry
    BY <2>1, CallFacts DEF CallHolds
  <2>2. CASE call[s].dry
    <3>1. PICK u \in Services : \/ Create(u) \/ Finish(u) \/ Record(u)
                                \/ \E a \in Attempts : Rollback(u, a)
      BY RowWriters
    <3>2. u = s
      BY <3>1, OnlyCaller DEF Rollback, IInv
    <3>3. Finish(s) \/ Record(s)
      BY <3>1, <3>2 DEF Create, Rollback, At
    <3> QED BY <2>2, <3>3 DEF Finish, Record, Updates
  <2> QED BY <2>1, <2>2
<1> QED BY <1>1, Invariant, PTL DEF Spec, AuditedFirst
-----------------------------------------------------------------------------
(***************************************************************************)
(* Without faults every row is settled by the call that inserted it: its   *)
(* owner, from the insert to its last write of the row.  A call that finds *)
(* the row of another breaks its session and never writes.                 *)
(***************************************************************************)
Owner(c) ==
    /\ ~c.dry /\ ~c.handling
    /\ c.pc \in {"guard", "execute", "complete", "sync", "finish", "fail", "schedule", "record"}

(* A real call in a service whose session is ses.                          *)
CallSound(c, ses) ==
    ~c.dry =>
        /\ c.live /\ c.pc \in {"initiate", "create"} => ses = "usable"
        /\ c.pc = "create" => c.machine = "executing"
        /\ Owner(c) \/ c.pc = "alert" => ses = "usable"
        /\ c.pc = "caught" => c.machine = "executing" /\ (c.live => ses = "broken")
        /\ c.handling => c.pc = "fail" /\ c.machine = "executing"

(* An owner's row has no error code yet, and what eBay answered is known.  *)
OwnerHolds(c, r, p) ==
    Owner(c) =>
        /\ r[c.attempt] # None /\ r[c.attempt].code = None
        /\ c.pc = "complete" /\ c.outcome # "success" => p[c.attempt] = 0
        /\ c.pc \in {"fail", "schedule", "record"} => p[c.attempt] = 0
        /\ c.pc = "fail" => c.machine = "failed"

Sole ==
    \A s, u \in Services :
        Owner(call[s]) /\ Owner(call[u]) /\ call[s].attempt = call[u].attempt => s = u

Final(row, p) == row.status # "executing" /\ (p = 1 <=> row.code = None)

Rest ==
    \A a \in Attempts :
        \/ rows[a] = None
        \/ Final(rows[a], published[a])
        \/ \E s \in Services : Owner(call[s]) /\ call[s].attempt = a

Settling ==
    /\ \A s \in Services : CallSound(call[s], session[s]) /\ OwnerHolds(call[s], rows, published)
    /\ Sole
    /\ Rest

SInv == IInv /\ (faults = 0 => Settling)

(* The assumptions of a step without faults.                               *)
Calm == NoDryMock /\ IInv /\ IInv' /\ Settling /\ faults = 0 /\ faults' = 0

OthersKept(s) == \A u \in Services : u # s => session'[u] = session[u]

LEMMA IdleSettles ==
    ASSUME NEW ses, NEW r, NEW p
    PROVE  CallSound(Idle, ses) /\ OwnerHolds(Idle, r, p) /\ ~Owner(Idle)
BY DEF Idle, CallSound, OwnerHolds, Owner

LEMMA DrySettles ==
    ASSUME NEW d, d.dry, NEW ses, NEW r, NEW p
    PROVE  CallSound(d, ses) /\ OwnerHolds(d, r, p) /\ ~Owner(d)
BY DEF CallSound, OwnerHolds, Owner

(* The call after Goes, with its except clause.                            *)
LEMMA AfterIs ==
    ASSUME NEW c \in Call, NEW pc \in PC \ {"idle"}
    PROVE  LET d == After(c, pc) IN
           /\ d.pc = pc /\ d.attempt = c.attempt /\ d.live = c.live /\ d.dry = c.dry
           /\ d.machine = c.machine /\ d.outcome = c.outcome /\ d.handling = c.handling
BY DEF After, Call, PC

LEMMA AfterIdle == ASSUME NEW c PROVE After(c, "idle") = Idle
BY DEF After

LEMMA MovedIs ==
    ASSUME NEW c \in Call, NEW to \in Machine
    PROVE  /\ Moved(c, to) \in Call
           /\ Moved(c, to).machine = to
           /\ Moved(c, to).attempt = c.attempt
           /\ Moved(c, to).live = c.live
           /\ Moved(c, to).dry = c.dry
           /\ Moved(c, to).outcome = c.outcome
           /\ Moved(c, to).handling = c.handling
BY DEF Moved, Call

(* Without faults only a broken session raises.                            *)
LEMMA OnlyBroken ==
    ASSUME NEW s \in Services, Raises(s), faults = 0, faults' = 0
    PROVE  session[s] = "broken" /\ session' = session
BY DEF Raises

LEMMA RaisedWhere ==
    ASSUME NEW s, NEW c, Raised(s, c)
    PROVE  call' = [call EXCEPT ![s] = After(c, IF c.handling THEN "idle" ELSE "caught")]
BY GoesIs DEF Raised

LEMMA NotesSure ==
    ASSUME NEW s \in Services, NEW c, NEW pc, Notes(s, c, pc),
           session[s] = "usable", faults = 0, faults' = 0
    PROVE  call' = [call EXCEPT ![s] = After(c, pc)] /\ session' = session
<1>1. "usable" # "broken"
  OBVIOUS
<1>2. ~Raises(s)
  BY <1>1, OnlyBroken
<1> QED BY <1>2, GoesIs DEF Notes

LEMMA MovesSure ==
    ASSUME NEW s \in Services, NEW c, NEW to, NEW pc, Moves(s, c, to, pc),
           c.live => session[s] = "usable", faults = 0, faults' = 0
    PROVE  call' = [call EXCEPT ![s] = After(Moved(c, to), pc)] /\ session' = session
<1>1. "usable" # "broken"
  OBVIOUS
<1>2. c.live => ~Raises(s)
  BY <1>1, OnlyBroken
<1>3. UNCHANGED session /\ Goes(s, Moved(c, to), pc)
  BY <1>2 DEF Moves, Moved
<1> QED BY <1>3, GoesIs

LEMMA UpdatesSure ==
    ASSUME NEW s \in Services, NEW c, NEW row, NEW pc, Updates(s, c, row, pc),
           session[s] = "usable", faults = 0, faults' = 0, ~c.dry, rows[c.attempt] # None
    PROVE  /\ call' = [call EXCEPT ![s] = After(c, pc)] /\ session' = session
           /\ rows' = [rows EXCEPT ![c.attempt] = row]
<1>1. "usable" # "broken"
  OBVIOUS
<1>2. ~Raises(s)
  BY <1>1, OnlyBroken
<1> QED BY <1>2, GoesIs DEF Updates, Commits

LEMMA CalmFacts ==
    ASSUME Calm, NEW s \in Services
    PROVE  /\ IInv /\ TypeOK /\ faults = 0 /\ faults' = 0
           /\ call[s] \in Call
           /\ CallHolds(call[s], rows, published, history)
           /\ CallSound(call[s], session[s])
           /\ OwnerHolds(call[s], rows, published)
           /\ call[s].pc # "idle" => call[s].attempt \in Attempts
BY CallFacts DEF Calm, IInv, Settling

-----------------------------------------------------------------------------
(* A step of the call of s: it owns its row before and after, or neither,  *)
(* or it has inserted the row, or it has written it for the last time.     *)
LEMMA StepSettles ==
    ASSUME Calm, NEW s \in Services, NEW d,
           call' = [call EXCEPT ![s] = d], OthersKept(s),
           CallSound(d, session'[s]), OwnerHolds(d, rows', published'),
           \A b \in Attempts : b # call[s].attempt =>
               rows'[b] = rows[b] /\ published'[b] = published[b],
           \/ UNCHANGED <<rows, published>> /\ ~Owner(call[s]) /\ ~Owner(d)
           \/ Owner(call[s]) /\ Owner(d) /\ d.attempt = call[s].attempt
           \/ /\ Owner(call[s]) /\ ~Owner(d)
              /\ Final(rows'[call[s].attempt], published'[call[s].attempt])
           \/ /\ ~Owner(call[s]) /\ Owner(d) /\ d.attempt = call[s].attempt
              /\ rows[call[s].attempt] = None
    PROVE  Settling'
<1> DEFINE a == call[s].attempt
<1>1. /\ call'[s] = d
      /\ \A u \in Services : u # s => call'[u] = call[u]
  BY DEF Calm, IInv, TypeOK
<1>2. \A u \in Services : /\ CallSound(call[u], session[u])
                          /\ OwnerHolds(call[u], rows, published)
                          /\ Owner(call[u]) => call[u].attempt \in Attempts
  BY CalmFacts DEF Owner
<1>3. ASSUME NEW u \in Services, u # s, Owner(call[u])
      PROVE  /\ rows'[call[u].attempt] = rows[call[u].attempt]
             /\ published'[call[u].attempt] = published[call[u].attempt]
  <2>1. CASE call[u].attempt # a
    BY <1>2, <1>3, <2>1
  <2>2. CASE call[u].attempt = a
    <3>1. ~Owner(call[s])
      BY <1>3, <2>2 DEF Calm, Settling, Sole
    <3>2. rows[a] # None
      BY <1>2, <1>3, <2>2 DEF OwnerHolds
    <3> QED BY <3>1, <3>2
  <2> QED BY <2>1, <2>2
<1>4. \A u \in Services : /\ CallSound(call'[u], session'[u])
                          /\ OwnerHolds(call'[u], rows', published')
  <2> SUFFICES ASSUME NEW u \in Services, u # s
               PROVE  /\ CallSound(call[u], session'[u])
                      /\ OwnerHolds(call[u], rows', published')
    BY <1>1
  <2>1. session'[u] = session[u]
    BY DEF OthersKept
  <2> QED BY <1>2, <1>3, <2>1 DEF OwnerHolds
<1>5. Sole'
  <2> SUFFICES ASSUME NEW u \in Services, NEW v \in Services, Owner(call'[u]), Owner(call'[v]),
                      call'[u].attempt = call'[v].attempt, u # v
               PROVE  FALSE
    BY DEF Sole, Owner
  <2>1. u = s \/ v = s
    BY <1>1 DEF Calm, Settling, Sole
  <2>2. PICK w \in {u, v} : w # s
    OBVIOUS
  <2>3. call'[w] = call[w] /\ Owner(call[w]) /\ Owner(d) /\ call[w].attempt = d.attempt
    BY <1>1, <2>1, <2>2
  <2>4. d.attempt = a
    BY <2>3
  <2>5. rows[a] # None
    BY <1>2, <2>2, <2>3, <2>4 DEF OwnerHolds
  <2>6. Owner(call[s])
    BY <2>3, <2>5
  <2> QED BY <2>2, <2>3, <2>4, <2>6 DEF Calm, Settling, Sole
<1>6. Rest'
  <2> SUFFICES ASSUME NEW b \in Attempts
               PROVE  \/ rows'[b] = None
                      \/ Final(rows'[b], published'[b])
                      \/ \E u \in Services : Owner(call'[u]) /\ call'[u].attempt = b
    BY DEF Rest, Final, Owner
  <2>1. \/ rows[b] = None
        \/ Final(rows[b], published[b])
        \/ \E u \in Services : Owner(call[u]) /\ call[u].attempt = b
    BY DEF Calm, Settling, Rest
  <2>2. CASE Owner(d) /\ d.attempt = a /\ b = a
    BY <1>1, <2>2
  <2>3. CASE Final(rows'[a], published'[a]) /\ b = a
    BY <2>3
  <2>4. CASE b # a \/ (~Owner(call[s]) /\ UNCHANGED <<rows, published>>)
    <3>1. rows'[b] = rows[b] /\ published'[b] = published[b]
      BY <2>4
    <3>2. ASSUME NEW u \in Services, Owner(call[u]), call[u].attempt = b
          PROVE  Owner(call'[u]) /\ call'[u].attempt = b
      BY <1>1, <2>4, <3>2
    <3> QED BY <2>1, <3>1, <3>2
  <2> QED BY <2>2, <2>3, <2>4
<1>7. Sole' /\ Rest' /\ (\A u \in Services : /\ CallSound(call[u], session[u])
                                            /\ OwnerHolds(call[u], rows, published))'
  BY <1>4, <1>5, <1>6 DEF CallSound, OwnerHolds, Owner
<1> QED BY <1>7 DEF Settling

(* A step of a call that owns no row and gets none.                        *)
LEMMA IdlesSettles ==
    ASSUME Calm, NEW s \in Services, NEW d,
           call' = [call EXCEPT ![s] = d], OthersKept(s),
           CallSound(d, session'[s]), ~Owner(call[s]), ~Owner(d),
           UNCHANGED <<rows, published>>
    PROVE  Settling'
<1>1. OwnerHolds(d, rows', published')
  BY DEF OwnerHolds
<1> QED BY <1>1, StepSettles

-----------------------------------------------------------------------------
(* Nobody else's session changes, and a dry run writes no row.             *)
LEMMA RaisesAlone ==
    ASSUME TypeOK, NEW s \in Services, Raises(s) PROVE OthersKept(s)
BY DEF TypeOK, Raises, OthersKept

LEMMA NotesAlone ==
    ASSUME TypeOK, NEW s \in Services, NEW c, NEW pc, Notes(s, c, pc) PROVE OthersKept(s)
BY RaisesAlone DEF Notes, OthersKept

LEMMA MovesAlone ==
    ASSUME TypeOK, NEW s \in Services, NEW c, NEW to, NEW pc, Moves(s, c, to, pc)
    PROVE  OthersKept(s)
BY RaisesAlone DEF Moves, OthersKept

LEMMA UpdatesAlone ==
    ASSUME TypeOK, NEW s \in Services, NEW c, NEW row, NEW pc, Updates(s, c, row, pc)
    PROVE  OthersKept(s)
BY RaisesAlone DEF Updates, Commits, OthersKept

LEMMA StepAlone ==
    ASSUME TypeOK, NEW s \in Services, Step(s) PROVE OthersKept(s)
<1>1. CASE Readiness(s)
  BY <1>1, RaisesAlone DEF Readiness, OthersKept
<1>2. CASE Initiate(s) \/ Complete(s)
  BY <1>2, MovesAlone DEF Initiate, Complete
<1>3. CASE Create(s)
  BY <1>3, RaisesAlone DEF Create, Commits, OthersKept, TypeOK
<1>4. CASE Guard(s)
  BY <1>4, NotesAlone DEF Guard
<1>5. CASE Execute(s)
  BY <1>5 DEF Execute, OthersKept
<1>6. CASE Sync(s)
  BY <1>6, RaisesAlone DEF Sync, Commits, OthersKept
<1>7. CASE Finish(s)
  BY <1>7, UpdatesAlone DEF Finish, OthersKept
<1>8. CASE Caught(s)
  BY <1>8, MovesAlone DEF Caught, OthersKept
<1>9. CASE Fail(s)
  BY <1>9, MovesAlone DEF Fail, OthersKept
<1>10. CASE Record(s)
  BY <1>10, UpdatesAlone DEF Record
<1>11. CASE Alert(s)
  BY <1>11, NotesAlone DEF Alert, OthersKept
<1>12. CASE Schedule(s)
  BY <1>12, RaisesAlone DEF Schedule, Commits, OthersKept
<1> QED BY <1>1, <1>2, <1>3, <1>4, <1>5, <1>6, <1>7, <1>8, <1>9, <1>10, <1>11, <1>12 DEF Step

(* What a dry call becomes.                                                *)
DryNext(s) == \E d : call' = [call EXCEPT ![s] = d] /\ (d.dry \/ d = Idle)

LEMMA DryGoes ==
    ASSUME NEW s, NEW c \in Call, c.dry, NEW pc, Goes(s, c, pc) PROVE DryNext(s)
<1>1. call' = [call EXCEPT ![s] = After(c, pc)]
  BY GoesIs
<1>2. After(c, pc).dry \/ After(c, pc) = Idle
  BY DEF After, Call
<1> QED BY <1>1, <1>2 DEF DryNext

LEMMA DryRaised ==
    ASSUME NEW s, NEW c \in Call, c.dry, Raised(s, c) PROVE DryNext(s)
BY DryGoes DEF Raised

LEMMA DryNotes ==
    ASSUME NEW s, NEW c \in Call, c.dry, NEW pc, Notes(s, c, pc) PROVE DryNext(s)
BY DryGoes, DryRaised DEF Notes

LEMMA DryMoves ==
    ASSUME NEW s, NEW c \in Call, c.dry, NEW to \in Machine, NEW pc, Moves(s, c, to, pc)
    PROVE  DryNext(s)
BY MovedIs, DryGoes, DryRaised DEF Moves, Moved

LEMMA DryStep ==
    ASSUME IInv, NEW s \in Services, call[s].dry, Step(s)
    PROVE  DryNext(s) /\ UNCHANGED <<rows, published>>
<1> DEFINE c == call[s]
<1>0. c \in Call /\ c.dry /\ "executing" \in Machine /\ "failed" \in Machine
      /\ "executed" \in Machine /\ "rolled_back" \in Machine
  BY DEF IInv, TypeOK, Machine
<1>1. CASE Readiness(s)
  BY <1>0, <1>1, DryGoes DEF Readiness, database
<1>2. CASE Initiate(s)
  BY <1>0, <1>2, DryMoves DEF Initiate
<1>3. CASE Complete(s)
  BY <1>0, <1>3, DryMoves DEF Complete
<1>4. CASE Create(s)
  BY <1>0, <1>4, DryGoes DEF Create
<1>5. CASE Guard(s)
  <2>1. [c EXCEPT !.outcome = "guard"] \in Call /\ [c EXCEPT !.outcome = "guard"].dry
    BY <1>0 DEF Call, Outcome
  <2> QED BY <1>0, <1>5, <2>1, DryNotes DEF Guard, database
<1>6. CASE Execute(s)
  <2>1. PICK answer \in Answers(s, c) : Goes(s, [c EXCEPT !.outcome = answer], "complete")
    BY <1>6 DEF Execute
  <2>2. published' = published /\ rows' = rows
    BY <1>0, <1>6 DEF Execute, database
  <2>3. After([c EXCEPT !.outcome = answer], "complete").dry
    BY <1>0 DEF After, Call
  <2> QED BY <2>1, <2>2, <2>3, GoesIs DEF DryNext
<1>7. CASE Sync(s)
  <2>1. \A failure \in Failure : /\ [c EXCEPT !.outcome = failure] \in Call
                                 /\ [c EXCEPT !.outcome = failure].dry
    BY <1>0 DEF Call, Outcome
  <2> QED BY <1>0, <1>7, <2>1, DryGoes DEF Sync, database
<1>8. CASE Finish(s)
  BY <1>0, <1>8, DryGoes DEF Finish, Updates
<1>9. CASE Caught(s)
  <2> PICK failure \in Failure :
         LET h == [c EXCEPT !.outcome = failure, !.handling = TRUE]
         IN  Moves(s, h, "failed", "fail") \/ Goes(s, h, "fail")
    BY <1>9 DEF Caught
  <2> DEFINE g == [c EXCEPT !.outcome = failure, !.handling = TRUE]
  <2>1. g \in Call /\ g.dry
    BY <1>0 DEF Call, Outcome
  <2>2. Moves(s, g, "failed", "fail") \/ Goes(s, g, "fail")
    OBVIOUS
  <2>3. UNCHANGED <<rows, published>>
    BY <1>9 DEF Caught
  <2> HIDE DEF g
  <2> QED BY <1>0, <2>1, <2>2, <2>3, DryGoes, DryMoves
<1>10. CASE Fail(s)
  BY <1>0, <1>10, DryMoves, DryRaised DEF Fail
<1>11. CASE Record(s)
  BY <1>0, <1>11, DryGoes, DryRaised DEF Record, Updates
<1>12. CASE Alert(s)
  BY <1>0, <1>12, DryGoes, DryNotes DEF Alert, database
<1>13. CASE Schedule(s)
  BY <1>0, <1>13, DryGoes, DryRaised DEF Schedule, database
<1> QED BY <1>1, <1>2, <1>3, <1>4, <1>5, <1>6, <1>7, <1>8, <1>9, <1>10, <1>11, <1>12, <1>13
        DEF Step

LEMMA DrySettled ==
    ASSUME Calm, NEW s \in Services, call[s].dry, Step(s) PROVE Settling'
<1>1. OthersKept(s) /\ ~Owner(call[s])
  BY CalmFacts, StepAlone DEF Owner
<1>2. UNCHANGED <<rows, published>> /\ DryNext(s)
  BY CalmFacts, DryStep
<1>3. PICK d : call' = [call EXCEPT ![s] = d] /\ (d.dry \/ d = Idle)
  BY <1>2 DEF DryNext
<1>4. CallSound(d, session'[s]) /\ ~Owner(d)
  BY <1>3, DrySettles, IdleSettles
<1> QED BY <1>1, <1>2, <1>3, <1>4, IdlesSettles

-----------------------------------------------------------------------------
(* The steps of a real call.                                               *)
LEMMA BeginSettles ==
    ASSUME Calm, NEW s \in Services, NEW a \in Attempts, NEW q \in Requests, NEW n \in Numbers,
           Begin(s, a, q, n)
    PROVE  Settling'
<1> DEFINE d == [Idle EXCEPT !.pc = "readiness", !.attempt = a, !.live = q.live,
                             !.dry = q.dry, !.number = n]
<1>1. d.pc = "readiness" /\ ~d.handling
  BY DEF Idle
<1>2. call' = [call EXCEPT ![s] = d] /\ UNCHANGED <<rows, published, session>> /\ call[s].pc = "idle"
  BY DEF Begin, At
<1> HIDE DEF d
<1>3. CallSound(d, session'[s]) /\ ~Owner(d) /\ ~Owner(call[s])
  BY <1>1, <1>2 DEF CallSound, Owner
<1>4. OthersKept(s)
  BY <1>2 DEF OthersKept
<1> QED BY <1>2, <1>3, <1>4, IdlesSettles

LEMMA ReadinessSettles ==
    ASSUME Calm, NEW s \in Services, ~call[s].dry, Readiness(s) PROVE Settling'
<1> DEFINE c == call[s]
<1>1. c \in Call /\ c.pc = "readiness" /\ ~c.handling /\ ~Owner(c)
  BY CalmFacts DEF Readiness, At, CallSound, Owner
<1>2. UNCHANGED <<rows, published>> /\ OthersKept(s)
  BY CalmFacts, StepAlone DEF Readiness, database, Step
<1>3. CASE Goes(s, c, "idle")
  <2>1. call' = [call EXCEPT ![s] = Idle]
    BY <1>3, GoesIs, AfterIdle
  <2> QED BY <1>1, <1>2, <2>1, IdleSettles, IdlesSettles
<1>4. CASE Goes(s, c, "initiate") /\ (c.live => session[s] = "usable") /\ session' = session
  <2> DEFINE d == After(c, "initiate")
  <2>1. call' = [call EXCEPT ![s] = d]
    BY <1>4, GoesIs
  <2>2. d.pc = "initiate" /\ d.live = c.live /\ d.handling = c.handling
    BY <1>1, AfterIs DEF PC
  <2> HIDE DEF d
  <2>3. CallSound(d, session'[s]) /\ ~Owner(d)
    BY <1>1, <1>4, <2>2 DEF CallSound, Owner
  <2> QED BY <1>1, <1>2, <2>1, <2>3, IdlesSettles
<1> QED BY <1>3, <1>4 DEF Readiness

LEMMA InitiateSettles ==
    ASSUME Calm, NEW s \in Services, ~call[s].dry, Initiate(s) PROVE Settling'
<1> DEFINE c == call[s]
           m == Moved(c, "executing")
           d == After(m, "create")
<1>1. /\ c \in Call /\ c.pc = "initiate" /\ ~c.handling /\ ~Owner(c)
      /\ c.live => session[s] = "usable"
  BY CalmFacts DEF Initiate, At, CallSound, Owner
<1>2. UNCHANGED <<rows, published>> /\ OthersKept(s)
  BY CalmFacts, StepAlone DEF Initiate, Step
<1>3. call' = [call EXCEPT ![s] = d] /\ session' = session
  BY <1>1, CalmFacts, MovesSure DEF Initiate
<1>4. m \in Call /\ m.live = c.live /\ m.handling = c.handling /\ m.machine = "executing"
  BY <1>1, MovedIs DEF Machine
<1> HIDE DEF m
<1>5. d.pc = "create" /\ d.live = c.live /\ d.handling = c.handling /\ d.machine = "executing"
  BY <1>4, AfterIs DEF PC
<1> HIDE DEF d
<1>6. CallSound(d, session'[s]) /\ ~Owner(d)
  BY <1>1, <1>3, <1>5 DEF CallSound, Owner
<1> QED BY <1>1, <1>2, <1>3, <1>6, IdlesSettles

(* The insert makes the call the owner of its row; a duplicate breaks the  *)
(* session.                                                                *)
LEMMA CreateSettles ==
    ASSUME Calm, NEW s \in Services, ~call[s].dry, Create(s) PROVE Settling'
<1> DEFINE c == call[s]
<1>1. /\ c \in Call /\ c.pc = "create" /\ ~c.handling /\ ~Owner(c) /\ c.attempt \in Attempts
      /\ c.live => session[s] = "usable"
      /\ c.machine = "executing"
  BY CalmFacts DEF Create, At, CallSound, Owner
<1>2. published' = published /\ OthersKept(s)
  BY CalmFacts, StepAlone DEF Create, Step
<1>3. CASE rows[c.attempt] = None /\ Commits(s) /\ Goes(s, c, "guard")
           /\ rows' = [rows EXCEPT ![c.attempt] = [status |-> "executing", code |-> None]]
  <2> DEFINE d == After(c, "guard")
  <2>1. call' = [call EXCEPT ![s] = d] /\ session' = session /\ session[s] = "usable"
    BY <1>3, GoesIs DEF Commits
  <2>2. d.pc = "guard" /\ d.dry = c.dry /\ d.handling = c.handling /\ d.attempt = c.attempt
    BY <1>1, AfterIs DEF PC
  <2> HIDE DEF d
  <2>3. /\ rows'[c.attempt] # None /\ rows'[c.attempt].code = None
        /\ \A b \in Attempts : b # c.attempt => rows'[b] = rows[b]
    <3>1. [status |-> "executing", code |-> None] \in Row
      BY DEF Row, Machine
    <3> QED BY <1>1, <1>3, <3>1, NoneAssumption, CalmFacts DEF TypeOK
  <2>4. CallSound(d, session'[s]) /\ Owner(d) /\ OwnerHolds(d, rows', published')
    BY <1>1, <2>1, <2>2, <2>3 DEF CallSound, Owner, OwnerHolds
  <2> QED BY <1>1, <1>2, <1>3, <2>1, <2>2, <2>3, <2>4, StepSettles
<1>4. CASE Raised(s, c) /\ rows' = rows /\ session'[s] = "broken"
  <2> DEFINE d == After(c, "caught")
  <2>1. call' = [call EXCEPT ![s] = d]
    BY <1>1, <1>4, RaisedWhere
  <2>2. d.pc = "caught" /\ d.handling = c.handling /\ d.machine = c.machine
    BY <1>1, AfterIs DEF PC
  <2> HIDE DEF d
  <2>3. CallSound(d, session'[s]) /\ ~Owner(d)
    BY <1>1, <1>4, <2>2 DEF CallSound, Owner
  <2> QED BY <1>1, <1>2, <1>4, <2>1, <2>3, IdlesSettles
<1>5. CASE Raises(s) /\ Raised(s, c) /\ rows' = rows
  <2>1. session'[s] = "broken"
    BY <1>5, CalmFacts, OnlyBroken
  <2> QED BY <1>4, <1>5, <2>1
<1>6. CASE session' = [session EXCEPT ![s] = "broken"] /\ Raised(s, c) /\ rows' = rows
  <2>1. session'[s] = "broken"
    BY <1>6, CalmFacts DEF TypeOK
  <2> QED BY <1>4, <1>6, <2>1
<1> QED BY <1>3, <1>5, <1>6 DEF Create

(* What is sure of a call that owns its row.                               *)
LEMMA OwnerFacts ==
    ASSUME Calm, NEW s \in Services, Owner(call[s])
    PROVE  LET c == call[s] IN
           /\ c \in Call /\ c.attempt \in Attempts /\ ~c.dry /\ ~c.handling
           /\ session[s] = "usable"
           /\ rows[c.attempt] \in Row /\ rows[c.attempt] # None /\ rows[c.attempt].code = None
BY CalmFacts DEF Owner, CallSound, OwnerHolds, TypeOK

(* An owner goes on, and eBay and the table are as before.                 *)
LEMMA OwnerGoesOn ==
    ASSUME Calm, NEW s \in Services, Owner(call[s]), NEW d,
           call' = [call EXCEPT ![s] = d], UNCHANGED <<session, rows, published>>,
           d.dry = FALSE, d.handling = FALSE, d.attempt = call[s].attempt,
           d.pc \in {"guard", "execute", "complete", "sync", "finish", "fail", "schedule", "record"},
           d.pc = "complete" /\ d.outcome # "success" => published[d.attempt] = 0,
           d.pc \in {"fail", "schedule", "record"} => published[d.attempt] = 0,
           d.pc = "fail" => d.machine = "failed"
    PROVE  Settling'
<1>1. Owner(d)
  BY DEF Owner
<1>2. session[s] = "usable" /\ rows[d.attempt] # None /\ rows[d.attempt].code = None
  BY OwnerFacts
<1>3. CallSound(d, session'[s])
  BY <1>1, <1>2 DEF CallSound
<1>4. OwnerHolds(d, rows', published')
  BY <1>1, <1>2 DEF OwnerHolds
<1>5. OthersKept(s)
  BY DEF OthersKept
<1> QED BY <1>1, <1>3, <1>4, <1>5, StepSettles

LEMMA GuardSettles ==
    ASSUME Calm, NEW s \in Services, ~call[s].dry, Guard(s) PROVE Settling'
<1> DEFINE c == call[s]
<1>1. Owner(c) /\ c.pc = "guard"
  BY CalmFacts DEF Guard, At, Owner, CallSound
<1>2. c \in Call /\ c.dry = FALSE /\ c.handling = FALSE /\ session[s] = "usable"
      /\ published[c.attempt] = 0
  BY <1>1, OwnerFacts, CalmFacts DEF CallHolds, Fresh, Call
<1>3. UNCHANGED <<rows, published>> /\ faults = 0 /\ faults' = 0
  BY CalmFacts DEF Guard, database
<1>4. CASE Notes(s, c, "execute")
  <2> DEFINE d == After(c, "execute")
  <2>1. call' = [call EXCEPT ![s] = d] /\ session' = session
    BY <1>2, <1>3, <1>4, NotesSure
  <2>2. d.pc = "execute" /\ d.attempt = c.attempt /\ d.dry = c.dry /\ d.handling = c.handling
    BY <1>2, AfterIs DEF PC
  <2> HIDE DEF d
  <2> QED BY <1>1, <1>2, <1>3, <2>1, <2>2, OwnerGoesOn
<1>5. CASE Notes(s, [c EXCEPT !.outcome = "guard"], "complete")
  <2> DEFINE g == [c EXCEPT !.outcome = "guard"]
             d == After(g, "complete")
  <2>1. g \in Call /\ g.attempt = c.attempt /\ g.dry = c.dry /\ g.handling = c.handling
    BY <1>2 DEF Call, Outcome
  <2>2. call' = [call EXCEPT ![s] = d] /\ session' = session
    BY <1>2, <1>3, <1>5, NotesSure
  <2> HIDE DEF g
  <2>3. d.pc = "complete" /\ d.attempt = c.attempt /\ d.dry = c.dry /\ d.handling = c.handling
    BY <2>1, AfterIs DEF PC
  <2> HIDE DEF d
  <2> QED BY <1>1, <1>2, <1>3, <2>2, <2>3, OwnerGoesOn
<1> QED BY <1>4, <1>5 DEF Guard

(* eBay answers: if not with success, it has not listed the attempt.       *)
LEMMA ExecuteSettles ==
    ASSUME Calm, NEW s \in Services, ~call[s].dry, Execute(s) PROVE Settling'
<1> DEFINE c == call[s]
<1>1. Owner(c) /\ c.pc = "execute"
  BY CalmFacts DEF Execute, At, Owner, CallSound
<1>2. /\ c \in Call /\ c.dry = FALSE /\ c.handling = FALSE /\ session[s] = "usable"
      /\ c.attempt \in Attempts /\ published[c.attempt] = 0
      /\ rows[c.attempt] # None /\ rows[c.attempt].code = None
      /\ published \in [Attempts -> Nat]
  BY <1>1, OwnerFacts, CalmFacts DEF CallHolds, Fresh, Call, TypeOK
<1>3. PICK answer \in Answers(s, c) :
         /\ \/ published' = [published EXCEPT ![c.attempt] = @ + 1] /\ answer = "success"
            \/ published' = published
         /\ Goes(s, [c EXCEPT !.outcome = answer], "complete")
  BY DEF Execute
<1>4. rows' = rows /\ session' = session
  BY DEF Execute, database
<1> DEFINE g == [c EXCEPT !.outcome = answer]
           d == After(g, "complete")
<1>5. call' = [call EXCEPT ![s] = d]
  BY <1>3, GoesIs
<1>6. /\ d.pc = "complete" /\ d.attempt = c.attempt /\ d.dry = c.dry
      /\ d.handling = c.handling /\ d.outcome = answer
  BY <1>2 DEF After, Call
<1> HIDE DEF d
<1>7. \A b \in Attempts : b # c.attempt => published'[b] = published[b]
  BY <1>2, <1>3
<1>8. answer # "success" => published'[c.attempt] = 0
  BY <1>2, <1>3
<1>9. Owner(d)
  BY <1>2, <1>6 DEF Owner
<1>10. CallSound(d, session'[s])
  BY <1>2, <1>4, <1>6 DEF CallSound
<1>11. OwnerHolds(d, rows', published')
  BY <1>2, <1>4, <1>6, <1>8 DEF OwnerHolds
<1>12. OthersKept(s)
  BY <1>4 DEF OthersKept
<1> QED BY <1>1, <1>4, <1>5, <1>6, <1>7, <1>9, <1>10, <1>11, <1>12, StepSettles

LEMMA CompleteSettles ==
    ASSUME Calm, NEW s \in Services, ~call[s].dry, Complete(s) PROVE Settling'
<1> DEFINE c == call[s]
<1>1. Owner(c) /\ c.pc = "complete"
  BY CalmFacts DEF Complete, At, Owner, CallSound
<1>2. /\ c \in Call /\ c.dry = FALSE /\ c.handling = FALSE /\ session[s] = "usable"
      /\ c.outcome # "success" => published[c.attempt] = 0
  BY <1>1, OwnerFacts, CalmFacts DEF OwnerHolds, Call
<1>3. UNCHANGED <<rows, published>> /\ faults = 0 /\ faults' = 0
  BY CalmFacts DEF Complete
<1>4. PICK to \in {"executed", "failed"}, pc \in {"sync", "finish", "fail"} :
         /\ Moves(s, c, to, pc)
         /\ pc = "fail" => c.outcome # "success" /\ to = "failed"
  BY DEF Complete
<1> DEFINE m == Moved(c, to)
           d == After(m, pc)
<1>5. call' = [call EXCEPT ![s] = d] /\ session' = session
  BY <1>2, <1>3, <1>4, MovesSure
<1>6. m \in Call /\ m.machine = to /\ m.attempt = c.attempt /\ m.dry = c.dry
      /\ m.handling = c.handling
  BY <1>2, MovedIs DEF Machine
<1> HIDE DEF m
<1>7. pc \in PC \ {"idle"}
  BY DEF PC
<1>8. d.pc = pc /\ d.machine = to /\ d.attempt = c.attempt /\ d.dry = c.dry
      /\ d.handling = c.handling
  BY <1>6, <1>7, AfterIs
<1> HIDE DEF d
<1> QED BY <1>1, <1>2, <1>3, <1>4, <1>5, <1>8, OwnerGoesOn

LEMMA SyncSettles ==
    ASSUME Calm, NEW s \in Services, ~call[s].dry, Sync(s) PROVE Settling'
<1> DEFINE c == call[s]
           d == After(c, "finish")
<1>1. Owner(c) /\ c.pc = "sync"
  BY CalmFacts DEF Sync, At, Owner, CallSound
<1>2. c \in Call /\ c.dry = FALSE /\ c.handling = FALSE /\ session[s] = "usable"
  BY <1>1, OwnerFacts DEF Call
<1>3. UNCHANGED <<rows, published>> /\ faults = 0 /\ faults' = 0
  BY CalmFacts DEF Sync, database
<1>4. "usable" # "broken"
  OBVIOUS
<1>5. ~Raises(s)
  BY <1>2, <1>3, <1>4, OnlyBroken
<1>6. call' = [call EXCEPT ![s] = d] /\ session' = session
  BY <1>5, GoesIs DEF Sync, Commits
<1>7. d.pc = "finish" /\ d.attempt = c.attempt /\ d.dry = c.dry /\ d.handling = c.handling
  BY <1>2, AfterIs DEF PC
<1> HIDE DEF d
<1> QED BY <1>1, <1>2, <1>3, <1>6, <1>7, OwnerGoesOn

(* The owner's last write: the row is final.                               *)
LEMMA LastWrite ==
    ASSUME Calm, NEW s \in Services, Owner(call[s]), NEW d, NEW row,
           call' = [call EXCEPT ![s] = d], UNCHANGED <<session, published>>,
           rows' = [rows EXCEPT ![call[s].attempt] = row],
           ~Owner(d), d = Idle \/ (d.pc = "alert" /\ ~d.handling),
           Final(row, published[call[s].attempt])
    PROVE  Settling'
<1> DEFINE a == call[s].attempt
<1>1. a \in Attempts /\ session[s] = "usable" /\ rows \in [Attempts -> Row \cup {None}]
  BY OwnerFacts, CalmFacts DEF TypeOK
<1>2. rows'[a] = row /\ \A b \in Attempts : b # a => rows'[b] = rows[b]
  BY <1>1
<1>3. Final(rows'[a], published'[a])
  BY <1>2
<1>4. CallSound(d, session'[s])
  BY <1>1, IdleSettles DEF CallSound
<1>5. OwnerHolds(d, rows', published') /\ OthersKept(s)
  BY DEF OwnerHolds, OthersKept
<1> QED BY <1>2, <1>3, <1>4, <1>5, StepSettles

LEMMA FinishSettles ==
    ASSUME Calm, NEW s \in Services, ~call[s].dry, Finish(s) PROVE Settling'
<1> DEFINE c == call[s]
           row == [rows[c.attempt] EXCEPT !.status = "executed"]
<1>1. Owner(c) /\ c.pc = "finish"
  BY CalmFacts DEF Finish, At, Owner, CallSound
<1>2. /\ c.attempt \in Attempts /\ ~c.dry /\ session[s] = "usable"
      /\ rows[c.attempt] \in Row /\ rows[c.attempt] # None /\ rows[c.attempt].code = None
  BY <1>1, OwnerFacts
<1>3. published[c.attempt] = 1
  BY <1>1, <1>2, CalmFacts DEF CallHolds, Succeeded, Calm
<1>4. Updates(s, c, row, "idle") /\ published' = published /\ faults = 0 /\ faults' = 0
  BY <1>2, CalmFacts DEF Finish
<1>5. row.status = "executed" /\ row.code = None
  BY <1>2 DEF Row
<1>6. Final(row, published[c.attempt])
  BY <1>3, <1>5 DEF Final
<1> HIDE DEF row
<1>7. /\ call' = [call EXCEPT ![s] = Idle] /\ session' = session
      /\ rows' = [rows EXCEPT ![c.attempt] = row]
  BY <1>2, <1>4, UpdatesSure, AfterIdle
<1> QED BY <1>1, <1>4, <1>6, <1>7, IdleSettles, LastWrite

(* The except clause: a broken session is the end of a live call, and an   *)
(* execute_listing call fails in its turn.                                 *)
LEMMA CaughtSettles ==
    ASSUME Calm, NEW s \in Services, ~call[s].dry, Caught(s) PROVE Settling'
<1> PICK failure \in Failure :
       LET h == [call[s] EXCEPT !.outcome = failure, !.handling = TRUE]
       IN  IF h.live /\ h.machine = "executing" THEN Moves(s, h, "failed", "fail")
           ELSE Goes(s, h, "fail")
  BY DEF Caught
<1> DEFINE c == call[s]
           g == [c EXCEPT !.outcome = failure, !.handling = TRUE]
<1>1. c \in Call /\ c.pc = "caught" /\ c.machine = "executing" /\ ~Owner(c)
      /\ (c.live => session[s] = "broken")
  BY CalmFacts DEF Caught, At, Owner, CallSound
<1>2. UNCHANGED <<rows, published>> /\ OthersKept(s)
  BY CalmFacts, StepAlone DEF Caught, Step
<1>3. /\ g \in Call /\ g.handling /\ g.live = c.live /\ g.dry = c.dry
      /\ g.machine = "executing"
  BY <1>1 DEF Call, Outcome
<1>4. \/ c.live /\ Moves(s, g, "failed", "fail")
      \/ ~c.live /\ Goes(s, g, "fail")
  BY <1>1, <1>3
<1> HIDE DEF g
<1>5. CASE c.live /\ Moves(s, g, "failed", "fail")
  <2> DEFINE m == Moved(g, "failed")
  <2>1. m.handling
    BY <1>3, MovedIs DEF Machine
  <2>2. session[s] # "usable"
    BY <1>1, <1>5
  <2>3. Raised(s, m)
    BY <1>3, <1>5, <2>2 DEF Moves, Moved
  <2> HIDE DEF m
  <2>4. call' = [call EXCEPT ![s] = Idle]
    BY <2>1, <2>3, RaisedWhere, AfterIdle
  <2> QED BY <1>1, <1>2, <2>4, IdleSettles, IdlesSettles
<1>6. CASE ~c.live /\ Goes(s, g, "fail")
  <2> DEFINE d == After(g, "fail")
  <2>1. call' = [call EXCEPT ![s] = d]
    BY <1>6, GoesIs
  <2>2. d.pc = "fail" /\ d.machine = "executing" /\ d.handling
    BY <1>3, AfterIs DEF PC
  <2> HIDE DEF d
  <2>3. CallSound(d, session'[s]) /\ ~Owner(d)
    BY <2>2 DEF CallSound, Owner
  <2> QED BY <1>1, <1>2, <2>1, <2>3, IdlesSettles
<1> QED BY <1>4, <1>5, <1>6

LEMMA FailSettles ==
    ASSUME Calm, NEW s \in Services, ~call[s].dry, Fail(s) PROVE Settling'
<1> DEFINE c == call[s]
<1>1. c \in Call /\ c.pc = "fail" /\ UNCHANGED <<rows, published>>
  BY CalmFacts DEF Fail, At
<1>2. CASE c.handling
  <2>1. c.machine = "executing" /\ ~Owner(c)
    BY <1>2, CalmFacts DEF CallSound, Owner
  <2>2. ~Allowed(c.machine, "rolled_back")
    BY <2>1 DEF Allowed
  <2>3. Raised(s, c) /\ OthersKept(s)
    BY <2>2 DEF Fail, OthersKept
  <2>4. call' = [call EXCEPT ![s] = Idle]
    BY <1>2, <2>3, RaisedWhere, AfterIdle
  <2> QED BY <1>1, <2>1, <2>3, <2>4, IdleSettles, IdlesSettles
<1>3. CASE ~c.handling
  <2>1. Owner(c)
    BY <1>1, <1>3 DEF Owner
  <2>2. /\ c.dry = FALSE /\ c.handling = FALSE /\ session[s] = "usable"
        /\ c.machine = "failed" /\ published[c.attempt] = 0 /\ faults = 0 /\ faults' = 0
    BY <1>1, <1>3, <2>1, OwnerFacts, CalmFacts DEF OwnerHolds, Call
  <2>3. Moves(s, c, "rolled_back", "schedule")
    BY <2>2 DEF Fail, Allowed
  <2> DEFINE m == Moved(c, "rolled_back")
             d == After(m, "schedule")
  <2>4. call' = [call EXCEPT ![s] = d] /\ session' = session
    BY <2>2, <2>3, MovesSure
  <2>5. m \in Call /\ m.attempt = c.attempt /\ m.dry = c.dry /\ m.handling = c.handling
    BY <1>1, MovedIs DEF Machine
  <2> HIDE DEF m
  <2>6. d.pc = "schedule" /\ d.attempt = c.attempt /\ d.dry = c.dry /\ d.handling = c.handling
    BY <2>5, AfterIs DEF PC
  <2> HIDE DEF d
  <2> QED BY <1>1, <2>1, <2>2, <2>4, <2>6, OwnerGoesOn
<1> QED BY <1>2, <1>3

LEMMA ScheduleSettles ==
    ASSUME Calm, NEW s \in Services, ~call[s].dry, Schedule(s) PROVE Settling'
<1> DEFINE c == call[s]
           d == After(c, "record")
<1>1. Owner(c) /\ c.pc = "schedule"
  BY CalmFacts DEF Schedule, At, Owner, CallSound
<1>2. /\ c \in Call /\ c.dry = FALSE /\ c.handling = FALSE /\ session[s] = "usable"
      /\ published[c.attempt] = 0
  BY <1>1, OwnerFacts, CalmFacts DEF OwnerHolds, Call
<1>3. UNCHANGED <<rows, published>> /\ faults = 0 /\ faults' = 0
  BY CalmFacts DEF Schedule, database
<1>4. "usable" # "broken"
  OBVIOUS
<1>5. ~Raises(s)
  BY <1>2, <1>3, <1>4, OnlyBroken
<1>6. call' = [call EXCEPT ![s] = d] /\ session' = session
  BY <1>5, GoesIs DEF Schedule, Commits
<1>7. d.pc = "record" /\ d.attempt = c.attempt /\ d.dry = c.dry /\ d.handling = c.handling
  BY <1>2, AfterIs DEF PC
<1> HIDE DEF d
<1> QED BY <1>1, <1>2, <1>3, <1>6, <1>7, OwnerGoesOn

LEMMA DecisionType == ASSUME NEW c \in Call PROVE Decision(c) \in Action
<1>1. CASE c.outcome \in {"guard", "conflict"}
  BY <1>1 DEF Decision, Action
<1>2. CASE c.outcome = "limit"
  BY <1>2 DEF Decision, Action
<1>3. CASE c.outcome \notin {"guard", "conflict", "limit"}
  BY <1>3 DEF Decision, Action
<1> QED BY <1>1, <1>2, <1>3

LEMMA RecordSettles ==
    ASSUME Calm, NEW s \in Services, ~call[s].dry, Record(s) PROVE Settling'
<1> DEFINE c == call[s]
           row == [status |-> IF Decision(c) = "CANCEL" THEN "failed" ELSE c.machine,
                   code |-> Decision(c)]
           pc == IF c.live THEN "alert" ELSE "idle"
           d == After(c, pc)
<1>1. Owner(c) /\ c.pc = "record" /\ c.machine = "rolled_back"
  BY CalmFacts DEF Record, At, Owner, CallSound, CallHolds
<1>2. /\ c \in Call /\ ~c.dry /\ ~c.handling /\ session[s] = "usable"
      /\ rows[c.attempt] # None /\ published[c.attempt] = 0
  BY <1>1, OwnerFacts, CalmFacts DEF OwnerHolds
<1>3. Updates(s, c, row, pc) /\ published' = published /\ faults = 0 /\ faults' = 0
  BY CalmFacts DEF Record
<1>4. row.status # "executing" /\ row.code # None
  BY <1>1, <1>2, DecisionType, NoneAssumption
<1>5. Final(row, published[c.attempt])
  BY <1>2, <1>4 DEF Final
<1> HIDE DEF row
<1>6. /\ call' = [call EXCEPT ![s] = d] /\ session' = session
      /\ rows' = [rows EXCEPT ![c.attempt] = row]
  BY <1>2, <1>3, UpdatesSure
<1>7. d = Idle \/ (d.pc = "alert" /\ ~d.handling)
  <2>1. CASE c.live
    BY <1>2, <2>1, AfterIs DEF PC
  <2>2. CASE ~c.live
    BY <2>2, AfterIdle
  <2> QED BY <2>1, <2>2
<1> HIDE DEF d
<1>8. ~Owner(d)
  BY <1>7, IdleSettles DEF Owner
<1> QED BY <1>1, <1>3, <1>5, <1>6, <1>7, <1>8, LastWrite

LEMMA AlertSettles ==
    ASSUME Calm, NEW s \in Services, ~call[s].dry, Alert(s) PROVE Settling'
<1> DEFINE c == call[s]
<1>1. c.pc = "alert" /\ session[s] = "usable" /\ ~Owner(c) /\ faults = 0 /\ faults' = 0
  BY CalmFacts DEF Alert, At, Owner, CallSound
<1>2. UNCHANGED <<rows, published>> /\ OthersKept(s)
  BY CalmFacts, StepAlone DEF Alert, database, Step
<1>3. call' = [call EXCEPT ![s] = Idle]
  BY <1>1, NotesSure, GoesIs, AfterIdle DEF Alert
<1> QED BY <1>1, <1>2, <1>3, IdleSettles, IdlesSettles

(* An operator's rollback keeps the error code, and an owner keeps its row. *)
LEMMA RollbackSettles ==
    ASSUME Calm, NEW s \in Services, NEW a \in Attempts, Rollback(s, a) PROVE Settling'
<1>1. UNCHANGED <<call, published>> /\ rows[a] # None /\ rows[a] \in Row
  BY CalmFacts DEF Rollback, TypeOK
<1>2. \A u \in Services : call[u].pc # "idle" => session'[u] = session[u]
  BY CalmFacts, RaisesAlone DEF Rollback, Commits, At, OthersKept
<1>3. \A b \in Attempts :
         \/ rows'[b] = rows[b]
         \/ /\ rows[b] # None /\ rows'[b] # None
            /\ rows'[b].status = "rolled_back" /\ rows'[b].code = rows[b].code
  <2>1. CASE rows' = [rows EXCEPT ![a].status = "rolled_back"]
    <3> DEFINE row == [rows[a] EXCEPT !.status = "rolled_back"]
    <3>1. row \in Row /\ row.status = "rolled_back" /\ row.code = rows[a].code
      BY <1>1 DEF Row, Machine
    <3>2. row # None
      BY <3>1, NoneAssumption
    <3>3. rows'[a] = row /\ \A b \in Attempts : b # a => rows'[b] = rows[b]
      BY <2>1, CalmFacts DEF TypeOK
    <3> QED BY <1>1, <3>1, <3>2, <3>3
  <2>2. CASE rows' = rows
    BY <2>2
  <2> QED BY <2>1, <2>2 DEF Rollback
<1>4. ASSUME NEW u \in Services
      PROVE  CallSound(call[u], session'[u]) /\ OwnerHolds(call[u], rows', published')
  <2>1. CallSound(call[u], session[u]) /\ OwnerHolds(call[u], rows, published)
    BY CalmFacts
  <2>2. CASE call[u].pc = "idle"
    BY <2>1, <2>2 DEF CallSound, OwnerHolds, Owner
  <2>3. CASE call[u].pc # "idle"
    <3>1. session'[u] = session[u] /\ call[u].attempt \in Attempts
      BY <1>2, <2>3, CalmFacts
    <3> QED BY <1>1, <1>3, <2>1, <3>1 DEF OwnerHolds
  <2> QED BY <2>2, <2>3
<1>5. Sole'
  BY <1>1 DEF Calm, Settling, Sole
<1>6. Rest'
  <2> SUFFICES ASSUME NEW b \in Attempts
               PROVE  \/ rows'[b] = None
                      \/ Final(rows'[b], published[b])
                      \/ \E u \in Services : Owner(call[u]) /\ call[u].attempt = b
    BY <1>1 DEF Rest
  <2>1. \/ rows[b] = None
        \/ Final(rows[b], published[b])
        \/ \E u \in Services : Owner(call[u]) /\ call[u].attempt = b
    BY DEF Calm, Settling, Rest
  <2>2. rows[b] # None /\ Final(rows[b], published[b]) => Final(rows'[b], published[b])
    BY <1>3 DEF Final
  <2>3. rows[b] = None => rows'[b] = None
    BY <1>3
  <2> QED BY <2>1, <2>2, <2>3
<1> QED BY <1>1, <1>4, <1>5, <1>6 DEF Settling

-----------------------------------------------------------------------------
LEMMA StepSettling ==
    ASSUME Calm, NEW s \in Services, Step(s) PROVE Settling'
<1>1. CASE call[s].dry
  BY <1>1, DrySettled
<1>2. CASE ~call[s].dry
  BY <1>2, ReadinessSettles, InitiateSettles, CreateSettles, GuardSettles, ExecuteSettles,
     CompleteSettles, SyncSettles, FinishSettles, CaughtSettles, FailSettles,
     ScheduleSettles, RecordSettles, AlertSettles DEF Step
<1> QED BY <1>1, <1>2

(* No step takes a fault back.                                             *)
LEMMA FaultsStay ==
    ASSUME TypeOK, [Next]_vars, faults' = 0 PROVE faults = 0
<1>1. CASE UNCHANGED vars
  BY <1>1 DEF vars
<1>2. CASE Next
  <2>1. faults \in Nat
    BY ListingExecutionAssumption DEF TypeOK
  <2>2. ASSUME NEW s \in Services, Raises(s) PROVE faults = 0
    BY <2>1, <2>2 DEF Raises
  <2>3. ASSUME NEW s \in Services, Step(s), faults' # faults PROVE Raises(s)
    BY <2>3 DEF Step, Readiness, Initiate, Create, Guard, Execute, Complete, Sync, Finish,
                Caught, Fail, Schedule, Record, Alert, Moves, Notes, Updates, Commits
  <2>4. ASSUME NEW s \in Services, NEW a \in Attempts, Rollback(s, a), faults' # faults
        PROVE  Raises(s)
    BY <2>4 DEF Rollback, Commits
  <2>5. \A s \in Services : ~Restart(s)
    BY <2>1 DEF Restart
  <2>6. PICK s \in Services :
           \/ \E a \in Attempts, q \in Requests, n \in Numbers : Begin(s, a, q, n)
           \/ Step(s)
           \/ \E a \in Attempts : Rollback(s, a)
    BY <1>2, <2>5 DEF Next
  <2>7. (\E a \in Attempts, q \in Requests, n \in Numbers : Begin(s, a, q, n)) => faults' = faults
    BY DEF Begin
  <2> QED BY <2>2, <2>3, <2>4, <2>6, <2>7
<1> QED BY <1>1, <1>2

LEMMA InitSettles == Init => SInv
<1> SUFFICES ASSUME Init PROVE Settling
  BY InitHolds DEF SInv
<1>1. \A s \in Services : call[s] = Idle
  BY DEF Init
<1>2. \A s \in Services : /\ CallSound(call[s], session[s])
                          /\ OwnerHolds(call[s], rows, published)
                          /\ ~Owner(call[s])
  BY <1>1, IdleSettles
<1>3. Rest
  BY DEF Init, Rest
<1> QED BY <1>2, <1>3 DEF Settling, Sole

LEMMA NextSettles == NoDryMock /\ SInv /\ [Next]_vars => SInv'
<1> SUFFICES ASSUME NoDryMock, SInv, [Next]_vars, faults' = 0 PROVE Settling'
  BY NextHolds DEF SInv
<1>1. Calm
  BY FaultsStay, NextHolds DEF Calm, SInv, IInv
<1>2. CASE UNCHANGED vars
  <2>1. UNCHANGED <<rows, published, session, call>>
    BY <1>2 DEF vars
  <2> QED BY <1>1, <2>1 DEF Calm, Settling, Sole, Rest
<1>3. CASE Next
  <2>1. \A s \in Services : ~Restart(s)
    <3>1. faults = 0
      BY <1>1 DEF Calm
    <3> QED BY <3>1 DEF Restart
  <2> QED BY <1>1, <1>3, <2>1, StepSettling, BeginSettles, RollbackSettles DEF Next
<1> QED BY <1>2, <1>3

(***************************************************************************)
(* Without faults a row that no call is working on is final, and it has an *)
(* error code exactly when eBay has not listed its attempt.                *)
(***************************************************************************)
THEOREM RowsSettle == ASSUME NoDryMock PROVE Spec => []Settled
<1>1. SInv => Settled
  <2> SUFFICES ASSUME SInv, faults = 0, NEW a \in Attempts, rows[a] # None, ~InFlight(a)
               PROVE  Final(rows[a], published[a])
    BY DEF Settled, Final
  <2>1. ~\E s \in Services : Owner(call[s]) /\ call[s].attempt = a
    BY DEF InFlight
  <2> QED BY <2>1 DEF SInv, Settling, Rest
<1>2. Spec => []SInv
  BY InitSettles, NextSettles, PTL DEF Spec
<1> QED BY <1>1, <1>2, PTL
=============================================================================
