-------------------------- MODULE EscalationProofs --------------------------
(***************************************************************************)
(* The invariants of the escalation layer, for any number of alerts,       *)
(* operators and concurrent batches, any policy and any bound.             *)
(***************************************************************************)
EXTENDS Escalation, TLAPS

(***************************************************************************)
(* What the status, the reminder count and the level of one row owe to its *)
(* own columns and to its policy.                                          *)
(***************************************************************************)
RowAgrees(s) ==
    /\ s.status = "resolved" => s.resolvedAt # None
    /\ s.status = "acknowledged" => s.acked
    /\ s.status = "silenced" => s.silencedUntil # None
    /\ s.status = "escalated" => s.lastEscalated # None

RowCapped(k, s) ==
    Policy[k].reminderMax # None => s.reminders <= Policy[k].reminderMax

RowEarned(k, s) ==
    s.level > 0 =>
        /\ s.level <= Policy[k].lastStep
        /\ s.lastEscalated # None
        /\ s.lastEscalated >= s.firstSeen + Policy[k].steps[s.level].after

RowInv(k, s) ==
    /\ s \in Row
    /\ RowAgrees(s)
    /\ RowCapped(k, s)
    /\ RowEarned(k, s)

(* A later version u of row s: rows are never deleted, and first_seen_at is *)
(* written once.                                                            *)
SameSight(s, u) == Tracked(s) => Tracked(u) /\ u.firstSeen = s.firstSeen

(***************************************************************************)
(* What a batch holds while others write: a snapshot of rows that still    *)
(* exist with the same first_seen_at, and an alert that was due by the     *)
(* policy when it was decided.                                             *)
(***************************************************************************)
AlertInv(u, R) ==
    LET a == u.alert IN
    /\ a \in Alert
    /\ Tracked(R[a.key])
    /\ a.level = 0 /\ Policy[a.key].reminderMax # None => a.count <= Policy[a.key].reminderMax
    /\ a.level > 0 =>
        /\ a.level <= Policy[a.key].lastStep
        /\ u.now >= R[a.key].firstSeen + Policy[a.key].steps[a.level].after

SnapshotInv(u, R) ==
    \A k \in Keys :
        /\ RowInv(k, u.snap[k])
        /\ SameSight(u.snap[k], R[k])
        /\ k \in u.todo /\ u.pc # "ingest" => Tracked(u.snap[k])

RunInv(u, R) ==
    /\ u \in Run
    /\ u.pc = "persist" => AlertInv(u, R)
    /\ u.pc = "touch" => u.alert \in Alert /\ Tracked(R[u.alert.key])
    /\ SnapshotInv(u, R)

(* The inductive invariant. *)
IInv ==
    /\ TypeOK
    /\ \A k \in Keys : RowInv(k, rows[k])
    /\ \A r \in Runners : RunInv(run[r], rows)

-----------------------------------------------------------------------------
(* The writes of the repository, one row at a time. *)

(* A key that has no row yet satisfies the invariant of rows. *)
LEMMA NoRowInv ==
    ASSUME NEW k \in Keys
    PROVE  RowInv(k, NoRow) /\ ~Tracked(NoRow)
  BY EscalationAssumption, SMT
  DEF NoRow, RowInv, RowAgrees, RowCapped, RowEarned, Row, Status, Maybe, IsPolicy, Tracked

(* What the proofs need of a policy. *)
LEMMA PolicyFacts ==
    ASSUME NEW k \in Keys
    PROVE  /\ Policy[k].reminderMax # None => Policy[k].reminderMax \in Nat
           /\ Policy[k].lastStep \in Nat
           /\ \A i \in 1 .. Policy[k].lastStep : Policy[k].steps[i].after \in Nat
<1>1. /\ Policy[k].reminderMax \in Nat \cup {None}
      /\ Policy[k].lastStep \in Nat
      /\ Policy[k].steps \in [1 .. Policy[k].lastStep -> Step]
  BY EscalationAssumption DEF IsPolicy, Maybe
<1>2. \A i \in 1 .. Policy[k].lastStep : Policy[k].steps[i] \in Step
  BY <1>1
<1>3. \A x \in Step : x.after \in Nat
  BY DEF Step
<1>4. QED
  BY <1>1, <1>2, <1>3

(* Reopening, and so upsert_open_state, keeps it. *)
LEMMA ReopenedInv ==
    ASSUME NEW k \in Keys, NEW s, RowInv(k, s)
    PROVE  RowInv(k, Reopened(s)) /\ Tracked(Reopened(s)) /\ SameSight(s, Reopened(s))
<1> DEFINE u == Reopened(s)
<1>1. s \in Row
  BY DEF RowInv
<1>2. u \in Row /\ u.status = "open" /\ u.reminders = 0 /\ u.level = 0
      /\ u.firstSeen = s.firstSeen
  BY <1>1 DEF Reopened, Row, Status, Maybe
<1> HIDE DEF u
<1>3. RowAgrees(u) /\ Tracked(u) /\ SameSight(s, u)
  BY <1>2 DEF RowAgrees, Tracked, SameSight
<1>4. RowCapped(k, u)
  BY <1>2, PolicyFacts DEF RowCapped
<1>5. RowEarned(k, u)
  BY <1>2 DEF RowEarned
<1>6. QED
  BY <1>2, <1>3, <1>4, <1>5 DEF RowInv, u

LEMMA UpsertInv ==
    ASSUME NEW k \in Keys, NEW s, RowInv(k, s), NEW t \in Int
    PROVE  /\ RowInv(k, UpsertOpen(s, t))
           /\ Tracked(UpsertOpen(s, t))
           /\ SameSight(s, UpsertOpen(s, t))
<1>1. CASE ~Tracked(s)
  <2> DEFINE u == NewRow(t)
  <2>1. u \in Row /\ u.status = "open" /\ u.reminders = 0 /\ u.level = 0
    BY DEF NewRow, NoRow, Row, Status, Maybe
  <2>2. UpsertOpen(s, t) = u
    BY <1>1 DEF UpsertOpen
  <2> HIDE DEF u
  <2>3. RowAgrees(u) /\ Tracked(u) /\ SameSight(s, u)
    BY <1>1, <2>1 DEF RowAgrees, Tracked, SameSight
  <2>4. RowCapped(k, u)
    BY <2>1, PolicyFacts DEF RowCapped
  <2>5. RowEarned(k, u)
    BY <2>1 DEF RowEarned
  <2>6. QED
    BY <2>1, <2>2, <2>3, <2>4, <2>5 DEF RowInv
<1>2. CASE Tracked(s)
  <2> DEFINE v == IF s.resolvedAt # None THEN Reopened(s) ELSE s
             u == [v EXCEPT !.lastSeen = t]
  <2>1. RowInv(k, v) /\ Tracked(v) /\ SameSight(s, v)
    BY <1>2, ReopenedInv DEF SameSight
  <2>2. UpsertOpen(s, t) = u
    BY <1>2 DEF UpsertOpen
  <2> HIDE DEF v
  <2>3. /\ u \in Row /\ u.status = v.status /\ u.reminders = v.reminders
        /\ u.level = v.level /\ u.firstSeen = v.firstSeen
        /\ u.resolvedAt = v.resolvedAt /\ u.acked = v.acked
        /\ u.silencedUntil = v.silencedUntil /\ u.lastEscalated = v.lastEscalated
    BY <2>1 DEF RowInv, Row
  <2> HIDE DEF u
  <2>4. RowAgrees(u) /\ Tracked(u) /\ SameSight(s, u)
    BY <2>1, <2>3, Zenon DEF RowInv, RowAgrees, Tracked, SameSight
  <2>5. RowCapped(k, u) /\ RowEarned(k, u)
    BY <2>1, <2>3 DEF RowInv, RowCapped, RowEarned
  <2>6. QED
    BY <2>2, <2>3, <2>4, <2>5 DEF RowInv
<1>3. QED
  BY <1>1, <1>2

(* Any write that leaves the counters and the escalation alone keeps the   *)
(* invariant, if the columns it writes agree with the status it writes.    *)
LEMMA StatusWriteInv ==
    ASSUME NEW k \in Keys, NEW s, RowInv(k, s), NEW u \in Row,
           RowAgrees(u), u.status # "untracked",
           u.reminders = s.reminders, u.level = s.level,
           u.firstSeen = s.firstSeen, u.lastEscalated = s.lastEscalated
    PROVE  RowInv(k, u) /\ SameSight(s, u)
  BY DEF RowInv, RowCapped, RowEarned, SameSight, Tracked

(* Resolving is one, whoever resolves. *)
LEMMA ResolvedInv ==
    ASSUME NEW k \in Keys, NEW s, RowInv(k, s), NEW t \in Int,
           NEW who \in {"operator", "system_resolver"}
    PROVE  RowInv(k, Resolved(s, t, who)) /\ SameSight(s, Resolved(s, t, who))
<1> DEFINE u == Resolved(s, t, who)
<1>1. /\ u \in Row /\ u.status = "resolved" /\ u.resolvedAt = t
      /\ u.reminders = s.reminders /\ u.level = s.level
      /\ u.firstSeen = s.firstSeen /\ u.lastEscalated = s.lastEscalated
  BY DEF RowInv, Resolved, Row, Status, Maybe
<1> HIDE DEF u
<1>2. RowAgrees(u)
  BY <1>1, EscalationAssumption DEF RowAgrees
<1>3. QED
  BY <1>1, <1>2, StatusWriteInv DEF u

(* Writing back an alert keeps it if the alert was due when it was decided. *)
LEMMA PersistedInv ==
    ASSUME NEW k \in Keys, NEW s, RowInv(k, s), Tracked(s), NEW t \in Int,
           NEW a \in Alert,
           a.level = 0 /\ Policy[k].reminderMax # None => a.count <= Policy[k].reminderMax,
           a.level > 0 => /\ a.level <= Policy[k].lastStep
                          /\ t >= s.firstSeen + Policy[k].steps[a.level].after
    PROVE  RowInv(k, Persisted(s, a, t)) /\ SameSight(s, Persisted(s, a, t))
<1> DEFINE u == Persisted(s, a, t)
<1>0. s \in Row /\ a.level \in Nat /\ a.count \in Nat
  BY DEF RowInv, Alert
<1>1. CASE a.level = 0
  <2>1. /\ u \in Row /\ u.status = s.status /\ u.reminders = a.count
        /\ u.level = s.level /\ u.firstSeen = s.firstSeen
        /\ u.resolvedAt = s.resolvedAt /\ u.acked = s.acked
        /\ u.silencedUntil = s.silencedUntil /\ u.lastEscalated = s.lastEscalated
    BY <1>0, <1>1 DEF Persisted, Row, Maybe
  <2> HIDE DEF u
  <2>2. RowAgrees(u) /\ SameSight(s, u)
    BY <2>1, Zenon DEF RowInv, RowAgrees, Tracked, SameSight
  <2>3. RowCapped(k, u) /\ RowEarned(k, u)
    BY <1>1, <2>1 DEF RowInv, RowCapped, RowEarned
  <2>4. QED
    BY <2>1, <2>2, <2>3 DEF RowInv, u
<1>2. CASE a.level > 0
  <2>1. /\ u \in Row /\ u.status = "escalated" /\ u.reminders = s.reminders
        /\ u.level = a.level /\ u.firstSeen = s.firstSeen /\ u.lastEscalated = t
    <3>1. u = [s EXCEPT !.level = a.level, !.status = "escalated",
                        !.lastEscalated = t, !.lastNotified = t]
      BY <1>0, <1>2 DEF Persisted
    <3> HIDE DEF u
    <3>2. QED
      BY <1>0, <3>1 DEF Row, Status, Maybe
  <2> HIDE DEF u
  <2>2. RowAgrees(u) /\ SameSight(s, u)
    BY <2>1, EscalationAssumption DEF RowAgrees, Tracked, SameSight
  <2>3. RowCapped(k, u) /\ RowEarned(k, u)
    BY <1>2, <2>1, EscalationAssumption DEF RowInv, RowCapped, RowEarned
  <2>4. QED
    BY <2>1, <2>2, <2>3 DEF RowInv, u
<1>3. QED
  BY <1>0, <1>1, <1>2

-----------------------------------------------------------------------------
(* One write to the table, and what the batches that did not write see. *)

LEMMA OneWrite ==
    ASSUME NEW k \in Keys, NEW s, RowInv(k, s), SameSight(rows[k], s),
           rows \in [Keys -> Row],
           \A j \in Keys : RowInv(j, rows[j]),
           rows' = [rows EXCEPT ![k] = s]
    PROVE  /\ rows' \in [Keys -> Row]
           /\ \A j \in Keys : RowInv(j, rows'[j])
           /\ \A j \in Keys : SameSight(rows[j], rows'[j])
<1>1. s \in Row
  BY DEF RowInv
<1>2. rows' \in [Keys -> Row] /\ rows'[k] = s /\ \A j \in Keys \ {k} : rows'[j] = rows[j]
  BY <1>1
<1>3. \A j \in Keys : SameSight(rows[j], rows[j])
  BY DEF SameSight
<1>4. QED
  BY <1>2, <1>3

(* A batch's snapshot and its pending alert survive the writes of others. *)
LEMMA RunKept ==
    ASSUME NEW u, NEW R, NEW Q, RunInv(u, R),
           \A j \in Keys : SameSight(R[j], Q[j])
    PROVE  RunInv(u, Q)
<1>1. u.pc = "persist" => AlertInv(u, Q)
  <2> SUFFICES ASSUME u.pc = "persist" PROVE AlertInv(u, Q)
    OBVIOUS
  <2>1. AlertInv(u, R) /\ u.alert.key \in Keys
    BY DEF RunInv, AlertInv, Alert
  <2>2. QED
    BY <2>1 DEF AlertInv, SameSight
<1>2. SnapshotInv(u, Q)
  BY DEF RunInv, SnapshotInv, SameSight
<1>3. u.pc = "touch" => u.alert \in Alert /\ Tracked(Q[u.alert.key])
  <2> SUFFICES ASSUME u.pc = "touch" PROVE Tracked(Q[u.alert.key]) /\ u.alert \in Alert
    OBVIOUS
  <2>1. u.alert \in Alert /\ Tracked(R[u.alert.key]) /\ u.alert.key \in Keys
    BY DEF RunInv, Alert
  <2>2. QED
    BY <2>1 DEF SameSight
<1>4. QED
  BY <1>1, <1>2, <1>3 DEF RunInv

(* Dropping one key from a run's work keeps the run's invariant. *)
LEMMA WithoutKept ==
    ASSUME NEW k \in Keys, NEW u, NEW R, RunInv(u, R), u.pc \notin {"persist", "touch"}
    PROVE  /\ RunInv(Without(u, k), R)
           /\ Without(u, k).pc = u.pc
           /\ Without(u, k).now = u.now
<1> DEFINE v == Without(u, k)
<1>1. NoRow \in Row /\ RowInv(k, NoRow) /\ ~Tracked(NoRow)
  BY NoRowInv DEF RowInv
<1>2. u \in Run /\ u.snap \in [Keys -> Row] /\ u.todo \subseteq Keys
  BY DEF RunInv, Run
<1>3. [u.snap EXCEPT ![k] = NoRow] \in [Keys -> Row]
  BY <1>1, <1>2
<1>4. /\ v \in Run /\ v.pc = u.pc /\ v.now = u.now
      /\ v.todo = u.todo \ {k} /\ v.snap = [u.snap EXCEPT ![k] = NoRow]
  BY <1>2, <1>3 DEF Without, Run
<1> HIDE DEF v
<1>5. v.snap[k] = NoRow /\ \A j \in Keys \ {k} : v.snap[j] = u.snap[j]
  BY <1>2, <1>4
<1>6. SnapshotInv(v, R)
  BY <1>1, <1>4, <1>5 DEF SnapshotInv, RunInv, SameSight
<1>7. QED
  BY <1>4, <1>6 DEF RunInv, v

-----------------------------------------------------------------------------
(* The three things a step keeps, and how it keeps them. *)

RowsKept ==
    /\ rows' \in [Keys -> Row]
    /\ \A k \in Keys : RowInv(k, rows'[k])
    /\ \A k \in Keys : SameSight(rows[k], rows'[k])

RunsKept ==
    /\ run' \in [Runners -> Run]
    /\ \A r \in Runners : RunInv(run'[r], rows')

WorldKept ==
    /\ now' \in Time
    /\ lastFailure' \in [Keys -> Maybe(Int)]
    /\ lastRecovery' \in [Keys -> Maybe(Int)]
    /\ covered' \in SUBSET Keys
    /\ actions' \in 0 .. MaxActions
    /\ faults' \in 0 .. MaxFaults

LEMMA Combine ==
    ASSUME RowsKept, RunsKept, WorldKept PROVE IInv'
  BY DEF RowsKept, RunsKept, WorldKept, IInv, TypeOK

LEMMA NoWrite ==
    ASSUME IInv, rows' = rows PROVE RowsKept
  BY DEF IInv, TypeOK, RowsKept, SameSight

LEMMA WriteOne ==
    ASSUME IInv, NEW k \in Keys, NEW s, RowInv(k, s), SameSight(rows[k], s),
           rows' = [rows EXCEPT ![k] = s]
    PROVE  RowsKept
  BY OneWrite DEF IInv, TypeOK, RowsKept

LEMMA NoRunStep ==
    ASSUME IInv, RowsKept, run' = run PROVE RunsKept
  BY RunKept DEF IInv, TypeOK, RowsKept, RunsKept

LEMMA OneRunStep ==
    ASSUME IInv, RowsKept, NEW r \in Runners, NEW u, RunInv(u, rows'),
           run' = [run EXCEPT ![r] = u]
    PROVE  RunsKept
<1>1. u \in Run
  BY DEF RunInv
<1>2. run' \in [Runners -> Run] /\ run'[r] = u /\ \A q \in Runners \ {r} : run'[q] = run[q]
  BY <1>1 DEF IInv, TypeOK
<1>3. \A q \in Runners : RunInv(run[q], rows')
  BY RunKept DEF IInv, RowsKept
<1>4. QED
  BY <1>2, <1>3 DEF RunsKept

LEMMA NothingElse ==
    ASSUME IInv, UNCHANGED <<now, lastFailure, lastRecovery, covered, actions>>,
           faults' \in 0 .. MaxFaults
    PROVE  WorldKept
  BY DEF IInv, TypeOK, WorldKept

-----------------------------------------------------------------------------
(* The steps of the world and of the operators. *)

LEMMA WorldStep ==
    ASSUME IInv, NEW k \in Keys,
           LogFailure(k) \/ LogRecovery(k) \/ MaintenanceChanges(k)
    PROVE  IInv'
<1>1. rows' = rows /\ run' = run
  BY DEF LogFailure, LogRecovery, MaintenanceChanges
<1>2. RowsKept /\ RunsKept
  BY <1>1, NoWrite, NoRunStep
<1>3. WorldKept
  <2>1. CASE LogFailure(k)
    BY <2>1 DEF LogFailure, IInv, TypeOK, Time, WorldKept, Maybe
  <2>2. CASE LogRecovery(k)
    BY <2>2 DEF LogRecovery, IInv, TypeOK, Time, WorldKept, Maybe
  <2>3. CASE MaintenanceChanges(k)
    BY <2>3, EscalationAssumption DEF MaintenanceChanges, IInv, TypeOK, WorldKept
  <2>4. QED
    BY <2>1, <2>2, <2>3
<1>4. QED
  BY <1>2, <1>3, Combine

LEMMA OperatorStep ==
    ASSUME IInv, NEW k \in Keys, Operator(k)
    PROVE  IInv'
<1> DEFINE s == rows[k]
<1>0. RowInv(k, s) /\ s \in Row /\ RowAgrees(s) /\ now \in Int
  BY EscalationAssumption DEF IInv, RowInv, TypeOK, Time
<1>1. ASSUME NEW u, OperatorWrites(k, u), RowInv(k, u), SameSight(s, u)
      PROVE  IInv'
  <2>1. RowsKept /\ RunsKept
    BY <1>1, WriteOne, NoRunStep DEF OperatorWrites
  <2>2. WorldKept
    BY <1>1, EscalationAssumption DEF OperatorWrites, IInv, TypeOK, WorldKept
  <2>3. QED
    BY <2>1, <2>2, Combine
<1>2. CASE Acknowledge(k)
  <2> DEFINE u == [s EXCEPT !.status = "acknowledged", !.acked = TRUE]
  <2>1. /\ u \in Row /\ u.status = "acknowledged" /\ u.acked
        /\ u.reminders = s.reminders /\ u.level = s.level
        /\ u.firstSeen = s.firstSeen /\ u.lastEscalated = s.lastEscalated
    BY <1>0 DEF Row, Status
  <2> HIDE DEF u
  <2>2. RowInv(k, u) /\ SameSight(s, u)
    BY <1>0, <2>1, StatusWriteInv DEF RowAgrees
  <2>3. QED
    BY <1>1, <1>2, <2>2 DEF Acknowledge, u
<1>3. ASSUME NEW d \in SilenceFor, Silence(k, d) PROVE IInv'
  <2> DEFINE u == [s EXCEPT !.status = "silenced", !.silencedUntil = now + d]
  <2>0. now + d \in Int /\ now + d # None
    BY <1>0, <1>3, EscalationAssumption
  <2>1. /\ u \in Row /\ u.status = "silenced" /\ u.silencedUntil # None
        /\ u.reminders = s.reminders /\ u.level = s.level
        /\ u.firstSeen = s.firstSeen /\ u.lastEscalated = s.lastEscalated
    BY <1>0, <2>0 DEF Row, Status, Maybe
  <2> HIDE DEF u
  <2>2. RowInv(k, u) /\ SameSight(s, u)
    BY <1>0, <2>1, StatusWriteInv DEF RowAgrees
  <2>3. QED
    BY <1>1, <1>3, <2>2 DEF Silence, u
<1>4. CASE ClearSilence(k)
  <2> DEFINE u == [s EXCEPT !.status = "open", !.silencedUntil = None]
  <2>1. /\ u \in Row /\ u.status = "open"
        /\ u.reminders = s.reminders /\ u.level = s.level
        /\ u.firstSeen = s.firstSeen /\ u.lastEscalated = s.lastEscalated
    BY <1>0 DEF Row, Status, Maybe
  <2> HIDE DEF u
  <2>2. RowInv(k, u) /\ SameSight(s, u)
    BY <1>0, <2>1, StatusWriteInv DEF RowAgrees
  <2>3. QED
    BY <1>1, <1>4, <2>2 DEF ClearSilence, u
<1>5. CASE Resolve(k)
  <2>1. RowInv(k, Resolved(s, now, "operator")) /\ SameSight(s, Resolved(s, now, "operator"))
    BY <1>0, ResolvedInv
  <2>2. QED
    BY <1>1, <1>5, <2>1 DEF Resolve
<1>6. CASE Reopen(k)
  <2>1. RowInv(k, Reopened(s)) /\ SameSight(s, Reopened(s))
    BY <1>0, ReopenedInv
  <2>2. QED
    BY <1>1, <1>6, <2>1 DEF Reopen
<1>7. QED
  BY <1>2, <1>3, <1>4, <1>5, <1>6 DEF Operator, Console, Cli

-----------------------------------------------------------------------------
(* The steps of a batch. *)

(* A step that writes one row and is done with its key. *)
LEMMA WriteAndDone ==
    ASSUME IInv, NEW r \in Runners, NEW k \in Keys, NEW s,
           RowInv(k, s), SameSight(rows[k], s),
           rows' = [rows EXCEPT ![k] = s],
           run[r].pc \notin {"persist", "touch"}, DoneWith(r, k),
           UNCHANGED <<now, lastFailure, lastRecovery, covered, actions, faults>>
    PROVE  IInv'
<1>1. RowsKept
  BY WriteOne
<1>2. RunInv(run[r], rows')
  BY <1>1, RunKept DEF IInv, RowsKept
<1>3. RunInv(Without(run[r], k), rows')
  BY <1>2, WithoutKept
<1>4. run' = [run EXCEPT ![r] = Without(run[r], k)]
  BY DEF DoneWith
<1>5. RunsKept
  BY <1>1, <1>3, <1>4, OneRunStep
<1>6. WorldKept
  BY NothingElse DEF IInv, TypeOK
<1>7. QED
  BY <1>1, <1>5, <1>6, Combine

(* A step that reads the unresolved rows. *)
LEMMA ReadKept ==
    ASSUME IInv, NEW r \in Runners, NEW from, NEW to \in {"recover", "evaluate"}, NEW t,
           ReadUnresolved(r, from, to, t)
    PROVE  IInv'
<1> DEFINE listed == {k \in Keys : Unresolved(rows[k], t)}
           snap == [k \in Keys |-> IF k \in listed THEN rows[k] ELSE NoRow]
           u == [run[r] EXCEPT !.pc = to, !.todo = listed, !.snap = snap]
<1>1. RowsKept
  BY NoWrite DEF ReadUnresolved
<1>2. \A k \in Keys : NoRow \in Row /\ RowInv(k, NoRow) /\ ~Tracked(NoRow)
  BY NoRowInv DEF RowInv
<1>3. /\ snap \in [Keys -> Row]
      /\ \A k \in Keys : /\ k \in listed => snap[k] = rows[k] /\ Tracked(rows[k])
                         /\ k \notin listed => snap[k] = NoRow
  BY <1>2 DEF IInv, TypeOK, Unresolved
<1>4. run[r] \in Run
  BY DEF IInv, TypeOK
<1> HIDE DEF listed, snap
<1>5. u \in Run /\ u.pc = to /\ u.todo = listed /\ u.snap = snap
  <2>1. listed \subseteq Keys
    BY DEF listed
  <2>2. QED
    BY <1>3, <1>4, <2>1 DEF Run
<1>6. run' = [run EXCEPT ![r] = u]
  BY DEF ReadUnresolved, listed, snap
<1>7. rows' = rows
  BY DEF ReadUnresolved
<1> HIDE DEF u
<1>8. SnapshotInv(u, rows')
  BY <1>2, <1>3, <1>5, <1>7 DEF SnapshotInv, IInv, SameSight
<1>9. RunInv(u, rows')
  BY <1>5, <1>8 DEF RunInv
<1>10. RunsKept
  BY <1>1, <1>6, <1>9, OneRunStep
<1>11. WorldKept
  BY NothingElse DEF ReadUnresolved, IInv, TypeOK
<1>12. QED
  BY <1>1, <1>10, <1>11, Combine

(* A step that decides on an alert: it was due when it was decided. *)
LEMMA DispatchKept ==
    ASSUME IInv, NEW r \in Runners, NEW k \in Keys, NEW i \in Nat,
           Evaluating(r, k), Dispatch(r, k, i),
           i = 0 /\ Policy[k].reminderMax # None =>
               run[r].snap[k].reminders < Policy[k].reminderMax,
           i > 0 => /\ i <= Policy[k].lastStep
                    /\ run[r].now - run[r].snap[k].firstSeen >= Policy[k].steps[i].after
    PROVE  IInv'
<1> DEFINE s == run[r].snap[k]
           w == Without(run[r], k)
<1>0. PICK ok \in BOOLEAN :
        run' = [run EXCEPT ![r] = [w EXCEPT !.pc = "persist",
                  !.alert = [key |-> k, level |-> i, reached |-> ok,
                             count |-> s.reminders + 1]]]
  BY DEF Dispatch
<1> DEFINE a == [key |-> k, level |-> i, reached |-> ok, count |-> s.reminders + 1]
           u == [w EXCEPT !.pc = "persist", !.alert = a]
<1>1. RowsKept /\ rows' = rows
  BY NoWrite DEF Dispatch
<1>2. /\ RunInv(run[r], rows) /\ run[r] \in Run /\ run[r].now \in Int
      /\ run[r].pc = "evaluate" /\ k \in run[r].todo
  BY DEF IInv, TypeOK, Evaluating, Run
<1>3. RunInv(w, rows) /\ w \in Run /\ w.pc = "evaluate" /\ w.now = run[r].now
  BY <1>2, WithoutKept DEF RunInv
<1>4. /\ s \in Row /\ s.reminders \in Nat /\ s.firstSeen \in Int
      /\ Tracked(rows[k]) /\ rows[k].firstSeen = s.firstSeen
  BY <1>2 DEF RunInv, SnapshotInv, RowInv, Row, SameSight
<1>5. /\ a \in Alert /\ a.key = k /\ a.level = i /\ a.count = s.reminders + 1
  BY <1>4 DEF Alert
<1> HIDE DEF a, w
<1>6. /\ u \in Run /\ u.pc = "persist" /\ u.alert = a /\ u.now = w.now
      /\ u.todo = w.todo /\ u.snap = w.snap
  BY <1>3, <1>5 DEF Run, Maybe
<1> HIDE DEF u
<1>7. AlertInv(u, rows')
  <2>1. i = 0 /\ Policy[k].reminderMax # None => s.reminders + 1 <= Policy[k].reminderMax
    BY <1>4, PolicyFacts
  <2>2. i > 0 => /\ i <= Policy[k].lastStep
                 /\ run[r].now >= rows[k].firstSeen + Policy[k].steps[i].after
    <3>1. i > 0 => Policy[k].steps[i].after \in Nat
      BY PolicyFacts
    <3>2. QED
      BY <1>2, <1>4, <3>1
  <2> HIDE DEF s
  <2>3. QED
    BY <1>1, <1>3, <1>4, <1>5, <1>6, <2>1, <2>2 DEF AlertInv
<1>8. SnapshotInv(u, rows')
  BY <1>1, <1>3, <1>6 DEF RunInv, SnapshotInv
<1>9. RunInv(u, rows')
  BY <1>6, <1>7, <1>8 DEF RunInv
<1>10. RunsKept
  BY <1>0, <1>1, <1>9, OneRunStep DEF u, a
<1>11. WorldKept
  BY NothingElse DEF Dispatch, IInv, TypeOK
<1>12. QED
  BY <1>1, <1>10, <1>11, Combine

(* A step that only moves a run to another state of its own. *)
LEMMA MoveKept ==
    ASSUME IInv, NEW r \in Runners, NEW u, RunInv(u, rows),
           run' = [run EXCEPT ![r] = u], rows' = rows,
           UNCHANGED <<now, lastFailure, lastRecovery, covered, actions>>,
           faults' \in 0 .. MaxFaults
    PROVE  IInv'
<1>1. RowsKept
  BY NoWrite
<1>2. RunsKept
  BY <1>1, OneRunStep
<1>3. QED
  BY <1>1, <1>2, NothingElse, Combine

(* A run that holds no rows. *)
LEMMA FreshRun ==
    ASSUME NEW u \in Run, u.pc \in {"idle", "ingest"}, u.snap = NoSnapshot,
           u.pc = "idle" => u.todo = {}, NEW R
    PROVE  RunInv(u, R)
<1>1. \A k \in Keys : u.snap[k] = NoRow /\ RowInv(k, NoRow) /\ ~Tracked(NoRow)
  BY NoRowInv DEF NoSnapshot
<1>2. QED
  BY <1>1 DEF RunInv, SnapshotInv, SameSight

(* A run that puts its alert aside, whether or not it wrote it. *)
LEMMA AlertDone ==
    ASSUME NEW u, NEW R, RunInv(u, R), u.pc \in {"persist", "touch"}
    PROVE  RunInv([u EXCEPT !.pc = "evaluate", !.alert = None], R)
<1> DEFINE v == [u EXCEPT !.pc = "evaluate", !.alert = None]
<1>1. v \in Run /\ v.pc = "evaluate" /\ v.todo = u.todo /\ v.snap = u.snap
  BY DEF RunInv, Run, Maybe
<1> HIDE DEF v
<1>2. QED
  BY <1>1 DEF RunInv, SnapshotInv, v

LEMMA RunnerKept ==
    ASSUME IInv, NEW r \in Runners, RunnerStep(r)
    PROVE  IInv'
<1>0. /\ now \in Int /\ run[r] \in Run /\ RunInv(run[r], rows)
      /\ run[r].now \in Int /\ faults \in 0 .. MaxFaults
      /\ \A k \in Keys : RowInv(k, rows[k])
  BY EscalationAssumption DEF IInv, TypeOK, Time, Run
<1>1. CASE StartRun(r)
  <2> DEFINE u == [pc |-> "ingest", now |-> now, todo |-> FailingSince(now),
                   snap |-> NoSnapshot, alert |-> None]
  <2>1. NoSnapshot \in [Keys -> Row]
    BY NoRowInv DEF NoSnapshot, RowInv
  <2>2. u \in Run
    BY <1>0, <2>1 DEF Run, FailingSince, Maybe
  <2>3. RunInv(u, rows)
    BY <2>2, FreshRun
  <2>4. QED
    BY <1>0, <1>1, <2>3, MoveKept DEF StartRun
<1>2. ASSUME NEW k \in Keys, Ingest(r, k) PROVE IInv'
  <2>1. RowInv(k, UpsertOpen(rows[k], now)) /\ SameSight(rows[k], UpsertOpen(rows[k], now))
    BY <1>0, UpsertInv
  <2>2. QED
    BY <1>2, <2>1, WriteAndDone DEF Ingest
<1>3. CASE ListForRecovery(r)
  BY <1>3, ReadKept DEF ListForRecovery
<1>4. ASSUME NEW k \in Keys, AutoResolve(r, k) PROVE IInv'
  <2> DEFINE s == IF Recovered(r, k) THEN Resolved(rows[k], now, "system_resolver") ELSE rows[k]
  <2>1. RowInv(k, s) /\ SameSight(rows[k], s)
    BY <1>0, ResolvedInv DEF SameSight
  <2>2. rows' = [rows EXCEPT ![k] = s]
    BY <1>4 DEF AutoResolve, IInv, TypeOK
  <2> HIDE DEF s
  <2>3. QED
    BY <1>4, <2>1, <2>2, WriteAndDone DEF AutoResolve
<1>5. CASE LoadSnapshot(r)
  BY <1>5, ReadKept DEF LoadSnapshot
<1>6. ASSUME NEW k \in Keys, Suppress(r, k) PROVE IInv'
  <2> DEFINE t == run[r].snap[k].lastSeen
  <2>1. t \in Int
    BY <1>0 DEF RunInv, SnapshotInv, RowInv, Row
  <2>2. RowInv(k, UpsertOpen(rows[k], t)) /\ SameSight(rows[k], UpsertOpen(rows[k], t))
    BY <1>0, <2>1, UpsertInv
  <2>3. QED
    BY <1>6, <2>2, WriteAndDone DEF Suppress, Evaluating
<1>7. ASSUME NEW k \in Keys, DispatchEscalation(r, k) PROVE IInv'
  <2>1. PICK i \in EligibleSteps(run[r].snap[k], Policy[k], run[r].now) : Dispatch(r, k, i)
    BY <1>7 DEF DispatchEscalation
  <2>2. /\ i \in 1 .. Policy[k].lastStep
        /\ run[r].now - run[r].snap[k].firstSeen >= Policy[k].steps[i].after
    BY <2>1 DEF EligibleSteps, StepDue
  <2>3. i \in Nat /\ i > 0 /\ i <= Policy[k].lastStep
    BY <2>2, PolicyFacts
  <2>4. QED
    BY <1>7, <2>1, <2>2, <2>3, DispatchKept DEF DispatchEscalation
<1>8. ASSUME NEW k \in Keys, DispatchReminder(r, k) PROVE IInv'
  BY <1>8, DispatchKept DEF DispatchReminder, ReminderDue
<1>9. ASSUME NEW k \in Keys, Touch(r, k) PROVE IInv'
  <2> DEFINE s == UpsertOpen(rows[k], run[r].snap[k].lastSeen)
             w == Without(run[r], k)
             u == [w EXCEPT !.pc = "touch", !.alert = NoAlert(k)]
  <2>1. run[r].pc = "evaluate" /\ run[r].snap[k].lastSeen \in Int
    BY <1>0, <1>9 DEF Touch, Evaluating, RunInv, SnapshotInv, RowInv, Row
  <2>2. RowInv(k, s) /\ Tracked(s) /\ SameSight(rows[k], s)
    BY <1>0, <2>1, UpsertInv
  <2>3. rows' = [rows EXCEPT ![k] = s] /\ run' = [run EXCEPT ![r] = u]
    BY <1>9 DEF Touch
  <2> HIDE DEF s
  <2>4. RowsKept /\ Tracked(rows'[k])
    BY <2>2, <2>3, WriteOne DEF IInv, TypeOK
  <2>5. RunInv(w, rows')
    BY <1>0, <2>1, <2>4, RunKept, WithoutKept DEF RowsKept
  <2> HIDE DEF w
  <2>6. NoAlert(k) \in Alert /\ NoAlert(k).key = k
    BY DEF NoAlert, Alert
  <2>7. /\ u \in Run /\ u.pc = "touch" /\ u.alert = NoAlert(k)
        /\ u.todo = w.todo /\ u.snap = w.snap
    BY <2>5, <2>6 DEF RunInv, Run, Maybe
  <2>8. w.pc = "evaluate"
    BY <1>0, <2>1 DEF w, Without, Run
  <2> HIDE DEF u
  <2>9. RunInv(u, rows')
    BY <2>4, <2>5, <2>6, <2>7, <2>8 DEF RunInv, SnapshotInv
  <2>10. RunsKept
    BY <2>3, <2>4, <2>9, OneRunStep
  <2>11. WorldKept
    BY <1>0, <1>9, NothingElse DEF Touch
  <2>12. QED
    BY <2>4, <2>10, <2>11, Combine
<1>10. CASE Persist(r)
  <2> DEFINE a == run[r].alert
             k == a.key
             s == Persisted(rows[k], a, run[r].now)
             u == [run[r] EXCEPT !.pc = "evaluate", !.alert = None]
  <2>1. run[r].pc = "persist" /\ AlertInv(run[r], rows) /\ a \in Alert /\ k \in Keys
    BY <1>0, <1>10 DEF Persist, RunInv, AlertInv, Alert
  <2>2. RowInv(k, s) /\ SameSight(rows[k], s)
    BY <1>0, <2>1, PersistedInv DEF AlertInv
  <2>3. rows' = [rows EXCEPT ![k] = s] /\ run' = [run EXCEPT ![r] = u]
    BY <1>10 DEF Persist
  <2> HIDE DEF s
  <2>4. RowsKept
    BY <2>1, <2>2, <2>3, WriteOne
  <2>5. RunInv(run[r], rows')
    BY <1>0, <2>4, RunKept DEF RowsKept
  <2>6. RunInv(u, rows')
    BY <2>1, <2>5, AlertDone
  <2>7. RunsKept
    BY <2>3, <2>4, <2>6, OneRunStep
  <2>8. WorldKept
    BY <1>0, <1>10, NothingElse DEF Persist
  <2>9. QED
    BY <2>4, <2>7, <2>8, Combine
<1>11. CASE TouchLastSeen(r)
  <2> DEFINE k == run[r].alert.key
             s == [rows[k] EXCEPT !.lastSeen = now]
             u == [run[r] EXCEPT !.pc = "evaluate", !.alert = None]
  <2>1. run[r].pc = "touch" /\ k \in Keys /\ Tracked(rows[k])
    BY <1>0, <1>11 DEF TouchLastSeen, RunInv, Alert
  <2>2. rows[k] \in Row /\ RowInv(k, rows[k])
    BY <1>0, <2>1 DEF RowInv
  <2>3. /\ s \in Row /\ s.status = rows[k].status /\ s.reminders = rows[k].reminders
        /\ s.level = rows[k].level /\ s.firstSeen = rows[k].firstSeen
        /\ s.resolvedAt = rows[k].resolvedAt /\ s.acked = rows[k].acked
        /\ s.silencedUntil = rows[k].silencedUntil /\ s.lastEscalated = rows[k].lastEscalated
    BY <1>0, <2>2 DEF Row
  <2>4. rows' = [rows EXCEPT ![k] = s] /\ run' = [run EXCEPT ![r] = u]
    BY <1>11 DEF TouchLastSeen
  <2> HIDE DEF s, k
  <2>5. RowAgrees(s) /\ s.status # "untracked"
    BY <2>1, <2>2, <2>3, Zenon DEF RowInv, RowAgrees, Tracked
  <2>6. RowInv(k, s) /\ SameSight(rows[k], s)
    BY <2>1, <2>2, <2>3, <2>5, StatusWriteInv
  <2>7. RowsKept
    BY <2>1, <2>4, <2>6, WriteOne
  <2>8. RunInv(run[r], rows')
    BY <1>0, <2>7, RunKept DEF RowsKept
  <2>9. RunInv(u, rows')
    BY <2>1, <2>8, AlertDone
  <2>10. RunsKept
    BY <2>4, <2>7, <2>9, OneRunStep
  <2>11. WorldKept
    BY <1>0, <1>11, NothingElse DEF TouchLastSeen
  <2>12. QED
    BY <2>7, <2>10, <2>11, Combine
<1>12. CASE FinishRun(r)
  <2> DEFINE u == [run[r] EXCEPT !.pc = "idle"]
  <2>1. u \in Run /\ u.pc = "idle" /\ u.todo = {} /\ u.snap = run[r].snap
    BY <1>0, <1>12 DEF FinishRun, Run
  <2>2. run' = [run EXCEPT ![r] = u]
    BY <1>12 DEF FinishRun
  <2> HIDE DEF u
  <2>3. RunInv(u, rows)
    BY <1>0, <2>1 DEF RunInv, SnapshotInv
  <2>4. QED
    BY <1>0, <1>12, <2>2, <2>3, MoveKept DEF FinishRun
<1>13. QED
  BY <1>1, <1>2, <1>3, <1>4, <1>5, <1>6, <1>7, <1>8, <1>9, <1>10, <1>11, <1>12 DEF RunnerStep

LEMMA FaultKept ==
    ASSUME IInv, NEW r \in Runners, StepFails(r) \/ RunnerCrashes(r)
    PROVE  IInv'
<1>0. /\ run[r] \in Run /\ RunInv(run[r], rows)
      /\ rows' = rows /\ faults' \in 0 .. MaxFaults
      /\ UNCHANGED <<now, lastFailure, lastRecovery, covered, actions>>
  BY EscalationAssumption DEF IInv, TypeOK, StepFails, RunnerCrashes
<1>1. ASSUME NEW k \in Keys, run[r].pc \in {"ingest", "evaluate"}, DoneWith(r, k)
      PROVE  IInv'
  <2>1. RunInv(Without(run[r], k), rows)
    BY <1>0, <1>1, WithoutKept
  <2>2. QED
    BY <1>0, <1>1, <2>1, MoveKept DEF DoneWith
<1>2. CASE run[r].pc \in {"persist", "touch"}
           /\ run' = [run EXCEPT ![r].pc = "evaluate", ![r].alert = None]
  <2> DEFINE u == [run[r] EXCEPT !.pc = "evaluate", !.alert = None]
  <2>1. RunInv(u, rows)
    BY <1>0, <1>2, AlertDone
  <2>2. run' = [run EXCEPT ![r] = u]
    BY <1>2
  <2>3. QED
    BY <1>0, <2>1, <2>2, MoveKept
<1>3. CASE RunnerCrashes(r)
  <2> DEFINE u == [run[r] EXCEPT !.pc = "idle", !.todo = {}, !.snap = NoSnapshot, !.alert = None]
  <2>1. NoSnapshot \in [Keys -> Row]
    BY NoRowInv DEF NoSnapshot, RowInv
  <2>2. u \in Run /\ u.pc = "idle" /\ u.todo = {} /\ u.snap = NoSnapshot
    BY <1>0, <2>1 DEF Run, Maybe
  <2>3. run' = [run EXCEPT ![r] = u]
    BY <1>3 DEF RunnerCrashes
  <2> HIDE DEF u
  <2>4. RunInv(u, rows)
    BY <2>2, FreshRun
  <2>5. QED
    BY <1>0, <2>3, <2>4, MoveKept
<1>4. CASE StepFails(r)
  <2>1. CASE /\ run[r].pc \in {"ingest", "evaluate"}
             /\ \E k \in run[r].todo : DoneWith(r, k)
    BY <1>0, <1>1, <2>1 DEF Run
  <2>2. QED
    BY <1>2, <1>4, <2>1 DEF StepFails
<1>5. QED
  BY <1>3, <1>4

-----------------------------------------------------------------------------
(* The inductive invariant, and what it implies. *)

LEMMA InitIInv == Init => IInv
<1> SUFFICES ASSUME Init PROVE IInv
  OBVIOUS
<1>1. NoSnapshot \in [Keys -> Row] /\ \A k \in Keys : RowInv(k, NoSnapshot[k])
  BY NoRowInv DEF NoSnapshot, RowInv
<1> DEFINE u == [pc |-> "idle", now |-> 0, todo |-> {}, snap |-> NoSnapshot, alert |-> None]
<1>2. u \in Run
  BY <1>1 DEF Run, Maybe
<1>3. RunInv(u, rows)
  BY <1>2, FreshRun
<1>4. TypeOK
  BY <1>1, <1>2, EscalationAssumption DEF Init, TypeOK, Time, Maybe
<1>5. QED
  BY <1>1, <1>3, <1>4 DEF Init, IInv

LEMMA NextIInv == IInv /\ [Next]_vars => IInv'
<1> SUFFICES ASSUME IInv, [Next]_vars PROVE IInv'
  OBVIOUS
<1>1. CASE UNCHANGED vars
  <2>1. RowsKept /\ RunsKept /\ WorldKept
    BY <1>1, NoWrite, NoRunStep, NothingElse DEF vars, IInv, TypeOK
  <2>2. QED
    BY <2>1, Combine
<1>2. CASE Tick
  <2>1. rows' = rows /\ run' = run
    BY <1>2 DEF Tick
  <2>2. RowsKept /\ RunsKept
    BY <2>1, NoWrite, NoRunStep
  <2>3. WorldKept
    BY <1>2, EscalationAssumption DEF Tick, IInv, TypeOK, Time, WorldKept
  <2>4. QED
    BY <2>2, <2>3, Combine
<1>3. ASSUME NEW k \in Keys, LogFailure(k) \/ LogRecovery(k) \/ MaintenanceChanges(k)
      PROVE  IInv'
  BY <1>3, WorldStep
<1>4. ASSUME NEW k \in Keys, Operator(k) PROVE IInv'
  BY <1>4, OperatorStep
<1>5. ASSUME NEW r \in Runners, RunnerStep(r) PROVE IInv'
  BY <1>5, RunnerKept
<1>6. ASSUME NEW r \in Runners, StepFails(r) \/ RunnerCrashes(r) PROVE IInv'
  BY <1>6, FaultKept
<1>7. QED
  BY <1>1, <1>2, <1>3, <1>4, <1>5, <1>6 DEF Next

(* The invariant holds in every reachable state. *)
THEOREM Invariant == Spec => []IInv
  BY InitIInv, NextIInv, PTL DEF Spec

(***************************************************************************)
(* Every variable keeps its type, so no counter of a row becomes NULL.     *)
(***************************************************************************)
THEOREM TypeCorrect == Spec => []TypeOK
<1>1. IInv => TypeOK
  BY DEF IInv
<1>2. QED
  BY <1>1, Invariant, PTL

(***************************************************************************)
(* The status column agrees with the columns it summarises, whatever the   *)
(* order in which operators and any number of batches write them.          *)
(***************************************************************************)
THEOREM StatusAlwaysAgrees == Spec => []StatusAgrees
<1>1. IInv => StatusAgrees
  BY DEF IInv, RowInv, RowAgrees, StatusAgrees
<1>2. QED
  BY <1>1, Invariant, PTL

(***************************************************************************)
(* reminder_max_count bounds the stored count, with any number of batches. *)
(***************************************************************************)
THEOREM RemindersCapped == Spec => []ReminderCap
<1>1. IInv => ReminderCap
  BY DEF IInv, RowInv, RowCapped, ReminderCap
<1>2. QED
  BY <1>1, Invariant, PTL

(***************************************************************************)
(* No row is at a level whose after_seconds had not passed when it was     *)
(* escalated, with any number of batches and in spite of stale snapshots.  *)
(***************************************************************************)
THEOREM EscalationsEarned == Spec => []EscalationEarned
<1>1. IInv => EscalationEarned
  BY DEF IInv, RowInv, RowEarned, EscalationEarned
<1>2. QED
  BY <1>1, Invariant, PTL
-----------------------------------------------------------------------------
(***************************************************************************)
(* One batch at a time, which is so while nobody starts a batch by hand    *)
(* next to the scheduled one.  Then what a batch read is what it finds     *)
(* when it writes, but for what operators wrote in between.                *)
(***************************************************************************)
OneRunner == \A r, q \in Runners : r = q

(* What a row u has become of a row s while only operators wrote it. *)
OnlyEased(s, u) ==
    /\ u.lastSeen = s.lastSeen
    /\ u.firstSeen = s.firstSeen
    /\ u.lastNotified = s.lastNotified
    /\ u.lastEscalated = s.lastEscalated
    /\ u.level <= s.level
    /\ u.reminders <= s.reminders

(* An alert that is still due for the row it will be written into. *)
StillDue(a, s, t) ==
    /\ a.level > 0 =>
        /\ s.level < a.level
        /\ s.lastEscalated # None =>
              t - s.lastEscalated >= Policy[a.key].steps[a.level].cooldown
    /\ a.level = 0 => t - ReminderBase(s) >= Policy[a.key].reminderInterval

(* What the only batch knows of the table. *)
UpToDate(u, R) ==
    /\ u.pc \in {"recover", "evaluate", "persist", "touch"} =>
          \A k \in u.todo : OnlyEased(u.snap[k], R[k])
    /\ u.pc = "persist" =>
          /\ u.alert.key \notin u.todo
          /\ StillDue(u.alert, R[u.alert.key], u.now)
    /\ u.pc = "touch" =>
          /\ u.alert.key \notin u.todo
          /\ R[u.alert.key].resolvedBy # "system_resolver"

(* What a row's columns owe to the clock t and to each other. *)
RowDated(s, t) ==
    /\ s.lastSeen <= t
    /\ ~Tracked(s) => s = NoRow
    /\ s.resolvedBy # None => s.resolvedAt # None

EscalatedBy(s, t) == s.lastEscalated # None => s.lastEscalated <= t

(* The inductive invariant of a single batch. *)
SInv ==
    /\ IInv
    /\ SystemCloseJustified
    /\ \A k \in Keys : /\ RowDated(rows[k], now)
                       /\ lastRecovery[k] # None => lastRecovery[k] <= now
    /\ \A r \in Runners : /\ run[r].now <= now
                          /\ UpToDate(run[r], rows)
                          /\ \A k \in Keys : EscalatedBy(rows[k], run[r].now)

(* What a step may do to a row: the bodies of the action properties. *)
Proper(k, s, u) ==
    /\ u.level < s.level => u.level = 0 /\ u.status = "open" /\ u.resolvedAt = None
    /\ u.lastEscalated # s.lastEscalated /\ s.lastEscalated # None =>
          u.lastEscalated - s.lastEscalated >= Policy[k].steps[u.level].cooldown
    /\ u.reminders > s.reminders =>
          u.lastNotified - ReminderBase(s) >= Policy[k].reminderInterval
    /\ u.lastSeen >= s.lastSeen

ProperStep == \A k \in Keys : Proper(k, rows[k], rows'[k])

(* All that a row u must satisfy to be written for key k. *)
MayWrite(k, u) ==
    /\ u \in Row
    /\ Tracked(u)
    /\ RowDated(u, now)
    /\ \A r \in Runners : EscalatedBy(u, run[r].now)
    /\ u.resolvedBy = "system_resolver" => RecoveredSince(k, u.lastSeen)
    /\ Proper(k, rows[k], u)

LEMMA SInvTypes ==
    ASSUME SInv
    PROVE  /\ None \notin Int
           /\ now \in Int
           /\ rows \in [Keys -> Row]
           /\ lastRecovery \in [Keys -> Int \cup {None}]
           /\ run \in [Runners -> Run]
           /\ \A r \in Runners : run[r].now \in Int
  BY EscalationAssumption DEF SInv, IInv, TypeOK, Time, Maybe, Run

LEMMA RowTypes ==
    ASSUME NEW s \in Row
    PROVE  /\ s.reminders \in Nat /\ s.level \in Nat
           /\ s.firstSeen \in Int /\ s.lastSeen \in Int
           /\ s.lastNotified \in Int \cup {None}
           /\ s.lastEscalated \in Int \cup {None}
           /\ s.resolvedAt \in Int \cup {None}
  BY DEF Row, Maybe

LEMMA SameRowProper ==
    ASSUME NEW k \in Keys, NEW s \in Row PROVE Proper(k, s, s) /\ OnlyEased(s, s)
  BY RowTypes DEF Proper, OnlyEased

(* What the writers of a row leave alone. *)
SameTimes(s, u) ==
    /\ u.firstSeen = s.firstSeen /\ u.lastSeen = s.lastSeen
    /\ u.lastNotified = s.lastNotified /\ u.lastEscalated = s.lastEscalated

LEMMA SameTimesEased ==
    ASSUME NEW s \in Row, NEW u \in Row, SameTimes(s, u),
           \/ u.level = s.level /\ u.reminders = s.reminders
           \/ u.level = 0 /\ u.reminders = 0
    PROVE  OnlyEased(s, u)
  BY RowTypes DEF SameTimes, OnlyEased

LEMMA ReopenedWrites ==
    ASSUME NEW s \in Row
    PROVE  LET u == Reopened(s) IN
           /\ u \in Row /\ SameTimes(s, u) /\ OnlyEased(s, u)
           /\ u.status = "open" /\ u.level = 0
           /\ u.resolvedBy = None /\ u.resolvedAt = None
<1> DEFINE u == Reopened(s)
<1>1. /\ u \in Row /\ u.status = "open" /\ u.level = 0 /\ u.reminders = 0
      /\ u.resolvedBy = None /\ u.resolvedAt = None
      /\ u.firstSeen = s.firstSeen /\ u.lastSeen = s.lastSeen
      /\ u.lastNotified = s.lastNotified /\ u.lastEscalated = s.lastEscalated
  BY DEF Reopened, Row, Status, Maybe
<1> HIDE DEF u
<1>2. QED
  BY <1>1, SameTimesEased DEF u, SameTimes

LEMMA ResolvedWrites ==
    ASSUME NEW s \in Row, NEW t \in Int, NEW who \in {"operator", "system_resolver"}
    PROVE  LET u == Resolved(s, t, who) IN
           /\ u \in Row /\ SameTimes(s, u) /\ OnlyEased(s, u)
           /\ u.status = "resolved" /\ u.level = s.level
           /\ u.resolvedBy = who /\ u.resolvedAt = t
<1> DEFINE u == Resolved(s, t, who)
<1>1. /\ u \in Row /\ u.status = "resolved" /\ u.level = s.level /\ u.reminders = s.reminders
      /\ u.resolvedBy = who /\ u.resolvedAt = t
      /\ u.firstSeen = s.firstSeen /\ u.lastSeen = s.lastSeen
      /\ u.lastNotified = s.lastNotified /\ u.lastEscalated = s.lastEscalated
  BY DEF Resolved, Row, Status, Maybe
<1> HIDE DEF u
<1>2. QED
  BY <1>1, SameTimesEased DEF u, SameTimes

LEMMA PersistedWrites ==
    ASSUME NEW s \in Row, NEW a, a.level \in Nat, a.count \in Nat, NEW t \in Int
    PROVE  LET u == Persisted(s, a, t) IN
           /\ u \in Row /\ u.lastSeen = s.lastSeen /\ u.lastNotified = t
           /\ u.resolvedAt = s.resolvedAt /\ u.resolvedBy = s.resolvedBy
           /\ a.level = 0 => /\ u.level = s.level /\ u.lastEscalated = s.lastEscalated
                             /\ u.status = s.status
           /\ a.level > 0 => /\ u.level = a.level /\ u.lastEscalated = t
                             /\ u.status = "escalated" /\ u.reminders = s.reminders
<1> DEFINE u == Persisted(s, a, t)
<1>1. CASE a.level = 0
  <2>1. /\ u \in Row /\ u.lastSeen = s.lastSeen /\ u.lastNotified = t
        /\ u.resolvedAt = s.resolvedAt /\ u.resolvedBy = s.resolvedBy
        /\ u.level = s.level /\ u.lastEscalated = s.lastEscalated /\ u.status = s.status
    BY <1>1 DEF Persisted, Row, Maybe
  <2> HIDE DEF u
  <2>2. QED
    BY <1>1, <2>1 DEF u
<1>2. CASE a.level > 0
  <2>1. u = [s EXCEPT !.level = a.level, !.status = "escalated",
                      !.lastEscalated = t, !.lastNotified = t]
    BY <1>2 DEF Persisted
  <2> HIDE DEF u
  <2>2. /\ u \in Row /\ u.lastSeen = s.lastSeen /\ u.lastNotified = t
        /\ u.resolvedAt = s.resolvedAt /\ u.resolvedBy = s.resolvedBy
        /\ u.level = a.level /\ u.lastEscalated = t
        /\ u.status = "escalated" /\ u.reminders = s.reminders
    BY <2>1 DEF Row, Status, Maybe
  <2>3. QED
    BY <1>2, <2>2 DEF u
<1>3. QED
  BY <1>1, <1>2

(* A step of something else than the table. *)
LEMMA NoWriteProper ==
    ASSUME SInv, IInv', rows' = rows, now <= now',
           \A k \in Keys :
               /\ lastRecovery'[k] # None => lastRecovery'[k] <= now'
               /\ lastRecovery[k] # None =>
                     lastRecovery'[k] # None /\ lastRecovery'[k] >= lastRecovery[k],
           \A r \in Runners : /\ run[r].now <= run'[r].now /\ run'[r].now <= now'
                              /\ run'[r].now \in Int
                              /\ UpToDate(run'[r], rows')
    PROVE  SInv' /\ ProperStep
<1>1. now' \in Int /\ lastRecovery' \in [Keys -> Int \cup {None}]
  BY EscalationAssumption DEF IInv, TypeOK, Time, Maybe
<1>2. \A k \in Keys : /\ rows[k] \in Row
                      /\ rows[k].lastSeen \in Int
                      /\ rows[k].lastEscalated \in Int \cup {None}
  BY SInvTypes, RowTypes
<1>3. SystemCloseJustified'
  <2> SUFFICES ASSUME NEW k \in Keys, rows[k].resolvedBy = "system_resolver"
               PROVE  RecoveredSince(k, rows[k].lastSeen)'
    BY DEF SystemCloseJustified
  <2>1. PICK j \in Keys : /\ JobOf[j] = JobOf[k] /\ lastRecovery[j] # None
                          /\ lastRecovery[j] > rows[k].lastSeen
    BY DEF SInv, SystemCloseJustified, RecoveredSince
  <2>2. lastRecovery'[j] # None /\ lastRecovery'[j] > rows'[k].lastSeen
    BY <1>1, <1>2, <2>1, SInvTypes
  <2>3. QED
    BY <2>1, <2>2 DEF RecoveredSince
<1>4. \A k \in Keys : RowDated(rows'[k], now')
  BY <1>1, <1>2, SInvTypes DEF SInv, RowDated
<1>5. \A r \in Runners, k \in Keys : EscalatedBy(rows'[k], run'[r].now)
  BY <1>2, SInvTypes DEF SInv, EscalatedBy
<1>6. ProperStep
  BY <1>2, SameRowProper DEF ProperStep
<1>7. QED
  BY <1>3, <1>4, <1>5, <1>6 DEF SInv

(* A step that writes one row. *)
LEMMA WriteProper ==
    ASSUME SInv, IInv', NEW k \in Keys, NEW u, MayWrite(k, u),
           rows' = [rows EXCEPT ![k] = u],
           UNCHANGED <<now, lastRecovery>>,
           \A r \in Runners : run'[r].now = run[r].now /\ UpToDate(run'[r], rows')
    PROVE  SInv' /\ ProperStep
<1>1. /\ rows'[k] = u /\ \A j \in Keys \ {k} : rows'[j] = rows[j]
      /\ \A j \in Keys : rows[j] \in Row
  BY SInvTypes
<1>2. SystemCloseJustified'
  <2>1. ASSUME NEW j \in Keys, rows'[j].resolvedBy = "system_resolver"
        PROVE  RecoveredSince(j, rows'[j].lastSeen)
    BY <1>1, <2>1 DEF SInv, SystemCloseJustified, MayWrite
  <2>2. QED
    BY <2>1 DEF SystemCloseJustified, RecoveredSince
<1>3. \A j \in Keys : RowDated(rows'[j], now)
  BY <1>1 DEF SInv, MayWrite
<1>4. \A r \in Runners, j \in Keys : EscalatedBy(rows'[j], run[r].now)
  BY <1>1 DEF SInv, MayWrite
<1>5. ProperStep
  BY <1>1, SameRowProper DEF ProperStep, MayWrite
<1>6. QED
  BY <1>2, <1>3, <1>4, <1>5 DEF SInv

(* Writes of others leave a batch up to date if they only ease. *)
LEMMA EasedUpToDate ==
    ASSUME NEW v, NEW R, NEW Q, RunInv(v, R), UpToDate(v, R),
           R \in [Keys -> Row], Q \in [Keys -> Row],
           \A j \in Keys : OnlyEased(R[j], Q[j]),
           \A j \in Keys : Q[j].resolvedBy = "system_resolver" =>
                                R[j].resolvedBy = "system_resolver"
    PROVE  UpToDate(v, Q)
<1>0. v.todo \subseteq Keys /\ v.snap \in [Keys -> Row]
      /\ \A j \in Keys : v.snap[j] \in Row /\ R[j] \in Row /\ Q[j] \in Row
  BY DEF RunInv, Run
<1>1. ASSUME NEW j \in v.todo, OnlyEased(v.snap[j], R[j])
      PROVE  OnlyEased(v.snap[j], Q[j])
  BY <1>0, <1>1, RowTypes DEF OnlyEased
<1>2. ASSUME v.pc = "persist"
      PROVE  StillDue(v.alert, Q[v.alert.key], v.now)
  <2> DEFINE a == v.alert
  <2>1. a.level \in Nat /\ a.key \in Keys /\ StillDue(a, R[a.key], v.now)
    BY <1>2 DEF UpToDate, RunInv, AlertInv, Alert
  <2>2. OnlyEased(R[a.key], Q[a.key])
    BY <2>1
  <2>3. ReminderBase(Q[a.key]) = ReminderBase(R[a.key])
    BY <2>2 DEF OnlyEased, ReminderBase
  <2>4. Q[a.key].level \in Nat /\ R[a.key].level \in Nat
    BY <1>0, <2>1, RowTypes
  <2>5. QED
    BY <2>1, <2>2, <2>3, <2>4 DEF StillDue, OnlyEased
<1>3. v.pc = "touch" => v.alert.key \in Keys
  BY DEF RunInv, Alert
<1>4. QED
  BY <1>1, <1>2, <1>3 DEF UpToDate

(* An operator's write eases, and closes nothing for the system. *)
LEMMA OperatorProper ==
    ASSUME SInv, IInv', NEW k \in Keys, Operator(k)
    PROVE  SInv' /\ ProperStep
<1> DEFINE s == rows[k]
<1>0. s \in Row /\ now \in Int /\ None \notin Int
  BY SInvTypes
<1>1. ASSUME NEW u \in Row, OperatorWrites(k, u), OnlyEased(s, u), u.status # "untracked",
             u.level < s.level => u.level = 0 /\ u.status = "open" /\ u.resolvedAt = None,
             u.resolvedBy # None => u.resolvedAt # None,
             u.resolvedBy = "system_resolver" => s.resolvedBy = "system_resolver"
      PROVE  SInv' /\ ProperStep
  <2>1. MayWrite(k, u)
    <3>1. RowDated(u, now)
      BY <1>1 DEF SInv, RowDated, OnlyEased, Tracked
    <3>2. \A r \in Runners : EscalatedBy(u, run[r].now)
      BY <1>1 DEF SInv, EscalatedBy, OnlyEased
    <3>3. u.resolvedBy = "system_resolver" => RecoveredSince(k, u.lastSeen)
      BY <1>1 DEF SInv, SystemCloseJustified, OnlyEased
    <3>4. Proper(k, s, u)
      BY <1>0, <1>1, RowTypes DEF Proper, OnlyEased
    <3>5. QED
      BY <1>1, <3>1, <3>2, <3>3, <3>4 DEF MayWrite, Tracked
  <2>2. rows' = [rows EXCEPT ![k] = u] /\ UNCHANGED <<now, lastRecovery, run>>
    BY <1>1 DEF OperatorWrites
  <2>3. \A j \in Keys : OnlyEased(rows[j], rows'[j])
    BY <1>1, <2>2, SInvTypes, SameRowProper
  <2>4. rows' \in [Keys -> Row]
    BY <1>1, <2>2, SInvTypes
  <2>5. \A j \in Keys : rows'[j].resolvedBy = "system_resolver" =>
                             rows[j].resolvedBy = "system_resolver"
    BY <1>1, <2>2, SInvTypes
  <2>6. \A r \in Runners : UpToDate(run[r], rows')
    BY <2>3, <2>4, <2>5, SInvTypes, EasedUpToDate DEF SInv, IInv
  <2>7. QED
    BY <2>1, <2>2, <2>6, WriteProper
<1>2. CASE Acknowledge(k)
  <2> DEFINE u == [s EXCEPT !.status = "acknowledged", !.acked = TRUE]
  <2>1. /\ u \in Row /\ u.status = "acknowledged"
        /\ u.level = s.level /\ u.reminders = s.reminders
        /\ u.firstSeen = s.firstSeen /\ u.lastSeen = s.lastSeen
        /\ u.lastNotified = s.lastNotified /\ u.lastEscalated = s.lastEscalated
        /\ u.resolvedBy = s.resolvedBy /\ u.resolvedAt = s.resolvedAt
    BY <1>0 DEF Row, Status, Maybe
  <2>2. OperatorWrites(k, u)
    BY <1>2 DEF Acknowledge
  <2> HIDE DEF u
  <2>3. OnlyEased(s, u)
    BY <1>0, <2>1, SameTimesEased DEF SameTimes
  <2>4. QED
    BY <1>0, <1>1, <2>1, <2>2, <2>3, RowTypes DEF SInv, RowDated
<1>3. ASSUME NEW d \in SilenceFor, Silence(k, d) PROVE SInv' /\ ProperStep
  <2> DEFINE u == [s EXCEPT !.status = "silenced", !.silencedUntil = now + d]
  <2>0. now + d \in Int
    BY <1>0, <1>3, EscalationAssumption
  <2>1. /\ u \in Row /\ u.status = "silenced"
        /\ u.level = s.level /\ u.reminders = s.reminders
        /\ u.firstSeen = s.firstSeen /\ u.lastSeen = s.lastSeen
        /\ u.lastNotified = s.lastNotified /\ u.lastEscalated = s.lastEscalated
        /\ u.resolvedBy = s.resolvedBy /\ u.resolvedAt = s.resolvedAt
    BY <1>0, <2>0 DEF Row, Status, Maybe
  <2>2. OperatorWrites(k, u)
    BY <1>3 DEF Silence
  <2> HIDE DEF u
  <2>3. OnlyEased(s, u)
    BY <1>0, <2>1, SameTimesEased DEF SameTimes
  <2>4. QED
    BY <1>0, <1>1, <2>1, <2>2, <2>3, RowTypes DEF SInv, RowDated
<1>4. CASE ClearSilence(k)
  <2> DEFINE u == [s EXCEPT !.status = "open", !.silencedUntil = None]
  <2>1. /\ u \in Row /\ u.status = "open"
        /\ u.level = s.level /\ u.reminders = s.reminders
        /\ u.firstSeen = s.firstSeen /\ u.lastSeen = s.lastSeen
        /\ u.lastNotified = s.lastNotified /\ u.lastEscalated = s.lastEscalated
        /\ u.resolvedBy = s.resolvedBy /\ u.resolvedAt = s.resolvedAt
    BY <1>0 DEF Row, Status, Maybe
  <2>2. OperatorWrites(k, u)
    BY <1>4 DEF ClearSilence
  <2> HIDE DEF u
  <2>3. OnlyEased(s, u)
    BY <1>0, <2>1, SameTimesEased DEF SameTimes
  <2>4. QED
    BY <1>0, <1>1, <2>1, <2>2, <2>3, RowTypes DEF SInv, RowDated
<1>5. CASE Resolve(k)
  <2> DEFINE u == Resolved(s, now, "operator")
  <2>1. /\ u \in Row /\ OnlyEased(s, u) /\ u.status = "resolved" /\ u.level = s.level
        /\ u.resolvedBy = "operator" /\ u.resolvedAt = now
    BY <1>0, ResolvedWrites
  <2>2. OperatorWrites(k, u)
    BY <1>5 DEF Resolve
  <2> HIDE DEF u
  <2>3. QED
    BY <1>0, <1>1, <2>1, <2>2, RowTypes
<1>6. CASE Reopen(k)
  <2> DEFINE u == Reopened(s)
  <2>1. /\ u \in Row /\ OnlyEased(s, u) /\ u.status = "open" /\ u.level = 0
        /\ u.resolvedBy = None /\ u.resolvedAt = None
    BY <1>0, ReopenedWrites
  <2>2. OperatorWrites(k, u)
    BY <1>6 DEF Reopen
  <2> HIDE DEF u
  <2>3. None # "system_resolver"
    BY EscalationAssumption
  <2>4. QED
    BY <1>0, <1>1, <2>1, <2>2, <2>3
<1>7. QED
  BY <1>2, <1>3, <1>4, <1>5, <1>6 DEF Operator, Console, Cli

(* The writes of the only batch.  Another run would be the same run. *)
LEMMA RunnerWriteProper ==
    ASSUME OneRunner, SInv, IInv', NEW r \in Runners, NEW k \in Keys, NEW u, MayWrite(k, u),
           run[r].pc \notin {"persist", "touch"}, DoneWith(r, k),
           rows' = [rows EXCEPT ![k] = u],
           UNCHANGED <<now, lastRecovery>>
    PROVE  SInv' /\ ProperStep
<1> DEFINE v == Without(run[r], k)
<1>0. run[r] \in Run /\ run \in [Runners -> Run] /\ rows \in [Keys -> Row]
      /\ run[r].todo \subseteq Keys /\ run[r].snap \in [Keys -> Row]
  BY SInvTypes DEF Run
<1>1. /\ v.pc = run[r].pc /\ v.now = run[r].now /\ v.todo = run[r].todo \ {k}
      /\ \A j \in Keys \ {k} : v.snap[j] = run[r].snap[j]
  BY <1>0 DEF Without, Run
<1> HIDE DEF v
<1>2. UpToDate(v, rows')
  <2>1. \A j \in v.todo : /\ j \in Keys \ {k} /\ j \in run[r].todo
                          /\ rows'[j] = rows[j] /\ v.snap[j] = run[r].snap[j]
    BY <1>0, <1>1
  <2>2. UpToDate(run[r], rows)
    BY DEF SInv
  <2>3. QED
    BY <1>1, <2>1, <2>2 DEF UpToDate
<1>3. \A q \in Runners : run'[q] = v
  BY <1>0 DEF DoneWith, OneRunner, v
<1>4. \A q \in Runners : run'[q].now = run[q].now /\ UpToDate(run'[q], rows')
  BY <1>1, <1>2, <1>3 DEF OneRunner
<1>5. QED
  BY <1>4, WriteProper

(* A step of the only batch that writes no row. *)
LEMMA RunnerMoveProper ==
    ASSUME OneRunner, SInv, IInv', NEW r \in Runners, NEW v \in Run, UpToDate(v, rows),
           run[r].now <= v.now, v.now <= now,
           run' = [run EXCEPT ![r] = v],
           UNCHANGED <<now, lastRecovery, rows>>
    PROVE  SInv' /\ ProperStep
<1>1. \A q \in Runners : run'[q] = v /\ run[q] = run[r] /\ v.now \in Int
  BY SInvTypes DEF OneRunner, Run
<1>2. \A k \in Keys : lastRecovery[k] # None => lastRecovery[k] <= now /\ lastRecovery[k] >= lastRecovery[k]
  BY SInvTypes DEF SInv
<1>3. now <= now
  BY SInvTypes
<1>4. QED
  BY <1>1, <1>2, <1>3, NoWriteProper

(* Dropping a key from the work of a run that is between two alerts. *)
LEMMA WithoutUpToDate ==
    ASSUME SInv, NEW r \in Runners, NEW k \in Keys, run[r].pc \notin {"persist", "touch"}
    PROVE  LET v == Without(run[r], k) IN
           /\ v \in Run /\ v.pc = run[r].pc /\ v.now = run[r].now
           /\ v.todo = run[r].todo \ {k}
           /\ \A j \in Keys \ {k} : v.snap[j] = run[r].snap[j]
           /\ UpToDate(v, rows)
<1> DEFINE v == Without(run[r], k)
<1>0. run[r] \in Run /\ run[r].todo \subseteq Keys /\ run[r].snap \in [Keys -> Row]
  BY SInvTypes DEF Run
<1>1. RunInv(v, rows) /\ v.pc = run[r].pc /\ v.now = run[r].now
  BY WithoutKept DEF SInv, IInv
<1>2. v.todo = run[r].todo \ {k} /\ \A j \in Keys \ {k} : v.snap[j] = run[r].snap[j]
  BY <1>0 DEF Without, Run
<1> HIDE DEF v
<1>3. UpToDate(run[r], rows)
  BY DEF SInv
<1>4. UpToDate(v, rows)
  BY <1>0, <1>1, <1>2, <1>3 DEF UpToDate
<1>5. QED
  BY <1>1, <1>2, <1>4 DEF v, RunInv

(* The row that an upsert as of time t makes of what a key has. *)
LEMMA UpsertMayWrite ==
    ASSUME SInv, NEW k \in Keys, NEW t \in Int, rows[k].lastSeen <= t, t <= now
    PROVE  /\ MayWrite(k, UpsertOpen(rows[k], t))
           /\ UpsertOpen(rows[k], t).resolvedBy # "system_resolver"
<1> DEFINE s == rows[k]
<1>0. s \in Row /\ now \in Int /\ None \notin Int /\ RowInv(k, s)
  BY SInvTypes DEF SInv, IInv
<1>1. CASE ~Tracked(s)
  <2> DEFINE u == NewRow(t)
  <2>1. /\ u \in Row /\ u.status = "open" /\ u.reminders = 0 /\ u.level = 0
        /\ u.lastSeen = t /\ u.lastEscalated = None /\ u.resolvedBy = None /\ u.resolvedAt = None
    BY DEF NewRow, NoRow, Row, Status, Maybe
  <2>2. s.level = 0 /\ s.reminders = 0 /\ s.lastEscalated = None
    BY <1>1 DEF SInv, RowDated, NoRow
  <2>3. UpsertOpen(s, t) = u
    BY <1>1 DEF UpsertOpen
  <2> HIDE DEF u
  <2>4. Proper(k, s, u)
    BY <1>0, <2>1, <2>2, RowTypes DEF Proper
  <2>5. None # "system_resolver"
    BY EscalationAssumption
  <2>6. QED
    BY <1>0, <2>1, <2>3, <2>4, <2>5 DEF MayWrite, RowDated, EscalatedBy, Tracked
<1>2. CASE Tracked(s)
  <2> DEFINE w == IF s.resolvedAt # None THEN Reopened(s) ELSE s
             u == [w EXCEPT !.lastSeen = t]
  <2>1. /\ w \in Row /\ OnlyEased(s, w) /\ Tracked(w)
        /\ w.level < s.level => w.level = 0 /\ w.status = "open" /\ w.resolvedAt = None
        /\ w.resolvedAt = None /\ w.resolvedBy = None
    <3>1. CASE s.resolvedAt = None
      <4>1. s.resolvedBy = None
        BY <3>1 DEF SInv, RowDated
      <4>2. QED
        BY <1>0, <1>2, <3>1, <4>1, RowTypes DEF OnlyEased
    <3>2. CASE s.resolvedAt # None
      BY <1>0, <3>2, ReopenedWrites DEF Tracked
    <3>3. QED
      BY <3>1, <3>2
  <2> HIDE DEF w
  <2>2. /\ u \in Row /\ u.status = w.status /\ u.reminders = w.reminders
        /\ u.level = w.level /\ u.firstSeen = w.firstSeen /\ u.lastSeen = t
        /\ u.lastNotified = w.lastNotified /\ u.lastEscalated = w.lastEscalated
        /\ u.resolvedAt = w.resolvedAt /\ u.resolvedBy = w.resolvedBy
    BY <2>1 DEF Row
  <2>3. UpsertOpen(s, t) = u
    BY <1>2 DEF UpsertOpen, w
  <2> HIDE DEF u
  <2>4. Proper(k, s, u)
    BY <1>0, <2>1, <2>2, RowTypes DEF Proper, OnlyEased
  <2>5. None # "system_resolver"
    BY EscalationAssumption
  <2>6. RowDated(u, now) /\ Tracked(u)
    BY <1>0, <2>1, <2>2 DEF RowDated, Tracked
  <2>7. \A r \in Runners : EscalatedBy(u, run[r].now)
    BY <2>1, <2>2 DEF SInv, EscalatedBy, OnlyEased
  <2>8. QED
    BY <2>1, <2>2, <2>3, <2>4, <2>5, <2>6, <2>7 DEF MayWrite
<1>3. QED
  BY <1>1, <1>2

(* A decided alert is still due when it is decided. *)
LEMMA DispatchProper ==
    ASSUME OneRunner, SInv, IInv', NEW r \in Runners, NEW k \in Keys, NEW i \in Nat,
           Evaluating(r, k), Dispatch(r, k, i),
           i > 0 => /\ run[r].snap[k].level < i
                    /\ \/ run[r].snap[k].lastEscalated = None
                       \/ Policy[k].steps[i].cooldown = 0
                       \/ run[r].now - run[r].snap[k].lastEscalated >= Policy[k].steps[i].cooldown,
           i = 0 => run[r].now - ReminderBase(run[r].snap[k]) >= Policy[k].reminderInterval
    PROVE  SInv' /\ ProperStep
<1> DEFINE s == run[r].snap[k]
           w == Without(run[r], k)
<1>0. PICK ok \in BOOLEAN :
        run' = [run EXCEPT ![r] = [w EXCEPT !.pc = "persist",
                  !.alert = [key |-> k, level |-> i, reached |-> ok,
                             count |-> s.reminders + 1]]]
  BY DEF Dispatch
<1> DEFINE a == [key |-> k, level |-> i, reached |-> ok, count |-> s.reminders + 1]
           v == [w EXCEPT !.pc = "persist", !.alert = a]
<1>1. run[r].pc = "evaluate" /\ k \in run[r].todo
  BY DEF Evaluating
<1>2. /\ w \in Run /\ w.pc = "evaluate" /\ w.now = run[r].now
      /\ w.todo = run[r].todo \ {k} /\ UpToDate(w, rows)
  BY <1>1, WithoutUpToDate
<1>3. /\ s \in Row /\ rows[k] \in Row /\ run[r].now \in Int /\ run[r].now <= now
      /\ OnlyEased(s, rows[k]) /\ EscalatedBy(rows[k], run[r].now)
  BY <1>1, SInvTypes DEF SInv, UpToDate, Run
<1>4. a \in Alert /\ a.key = k /\ a.level = i
  BY <1>3, RowTypes DEF Alert
<1>5. run' = [run EXCEPT ![r] = v]
  BY <1>0
<1> HIDE DEF a, w
<1>6. /\ v \in Run /\ v.pc = "persist" /\ v.alert = a /\ v.now = run[r].now
      /\ v.todo = w.todo /\ v.snap = w.snap
  BY <1>2, <1>4 DEF Run, Maybe
<1> HIDE DEF v
<1>7. StillDue(a, rows[k], run[r].now)
  <2>1. ReminderBase(rows[k]) = ReminderBase(s)
    BY <1>3 DEF OnlyEased, ReminderBase
  <2> HIDE DEF s
  <2>2. i > 0 => rows[k].level < i
    BY <1>3, RowTypes DEF OnlyEased, s
  <2>3. i > 0 /\ rows[k].lastEscalated # None =>
           run[r].now - rows[k].lastEscalated >= Policy[k].steps[i].cooldown
    BY <1>3, RowTypes DEF OnlyEased, EscalatedBy, s
  <2>4. QED
    BY <1>4, <2>1, <2>2, <2>3 DEF StillDue, s
<1>8. UpToDate(v, rows)
  BY <1>2, <1>4, <1>6, <1>7 DEF UpToDate
<1>9. run[r].now <= v.now
  BY <1>3, <1>6
<1>10. QED
  BY <1>3, <1>5, <1>6, <1>8, <1>9, RunnerMoveProper DEF Dispatch

LEMMA ReadProper ==
    ASSUME OneRunner, SInv, IInv', NEW r \in Runners, NEW from, NEW to \in {"recover", "evaluate"},
           NEW t, ReadUnresolved(r, from, to, t)
    PROVE  SInv' /\ ProperStep
<1> DEFINE listed == {k \in Keys : Unresolved(rows[k], t)}
           snap == [k \in Keys |-> IF k \in listed THEN rows[k] ELSE NoRow]
           v == [run[r] EXCEPT !.pc = to, !.todo = listed, !.snap = snap]
<1>1. \A k \in Keys : NoRow \in Row
  BY NoRowInv DEF RowInv
<1>2. /\ listed \subseteq Keys /\ snap \in [Keys -> Row]
      /\ \A k \in listed : snap[k] = rows[k] /\ rows[k] \in Row
  BY <1>1, SInvTypes
<1>3. run[r] \in Run /\ run[r].now \in Int /\ run[r].now <= now
  BY SInvTypes DEF SInv
<1>4. run' = [run EXCEPT ![r] = v]
  BY DEF ReadUnresolved
<1> HIDE DEF listed, snap
<1>5. v \in Run /\ v.pc = to /\ v.todo = listed /\ v.snap = snap /\ v.now = run[r].now
  BY <1>2, <1>3 DEF Run
<1> HIDE DEF v
<1>6. UpToDate(v, rows)
  BY <1>2, <1>5, SameRowProper DEF UpToDate
<1>7. run[r].now <= v.now
  BY <1>3, <1>5
<1>8. QED
  BY <1>3, <1>4, <1>5, <1>6, <1>7, RunnerMoveProper DEF ReadUnresolved

LEMMA RunnerProper ==
    ASSUME OneRunner, SInv, IInv', NEW r \in Runners, RunnerStep(r)
    PROVE  SInv' /\ ProperStep
<1>0. /\ None \notin Int /\ now \in Int /\ run[r] \in Run /\ run[r].now \in Int
      /\ run[r].now <= now /\ UpToDate(run[r], rows)
      /\ RunInv(run[r], rows) /\ run[r].todo \subseteq Keys
      /\ \A k \in Keys : rows[k] \in Row /\ rows[k].lastSeen \in Int /\ rows[k].lastSeen <= now
  BY SInvTypes, RowTypes DEF SInv, IInv, RowDated, Run
<1>1. CASE StartRun(r)
  <2> DEFINE v == [pc |-> "ingest", now |-> now, todo |-> FailingSince(now),
                   snap |-> NoSnapshot, alert |-> None]
  <2>1. v \in Run /\ v.pc = "ingest" /\ v.now = now /\ now <= now
    BY <1>0, NoRowInv DEF Run, FailingSince, Maybe, NoSnapshot, RowInv
  <2>2. run' = [run EXCEPT ![r] = v]
    BY <1>1 DEF StartRun
  <2> HIDE DEF v
  <2>3. UpToDate(v, rows)
    BY <2>1 DEF UpToDate
  <2>4. QED
    BY <1>0, <1>1, <2>1, <2>2, <2>3, RunnerMoveProper DEF StartRun
<1>2. ASSUME NEW k \in Keys, Ingest(r, k) PROVE SInv' /\ ProperStep
  <2>1. MayWrite(k, UpsertOpen(rows[k], now))
    BY <1>0, UpsertMayWrite
  <2>2. QED
    BY <1>2, <2>1, RunnerWriteProper DEF Ingest
<1>3. CASE ListForRecovery(r)
  BY <1>3, ReadProper DEF ListForRecovery
<1>4. ASSUME NEW k \in Keys, AutoResolve(r, k) PROVE SInv' /\ ProperStep
  <2>0. run[r].pc = "recover" /\ k \in run[r].todo /\ DoneWith(r, k)
        /\ UNCHANGED <<now, lastRecovery>>
    BY <1>4 DEF AutoResolve
  <2>1. CASE Recovered(r, k)
    <3> DEFINE s == rows[k]
               u == Resolved(s, now, "system_resolver")
    <3>1. /\ u \in Row /\ OnlyEased(s, u) /\ u.status = "resolved" /\ u.level = s.level
          /\ u.resolvedAt = now
      <4>1. s \in Row /\ now \in Int /\ "system_resolver" \in {"operator", "system_resolver"}
        BY <1>0
      <4> HIDE DEF s
      <4>2. QED
        BY <4>1, ResolvedWrites, Zenon
    <3>2. rows' = [rows EXCEPT ![k] = u]
      BY <1>4, <2>1 DEF AutoResolve
    <3> HIDE DEF u
    <3>3. RecoveredSince(k, u.lastSeen)
      BY <1>0, <2>0, <2>1, <3>1 DEF Recovered, UpToDate, OnlyEased
    <3>4. RowDated(u, now) /\ Tracked(u)
      BY <1>0, <3>1 DEF RowDated, Tracked, OnlyEased
    <3>5. \A q \in Runners : EscalatedBy(u, run[q].now)
      BY <3>1 DEF SInv, EscalatedBy, OnlyEased
    <3>6. Proper(k, s, u)
      BY <1>0, <3>1, RowTypes DEF Proper, OnlyEased
    <3>7. MayWrite(k, u)
      BY <3>1, <3>3, <3>4, <3>5, <3>6 DEF MayWrite
    <3>8. QED
      BY <2>0, <3>2, <3>7, RunnerWriteProper
  <2>2. CASE ~Recovered(r, k)
    <3>1. rows' = rows
      BY <1>4, <2>2 DEF AutoResolve
    <3>2. Without(run[r], k) \in Run /\ UpToDate(Without(run[r], k), rows)
          /\ Without(run[r], k).now = run[r].now
      BY <2>0, WithoutUpToDate
    <3>3. run[r].now <= Without(run[r], k).now /\ Without(run[r], k).now <= now
      BY <1>0, <3>2
    <3>4. QED
      BY <2>0, <3>1, <3>2, <3>3, RunnerMoveProper DEF DoneWith
  <2>3. QED
    BY <2>1, <2>2
<1>5. CASE LoadSnapshot(r)
  BY <1>5, ReadProper DEF LoadSnapshot
<1>6. ASSUME NEW k \in Keys, Suppress(r, k) PROVE SInv' /\ ProperStep
  <2> DEFINE t == run[r].snap[k].lastSeen
  <2>1. t = rows[k].lastSeen
    BY <1>0, <1>6 DEF Suppress, Evaluating, UpToDate, OnlyEased
  <2>2. MayWrite(k, UpsertOpen(rows[k], t))
    BY <1>0, <2>1, UpsertMayWrite
  <2>3. QED
    BY <1>6, <2>2, RunnerWriteProper DEF Suppress, Evaluating
<1>7. ASSUME NEW k \in Keys, DispatchEscalation(r, k) PROVE SInv' /\ ProperStep
  <2>1. PICK i \in EligibleSteps(run[r].snap[k], Policy[k], run[r].now) : Dispatch(r, k, i)
    BY <1>7 DEF DispatchEscalation
  <2>2. i \in 1 .. Policy[k].lastStep /\ StepDue(run[r].snap[k], Policy[k].steps[i], i, run[r].now)
    BY <2>1 DEF EligibleSteps
  <2>3. i \in Nat /\ i > 0
    BY <2>2, PolicyFacts
  <2>4. QED
    BY <1>7, <2>1, <2>2, <2>3, DispatchProper DEF DispatchEscalation, StepDue
<1>8. ASSUME NEW k \in Keys, DispatchReminder(r, k) PROVE SInv' /\ ProperStep
  BY <1>8, DispatchProper DEF DispatchReminder, ReminderDue
<1>9. ASSUME NEW k \in Keys, Touch(r, k) PROVE SInv' /\ ProperStep
  <2> DEFINE t == run[r].snap[k].lastSeen
             u == UpsertOpen(rows[k], t)
             w == Without(run[r], k)
             v == [w EXCEPT !.pc = "touch", !.alert = NoAlert(k)]
  <2>1. run[r].pc = "evaluate" /\ k \in run[r].todo
    BY <1>9 DEF Touch, Evaluating
  <2>2. t = rows[k].lastSeen
    BY <1>0, <2>1 DEF UpToDate, OnlyEased
  <2>3. MayWrite(k, u) /\ u.resolvedBy # "system_resolver"
    BY <1>0, <2>2, UpsertMayWrite
  <2>4. /\ rows' = [rows EXCEPT ![k] = u] /\ run' = [run EXCEPT ![r] = v]
        /\ UNCHANGED <<now, lastRecovery>>
    BY <1>9 DEF Touch
  <2> HIDE DEF u
  <2>5. /\ w \in Run /\ w.now = run[r].now /\ w.todo = run[r].todo \ {k} /\ w.pc = "evaluate"
        /\ UpToDate(w, rows)
    BY <2>1, WithoutUpToDate
  <2> HIDE DEF w
  <2>6. /\ v.pc = "touch" /\ v.todo = w.todo /\ v.snap = w.snap /\ v.now = w.now
        /\ v.alert.key = k
    BY <2>5 DEF Run, NoAlert
  <2> HIDE DEF v
  <2>7. UpToDate(v, rows')
    <3>1. rows'[k] = u /\ \A j \in v.todo : rows'[j] = rows[j]
      BY <1>0, <2>4, <2>5, <2>6, SInvTypes
    <3>2. QED
      BY <2>3, <2>5, <2>6, <3>1 DEF UpToDate
  <2>8. \A q \in Runners : run'[q] = v /\ run[q] = run[r]
    BY <2>4, SInvTypes DEF OneRunner
  <2>9. \A q \in Runners : run'[q].now = run[q].now /\ UpToDate(run'[q], rows')
    BY <2>5, <2>6, <2>7, <2>8
  <2>10. QED
    BY <2>3, <2>4, <2>9, WriteProper
<1>10. CASE Persist(r)
  <2> DEFINE a == run[r].alert
             k == a.key
             s == rows[k]
             t == run[r].now
             u == Persisted(s, a, t)
             v == [run[r] EXCEPT !.pc = "evaluate", !.alert = None]
  <2>1. /\ run[r].pc = "persist" /\ AlertInv(run[r], rows) /\ a \in Alert /\ k \in Keys
        /\ a.level \in Nat /\ a.count \in Nat
        /\ k \notin run[r].todo /\ StillDue(a, s, t)
    BY <1>0, <1>10 DEF Persist, RunInv, AlertInv, Alert, UpToDate
  <2>2. s \in Row /\ Tracked(s) /\ RowDated(s, now) /\ \A q \in Runners : run[q] = run[r]
    BY <2>1, SInvTypes DEF AlertInv, SInv, OneRunner
  <2>3. rows' = [rows EXCEPT ![k] = u] /\ run' = [run EXCEPT ![r] = v]
        /\ UNCHANGED <<now, lastRecovery>>
    BY <1>10 DEF Persist
  <2>4. /\ u \in Row /\ u.lastSeen = s.lastSeen /\ u.lastNotified = t
        /\ u.resolvedAt = s.resolvedAt /\ u.resolvedBy = s.resolvedBy
        /\ a.level = 0 => /\ u.level = s.level /\ u.lastEscalated = s.lastEscalated
                          /\ u.status = s.status
        /\ a.level > 0 => /\ u.level = a.level /\ u.lastEscalated = t
                          /\ u.status = "escalated" /\ u.reminders = s.reminders
    <3>1. s \in Row /\ a.level \in Nat /\ a.count \in Nat /\ t \in Int
      BY <1>0, <2>1, <2>2
    <3> HIDE DEF a, k, s, t
    <3>2. QED
      BY <3>1, PersistedWrites, Zenon
  <2> HIDE DEF u
  <2>5. Proper(k, s, u)
    <3> HIDE DEF s, t
    <3>1. CASE a.level = 0
      BY <2>1, <2>2, <2>4, <3>1, RowTypes DEF Proper, StillDue
    <3>2. CASE a.level > 0
      BY <2>1, <2>2, <2>4, <3>2, RowTypes DEF Proper, StillDue
    <3>3. QED
      BY <2>1, <3>1, <3>2
  <2>6. MayWrite(k, u)
    <3>1. RowDated(u, now) /\ Tracked(u)
      BY <2>1, <2>2, <2>4 DEF RowDated, Tracked
    <3>2. \A q \in Runners : EscalatedBy(u, run[q].now)
      <4>1. EscalatedBy(s, t) /\ t <= t
        BY <1>0, <2>1 DEF SInv
      <4>2. QED
        BY <2>1, <2>2, <2>4, <4>1 DEF EscalatedBy
    <3>3. u.resolvedBy = "system_resolver" => RecoveredSince(k, u.lastSeen)
      BY <2>1, <2>4 DEF SInv, SystemCloseJustified
    <3>4. QED
      BY <2>4, <2>5, <3>1, <3>2, <3>3 DEF MayWrite
  <2>7. v.pc = "evaluate" /\ v.todo = run[r].todo /\ v.snap = run[r].snap /\ v.now = run[r].now
    BY <1>0 DEF Run
  <2>8. UpToDate(v, rows')
    <3>1. \A j \in v.todo : rows'[j] = rows[j]
      BY <1>0, <2>1, <2>3, <2>7, SInvTypes
    <3> HIDE DEF v
    <3>2. QED
      BY <1>0, <2>1, <2>7, <3>1 DEF UpToDate
  <2>9. \A q \in Runners : run'[q] = v
    BY <2>3, SInvTypes DEF OneRunner
  <2> HIDE DEF v
  <2>10. \A q \in Runners : run'[q].now = run[q].now /\ UpToDate(run'[q], rows')
    BY <2>2, <2>7, <2>8, <2>9
  <2>11. QED
    BY <2>1, <2>3, <2>6, <2>10, WriteProper
<1>11. CASE TouchLastSeen(r)
  <2> DEFINE k == run[r].alert.key
             s == rows[k]
             u == [s EXCEPT !.lastSeen = now]
             v == [run[r] EXCEPT !.pc = "evaluate", !.alert = None]
  <2>1. /\ run[r].pc = "touch" /\ k \in Keys /\ Tracked(s) /\ k \notin run[r].todo
        /\ s.resolvedBy # "system_resolver"
    BY <1>0, <1>11 DEF TouchLastSeen, RunInv, Alert, UpToDate
  <2>2. s \in Row /\ RowDated(s, now) /\ \A q \in Runners : run[q] = run[r]
    BY <2>1, SInvTypes DEF SInv, OneRunner
  <2>3. rows' = [rows EXCEPT ![k] = u] /\ run' = [run EXCEPT ![r] = v]
        /\ UNCHANGED <<now, lastRecovery>>
    BY <1>11 DEF TouchLastSeen
  <2>4. v.pc = "evaluate" /\ v.todo = run[r].todo /\ v.snap = run[r].snap /\ v.now = run[r].now
    BY <1>0 DEF Run
  <2>5. UpToDate(v, rows')
    <3>1. \A j \in v.todo : rows'[j] = rows[j]
      BY <1>0, <2>1, <2>3, <2>4, SInvTypes
    <3> HIDE DEF v
    <3>2. QED
      BY <1>0, <2>1, <2>4, <3>1 DEF UpToDate
  <2> HIDE DEF k, s
  <2>6. /\ u \in Row /\ u.status = s.status /\ u.reminders = s.reminders
        /\ u.level = s.level /\ u.lastSeen = now
        /\ u.lastNotified = s.lastNotified /\ u.lastEscalated = s.lastEscalated
        /\ u.resolvedAt = s.resolvedAt /\ u.resolvedBy = s.resolvedBy
    BY <1>0, <2>2 DEF Row
  <2> HIDE DEF u
  <2>7. Proper(k, s, u)
    BY <1>0, <2>2, <2>6, RowTypes DEF Proper, RowDated
  <2>8. MayWrite(k, u)
    <3>1. RowDated(u, now) /\ Tracked(u)
      BY <1>0, <2>1, <2>2, <2>6 DEF RowDated, Tracked
    <3>2. \A q \in Runners : EscalatedBy(u, run[q].now)
      BY <2>1, <2>6 DEF SInv, EscalatedBy, s
    <3>3. QED
      BY <2>1, <2>6, <2>7, <3>1, <3>2 DEF MayWrite, s
  <2>9. \A q \in Runners : run'[q] = v
    BY <2>3, SInvTypes DEF OneRunner
  <2> HIDE DEF v
  <2>10. \A q \in Runners : run'[q].now = run[q].now /\ UpToDate(run'[q], rows')
    BY <2>2, <2>4, <2>5, <2>9
  <2>11. QED
    BY <2>1, <2>3, <2>8, <2>10, WriteProper
<1>12. CASE FinishRun(r)
  <2> DEFINE v == [run[r] EXCEPT !.pc = "idle"]
  <2>1. v \in Run /\ v.pc = "idle" /\ v.now = run[r].now
    BY <1>0 DEF Run
  <2>2. run' = [run EXCEPT ![r] = v]
    BY <1>12 DEF FinishRun
  <2> HIDE DEF v
  <2>3. UpToDate(v, rows) /\ run[r].now <= v.now
    BY <1>0, <2>1 DEF UpToDate
  <2>4. QED
    BY <1>0, <1>12, <2>1, <2>2, <2>3, RunnerMoveProper DEF FinishRun
<1>13. QED
  BY <1>1, <1>2, <1>3, <1>4, <1>5, <1>6, <1>7, <1>8, <1>9, <1>10, <1>11, <1>12 DEF RunnerStep

LEMMA FaultProper ==
    ASSUME OneRunner, SInv, IInv', NEW r \in Runners, StepFails(r) \/ RunnerCrashes(r)
    PROVE  SInv' /\ ProperStep
<1>0. /\ run[r] \in Run /\ run[r].now \in Int /\ run[r].now <= now
      /\ run[r].now <= run[r].now /\ UpToDate(run[r], rows)
      /\ run[r].todo \subseteq Keys
      /\ UNCHANGED <<now, lastRecovery, rows>>
  BY SInvTypes DEF SInv, Run, StepFails, RunnerCrashes
<1>1. ASSUME NEW k \in Keys, run[r].pc \in {"ingest", "evaluate"}, DoneWith(r, k)
      PROVE  SInv' /\ ProperStep
  <2>1. Without(run[r], k) \in Run /\ UpToDate(Without(run[r], k), rows)
        /\ Without(run[r], k).now = run[r].now
    BY <1>1, WithoutUpToDate
  <2>2. QED
    BY <1>0, <1>1, <2>1, RunnerMoveProper DEF DoneWith
<1>2. CASE run[r].pc \in {"persist", "touch"}
           /\ run' = [run EXCEPT ![r].pc = "evaluate", ![r].alert = None]
  <2> DEFINE v == [run[r] EXCEPT !.pc = "evaluate", !.alert = None]
  <2>1. /\ v \in Run /\ v.pc = "evaluate" /\ v.now = run[r].now
        /\ v.todo = run[r].todo /\ v.snap = run[r].snap
    BY <1>0 DEF Run, Maybe
  <2>2. run' = [run EXCEPT ![r] = v]
    BY <1>2
  <2> HIDE DEF v
  <2>3. UpToDate(v, rows)
    BY <1>0, <1>2, <2>1 DEF UpToDate
  <2>4. QED
    BY <1>0, <2>1, <2>2, <2>3, RunnerMoveProper
<1>3. CASE RunnerCrashes(r)
  <2> DEFINE v == [run[r] EXCEPT !.pc = "idle", !.todo = {}, !.snap = NoSnapshot, !.alert = None]
  <2>1. v \in Run /\ v.pc = "idle" /\ v.now = run[r].now
    BY <1>0, NoRowInv DEF Run, Maybe, NoSnapshot, RowInv
  <2>2. run' = [run EXCEPT ![r] = v]
    BY <1>3 DEF RunnerCrashes
  <2> HIDE DEF v
  <2>3. UpToDate(v, rows)
    BY <2>1 DEF UpToDate
  <2>4. QED
    BY <1>0, <2>1, <2>2, <2>3, RunnerMoveProper
<1>4. CASE StepFails(r)
  <2>1. CASE /\ run[r].pc \in {"ingest", "evaluate"}
             /\ \E k \in run[r].todo : DoneWith(r, k)
    BY <1>0, <1>1, <2>1
  <2>2. QED
    BY <1>2, <1>4, <2>1 DEF StepFails
<1>5. QED
  BY <1>3, <1>4

LEMMA InitSInv == Init => SInv
<1> SUFFICES ASSUME Init PROVE SInv
  OBVIOUS
<1>1. IInv
  BY InitIInv
<1>2. \A k \in Keys : rows[k] = NoRow /\ lastRecovery[k] = None
  BY DEF Init, NoSnapshot
<1>3. SystemCloseJustified
  BY <1>2, EscalationAssumption DEF NoRow, SystemCloseJustified
<1>4. \A r \in Runners : run[r].pc = "idle" /\ run[r].now = 0
  BY DEF Init
<1>5. NoRow.lastSeen = 0 /\ NoRow.resolvedBy = None /\ NoRow.lastEscalated = None /\ now = 0
  BY DEF Init, NoRow
<1>6. \A k \in Keys : RowDated(rows[k], now)
  BY <1>2, <1>5 DEF RowDated
<1>7. \A r \in Runners : UpToDate(run[r], rows)
  BY <1>4 DEF UpToDate
<1>8. \A r \in Runners, k \in Keys : EscalatedBy(rows[k], run[r].now)
  BY <1>2, <1>5 DEF EscalatedBy
<1>9. \A r \in Runners : run[r].now <= now
  BY <1>4, <1>5
<1>10. QED
  BY <1>1, <1>2, <1>3, <1>6, <1>7, <1>8, <1>9 DEF SInv

LEMMA StepProper ==
    ASSUME OneRunner, SInv, [Next]_vars PROVE SInv' /\ ProperStep
<1>0. IInv'
  BY NextIInv DEF SInv
<1>1. /\ now \in Int /\ lastRecovery \in [Keys -> Int \cup {None}]
      /\ \A r \in Runners : run[r].now \in Int /\ run[r].now <= now /\ UpToDate(run[r], rows)
      /\ \A k \in Keys : lastRecovery[k] # None => lastRecovery[k] <= now
  BY SInvTypes DEF SInv
<1>2. CASE UNCHANGED vars
  BY <1>0, <1>1, <1>2, NoWriteProper DEF vars
<1>3. CASE Tick
  BY <1>0, <1>1, <1>3, NoWriteProper DEF Tick
<1>4. ASSUME NEW k \in Keys, LogFailure(k) \/ MaintenanceChanges(k) PROVE SInv' /\ ProperStep
  BY <1>0, <1>1, <1>4, NoWriteProper DEF LogFailure, MaintenanceChanges
<1>5. ASSUME NEW k \in Keys, LogRecovery(k) PROVE SInv' /\ ProperStep
  BY <1>0, <1>1, <1>5, SInvTypes, NoWriteProper DEF LogRecovery
<1>6. ASSUME NEW k \in Keys, Operator(k) PROVE SInv' /\ ProperStep
  BY <1>0, <1>6, OperatorProper
<1>7. ASSUME NEW r \in Runners, RunnerStep(r) PROVE SInv' /\ ProperStep
  BY <1>0, <1>7, RunnerProper
<1>8. ASSUME NEW r \in Runners, StepFails(r) \/ RunnerCrashes(r) PROVE SInv' /\ ProperStep
  BY <1>0, <1>8, FaultProper
<1>9. QED
  BY <1>2, <1>3, <1>4, <1>5, <1>6, <1>7, <1>8 DEF Next

(* The invariant of a single batch holds in every reachable state. *)
THEOREM SingleBatch == ASSUME OneRunner PROVE Spec => []SInv
<1>1. SInv /\ [Next]_vars => SInv'
  BY StepProper
<1>2. QED
  BY <1>1, InitSInv, PTL DEF Spec

(* Every step is proper. *)
LEMMA AlwaysProper == ASSUME OneRunner PROVE Spec => [][ProperStep]_vars
<1>1. SInv /\ [Next]_vars => [ProperStep]_vars
  BY StepProper
<1>2. QED
  BY <1>1, SingleBatch, PTL DEF Spec

(***************************************************************************)
(* With one batch at a time, what the system closes by itself had          *)
(* recovered after the failure was last seen.                              *)
(***************************************************************************)
THEOREM SystemClosesJustly == ASSUME OneRunner PROVE Spec => []SystemCloseJustified
<1>1. SInv => SystemCloseJustified
  BY DEF SInv
<1>2. QED
  BY <1>1, SingleBatch, PTL

(***************************************************************************)
(* With one batch at a time, no late write lowers the level of an alert:   *)
(* it falls only to 0, by a reopening.                                     *)
(***************************************************************************)
THEOREM LevelsOnlyRise == ASSUME OneRunner PROVE Spec => LevelOnlyRises
<1>1. ProperStep => (\A k \in Keys :
          rows'[k].level < rows[k].level =>
              /\ rows'[k].level = 0
              /\ rows'[k].status = "open"
              /\ rows'[k].resolvedAt = None)
  BY DEF ProperStep, Proper
<1>2. QED
  BY <1>1, AlwaysProper, PTL DEF LevelOnlyRises

(***************************************************************************)
(* With one batch at a time, two escalations of a row are a cooldown apart *)
(* whatever operators do in between.                                       *)
(***************************************************************************)
THEOREM EscalationsStaySpaced == ASSUME OneRunner PROVE Spec => EscalationsSpaced
<1>1. ProperStep => (\A k \in Keys :
          rows'[k].lastEscalated # rows[k].lastEscalated /\ rows[k].lastEscalated # None =>
              rows'[k].lastEscalated - rows[k].lastEscalated
                  >= Policy[k].steps[rows'[k].level].cooldown)
  BY DEF ProperStep, Proper
<1>2. QED
  BY <1>1, AlwaysProper, PTL DEF EscalationsSpaced

(***************************************************************************)
(* With one batch at a time, a reminder is counted only an interval after  *)
(* the last alert of the row.                                              *)
(***************************************************************************)
THEOREM RemindersStaySpaced == ASSUME OneRunner PROVE Spec => RemindersSpaced
<1>1. ProperStep => (\A k \in Keys :
          rows'[k].reminders > rows[k].reminders =>
              rows'[k].lastNotified - ReminderBase(rows[k]) >= Policy[k].reminderInterval)
  BY DEF ProperStep, Proper
<1>2. QED
  BY <1>1, AlwaysProper, PTL DEF RemindersSpaced

(***************************************************************************)
(* With one batch at a time, last_seen_at never moves back, although       *)
(* suppressed rows are written with the time of a snapshot.                *)
(***************************************************************************)
THEOREM LastSeenOnlyAdvances == ASSUME OneRunner PROVE Spec => LastSeenAdvances
<1>1. ProperStep => (\A k \in Keys : rows'[k].lastSeen >= rows[k].lastSeen)
  BY DEF ProperStep, Proper
<1>2. QED
  BY <1>1, AlwaysProper, PTL DEF LastSeenAdvances
=============================================================================
