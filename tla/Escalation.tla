----------------------------- MODULE Escalation -----------------------------
(***************************************************************************)
(* The escalation / reminder layer.  One row of escalation_states per      *)
(* dedupe key; a batch runner (a job every five minutes, or the same batch *)
(* started by hand from the CLI) that ingests logged failures, closes what *)
(* recovered, reads a snapshot of the unresolved rows and then reminds,    *)
(* escalates or touches them one by one; operators who acknowledge,        *)
(* silence, resolve and reopen the same rows from the CLI and the web      *)
(* console, each in a database session of its own.                         *)
(*                                                                         *)
(* One action is one committed repository call.  Time is a bounded clock.  *)
(***************************************************************************)
EXTENDS Integers, FiniteSets

CONSTANTS
    Keys,         \* dedupe keys: event type, seller, environment and job
    JobOf,        \* the job name in a key; recovery is looked up by it alone
    Runners,      \* processes that may run the batch
    Policy,       \* what the policy resolver answers for each key
    None,         \* a NULL column
    Lookback,     \* lookback_hours
    Period,       \* some batch starts at least once in this many ticks
    SilenceFor,   \* durations an operator may ask to silence for
    MaxTime,      \* bound on the clock
    MaxActions,   \* bound on the operators' writes
    MaxFaults     \* bound on crashes and failed steps of runners

VARIABLES
    now,           \* datetime.now()
    lastFailure,   \* time of the newest logged failure of a key, or None
    lastRecovery,  \* time of the newest completed run of a key's job, or None
    rows,          \* the table escalation_states
    covered,       \* keys under an active suppressing maintenance window
    run,           \* the local state of each runner
    actions,       \* operators' writes so far
    faults         \* crashes and failed steps so far

vars == <<now, lastFailure, lastRecovery, rows, covered, run, actions, faults>>

-----------------------------------------------------------------------------
Time == 0 .. MaxTime
Maybe(S) == S \cup {None}

(* A policy's steps are numbered from 1, and step_index is the number. *)
Step == [after: Nat, minRepeat: Nat, cooldown: Nat, requireUnacked: BOOLEAN]

IsPolicy(p) ==
    /\ p.reminderEnabled \in BOOLEAN
    /\ p.reminderInterval \in Nat
    /\ p.reminderMax \in Maybe(Nat)
    /\ p.remindAfterAck \in BOOLEAN
    /\ p.silenceRespected \in BOOLEAN
    /\ p.escalationEnabled \in BOOLEAN
    /\ p.lastStep \in Nat
    /\ p.steps \in [1 .. p.lastStep -> Step]

ASSUME EscalationAssumption ==
    /\ None \notin Int \cup {"operator", "system_resolver"}
    /\ Lookback \in Nat /\ Period \in Nat /\ MaxTime \in Nat
    /\ MaxActions \in Nat /\ MaxFaults \in Nat
    /\ SilenceFor \subseteq Nat
    /\ \A k \in Keys : IsPolicy(Policy[k])

Status == {"untracked", "open", "acknowledged", "silenced", "escalated", "resolved"}

Row ==
    [status: Status, reminders: Nat, level: Nat,
     firstSeen: Int, lastSeen: Int,
     lastNotified: Maybe(Int), lastEscalated: Maybe(Int),
     acked: BOOLEAN, silencedUntil: Maybe(Int),
     resolvedAt: Maybe(Int), resolvedBy: Maybe({"operator", "system_resolver"})]

(* No row has this dedupe key yet. *)
NoRow ==
    [status |-> "untracked", reminders |-> 0, level |-> 0,
     firstSeen |-> 0, lastSeen |-> 0,
     lastNotified |-> None, lastEscalated |-> None,
     acked |-> FALSE, silencedUntil |-> None,
     resolvedAt |-> None, resolvedBy |-> None]

NoSnapshot == [k \in Keys |-> NoRow]

(* An alert handed to the notification layer and not yet written back:     *)
(* level 0 is reminder number count, reached tells whether any channel      *)
(* accepted it.  Of a row without one the batch only knows the key.         *)
Alert == [key: Keys, level: Nat, count: Nat, reached: BOOLEAN]

NoAlert(k) == [key |-> k, level |-> 0, count |-> 0, reached |-> FALSE]

Run ==
    [pc: {"idle", "ingest", "recover", "evaluate", "persist", "touch"},
     now: Int, todo: SUBSET Keys, snap: [Keys -> Row], alert: Maybe(Alert)]

TypeOK ==
    /\ now \in Time
    /\ lastFailure \in [Keys -> Maybe(Int)]
    /\ lastRecovery \in [Keys -> Maybe(Int)]
    /\ rows \in [Keys -> Row]
    /\ covered \in SUBSET Keys
    /\ run \in [Runners -> Run]
    /\ actions \in 0 .. MaxActions
    /\ faults \in 0 .. MaxFaults

Init ==
    /\ now = 0
    /\ lastFailure = [k \in Keys |-> None]
    /\ lastRecovery = [k \in Keys |-> None]
    /\ rows = NoSnapshot
    /\ covered = {}
    /\ run = [r \in Runners |->
                [pc |-> "idle", now |-> 0, todo |-> {}, snap |-> NoSnapshot, alert |-> None]]
    /\ actions = 0
    /\ faults = 0

-----------------------------------------------------------------------------
(* The repository's reads and writes, as functions of one row. *)

Tracked(s) == s.status # "untracked"

(* upsert_open_state with a state last seen at t: a new row, or the old one *)
(* touched, and reopened first when it had been resolved.                   *)
NewRow(t) == [NoRow EXCEPT !.status = "open", !.firstSeen = t, !.lastSeen = t]

(* A resolved row is open again and counts from 0.  Its acknowledgement,   *)
(* its silence and the times of its alerts stay.                           *)
Reopened(s) ==
    [s EXCEPT !.status = "open", !.reminders = 0, !.level = 0,
              !.resolvedAt = None, !.resolvedBy = None]

UpsertOpen(s, t) ==
    IF ~Tracked(s) THEN NewRow(t)
    ELSE [(IF s.resolvedAt # None THEN Reopened(s) ELSE s) EXCEPT !.lastSeen = t]

(* The rows list_unresolved_due_for_reminder(t) returns. *)
Unresolved(s, t) ==
    /\ Tracked(s)
    /\ s.resolvedAt = None
    /\ s.status # "resolved"
    /\ s.silencedUntil = None \/ s.silencedUntil <= t

(* Mutated form: the resolution time is not written. *)
ResolvedUndated(s, t, who) == [s EXCEPT !.status = "resolved", !.resolvedBy = who]

Resolved(s, t, who) ==
    [s EXCEPT !.status = "resolved", !.resolvedAt = t, !.resolvedBy = who]

-----------------------------------------------------------------------------
(* The decision engines, applied to a snapshot s at the run's time t. *)

Silenced(s, p, t) == p.silenceRespected /\ s.silencedUntil # None /\ t < s.silencedUntil
Acknowledged(s) == s.acked \/ s.status = "acknowledged"
Closed(s) == s.resolvedAt # None \/ s.status = "resolved"

(* Mutated form: after_seconds is not checked. *)
StepDueAtOnce(s, step, i, t) ==
    /\ s.level < i
    /\ s.reminders >= step.minRepeat

(* Mutated form: the cooldown is not checked. *)
StepDueNoCooldown(s, step, i, t) ==
    /\ s.level < i
    /\ t - s.firstSeen >= step.after
    /\ s.reminders >= step.minRepeat

(* EscalationDecisionEngine.evaluate: the steps whose every check passes. *)
StepDue(s, step, i, t) ==
    /\ s.level < i
    /\ t - s.firstSeen >= step.after
    /\ s.reminders >= step.minRepeat
    /\ step.requireUnacked => ~Acknowledged(s)
    /\ \/ s.lastEscalated = None
       \/ step.cooldown = 0
       \/ t - s.lastEscalated >= step.cooldown

EligibleSteps(s, p, t) ==
    IF p.escalationEnabled /\ ~Closed(s) /\ ~Silenced(s, p, t)
    THEN {i \in 1 .. p.lastStep : StepDue(s, p.steps[i], i, t)}
    ELSE {}

(* ReminderDecisionEngine.evaluate answers "remind". *)
ReminderBase(s) == IF s.lastNotified # None THEN s.lastNotified ELSE s.firstSeen

(* Mutated forms: the maximum is passed by one; intervals are measured from *)
(* the first sight, or from the last sight, instead of the last alert.      *)
ReminderDueOneMore(s, p, t) ==
    /\ ~Closed(s)
    /\ s.reminders <= p.reminderMax
    /\ t - ReminderBase(s) >= p.reminderInterval

ReminderDueFromFirstSeen(s, p, t) ==
    /\ ~Closed(s)
    /\ s.reminders < p.reminderMax
    /\ t - s.firstSeen >= p.reminderInterval

ReminderDueFromLastSeen(s, p, t) ==
    /\ ~Closed(s)
    /\ ~Acknowledged(s)
    /\ s.reminders < p.reminderMax
    /\ t - s.lastSeen >= p.reminderInterval

ReminderDue(s, p, t) ==
    /\ p.reminderEnabled
    /\ ~Closed(s)
    /\ ~Silenced(s, p, t)
    /\ p.remindAfterAck \/ ~Acknowledged(s)
    /\ p.reminderMax = None \/ s.reminders < p.reminderMax
    /\ t - ReminderBase(s) >= p.reminderInterval

-----------------------------------------------------------------------------
(* The world outside: the clock, the logs and the maintenance windows. *)

Tick ==
    /\ now < MaxTime
    /\ \E r \in Runners : now - run[r].now < Period
    /\ now' = now + 1
    /\ UNCHANGED <<lastFailure, lastRecovery, rows, covered, run, actions, faults>>

LogFailure(k) ==
    /\ lastFailure' = [lastFailure EXCEPT ![k] = now]
    /\ UNCHANGED <<now, lastRecovery, rows, covered, run, actions, faults>>

LogRecovery(k) ==
    /\ lastRecovery' = [lastRecovery EXCEPT ![k] = now]
    /\ UNCHANGED <<now, lastFailure, rows, covered, run, actions, faults>>

(* An operator adds a window that is active from now, or removes it. *)
MaintenanceChanges(k) ==
    /\ actions < MaxActions
    /\ actions' = actions + 1
    /\ covered' = IF k \in covered THEN covered \ {k} ELSE covered \cup {k}
    /\ UNCHANGED <<now, lastFailure, lastRecovery, rows, run, faults>>

-----------------------------------------------------------------------------
(* Operators.  No call looks at the status it finds. *)

OperatorWrites(k, s) ==
    /\ Tracked(rows[k])
    /\ actions < MaxActions
    /\ actions' = actions + 1
    /\ rows' = [rows EXCEPT ![k] = s]
    /\ UNCHANGED <<now, lastFailure, lastRecovery, covered, run, faults>>

Acknowledge(k) ==
    OperatorWrites(k, [rows[k] EXCEPT !.status = "acknowledged", !.acked = TRUE])

Silence(k, d) ==
    OperatorWrites(k, [rows[k] EXCEPT !.status = "silenced", !.silencedUntil = now + d])

ClearSilence(k) ==
    OperatorWrites(k, [rows[k] EXCEPT !.status = "open", !.silencedUntil = None])

Resolve(k) ==
    OperatorWrites(k, Resolved(rows[k], now, "operator"))

Reopen(k) ==
    OperatorWrites(k, Reopened(rows[k]))

(* What the front ends offer, one alert at a time or in bulk, once it is   *)
(* confirmed: the CLI what the console does and an end of the silence.     *)
(* Neither of them reopens.                                                *)
Console(k) ==
    \/ Acknowledge(k)
    \/ Resolve(k)
    \/ \E d \in SilenceFor : Silence(k, d)

Cli(k) ==
    \/ Console(k)
    \/ ClearSilence(k)

Operator(k) ==
    \/ Cli(k)
    \/ Reopen(k)

-----------------------------------------------------------------------------
(* The batch runner. *)

(* The failures of the lookback window that ends at t, and a mutated form  *)
(* that leaves its first instant out.                                      *)
FailingAfter(t) == {k \in Keys : lastFailure[k] # None /\ lastFailure[k] > t - Lookback}
FailingSince(t) == {k \in Keys : lastFailure[k] # None /\ lastFailure[k] >= t - Lookback}

StartRun(r) ==
    /\ run[r].pc = "idle"
    /\ run' = [run EXCEPT ![r] = [pc |-> "ingest", now |-> now, todo |-> FailingSince(now),
                                  snap |-> NoSnapshot, alert |-> None]]
    /\ UNCHANGED <<now, lastFailure, lastRecovery, rows, covered, actions, faults>>

(* A run once it is done with key k. *)
Without(u, k) == [u EXCEPT !.todo = @ \ {k}, !.snap = [@ EXCEPT ![k] = NoRow]]
DoneWith(r, k) == run' = [run EXCEPT ![r] = Without(@, k)]

(* Mutated form: the state is dated by the failure, not by the clock. *)
IngestAsOfFailure(r, k) ==
    /\ run[r].pc = "ingest"
    /\ k \in run[r].todo
    /\ rows' = [rows EXCEPT ![k] = UpsertOpen(rows[k], lastFailure[k])]
    /\ DoneWith(r, k)
    /\ UNCHANGED <<now, lastFailure, lastRecovery, covered, actions, faults>>

(* Upsert the row of one failure, with a state built now. *)
Ingest(r, k) ==
    /\ run[r].pc = "ingest"
    /\ k \in run[r].todo
    /\ rows' = [rows EXCEPT ![k] = UpsertOpen(rows[k], now)]
    /\ DoneWith(r, k)
    /\ UNCHANGED <<now, lastFailure, lastRecovery, covered, actions, faults>>

(* Read the rows to work on as they are at time t. *)
ReadUnresolved(r, from, to, t) ==
    /\ run[r].pc = from
    /\ run[r].todo = {}
    /\ LET listed == {k \in Keys : Unresolved(rows[k], t)} IN
       run' = [run EXCEPT ![r].pc = to, ![r].todo = listed,
                          ![r].snap = [k \in Keys |-> IF k \in listed THEN rows[k] ELSE NoRow]]
    /\ UNCHANGED <<now, lastFailure, lastRecovery, rows, covered, actions, faults>>

ListForRecovery(r) == ReadUnresolved(r, "ingest", "recover", now)

(* The source recovered after the snapshot was last seen.  The query looks *)
(* for a completed run with the job name of the key, of whatever seller.   *)
RecoveredSince(k, t) ==
    \E j \in Keys :
        /\ JobOf[j] = JobOf[k]
        /\ lastRecovery[j] # None
        /\ lastRecovery[j] > t

(* Mutated form: a recovery after the first sight is enough. *)
RecoveredOnce(r, k) == RecoveredSince(k, run[r].snap[k].firstSeen)

Recovered(r, k) == RecoveredSince(k, run[r].snap[k].lastSeen)

AutoResolve(r, k) ==
    /\ run[r].pc = "recover"
    /\ k \in run[r].todo
    /\ rows' = IF Recovered(r, k)
               THEN [rows EXCEPT ![k] = Resolved(rows[k], now, "system_resolver")]
               ELSE rows
    /\ DoneWith(r, k)
    /\ UNCHANGED <<now, lastFailure, lastRecovery, covered, actions, faults>>

LoadSnapshot(r) == ReadUnresolved(r, "recover", "evaluate", run[r].now)

(* The next row of the snapshot, in any order, and the loop behind it. *)
Evaluating(r, k) ==
    /\ run[r].pc = "evaluate"
    /\ k \in run[r].todo

Suppress(r, k) ==
    /\ Evaluating(r, k)
    /\ k \in covered
    /\ rows' = [rows EXCEPT ![k] = UpsertOpen(rows[k], run[r].snap[k].lastSeen)]
    /\ DoneWith(r, k)
    /\ UNCHANGED <<now, lastFailure, lastRecovery, covered, actions, faults>>

(* Hand an alert to the notification layer; write nothing back yet. *)
Dispatch(r, k, i) ==
    /\ \E ok \in BOOLEAN :
          LET a == [key |-> k, level |-> i, reached |-> ok,
                    count |-> run[r].snap[k].reminders + 1] IN
          run' = [run EXCEPT ![r] = [Without(@, k) EXCEPT !.pc = "persist", !.alert = a]]
    /\ UNCHANGED <<now, lastFailure, lastRecovery, rows, covered, actions, faults>>

DispatchEscalation(r, k) ==
    /\ Evaluating(r, k)
    /\ k \notin covered
    /\ LET due == EligibleSteps(run[r].snap[k], Policy[k], run[r].now) IN
       \E i \in due : (\A j \in due : j <= i) /\ Dispatch(r, k, i)

DispatchReminder(r, k) ==
    /\ Evaluating(r, k)
    /\ k \notin covered
    /\ EligibleSteps(run[r].snap[k], Policy[k], run[r].now) = {}
    /\ ReminderDue(run[r].snap[k], Policy[k], run[r].now)
    /\ Dispatch(r, k, 0)

(* Nothing is due: the snapshot is upserted, with the time it was last      *)
(* seen, and the row is then touched by a write of its own.                 *)
Touch(r, k) ==
    /\ Evaluating(r, k)
    /\ k \notin covered
    /\ EligibleSteps(run[r].snap[k], Policy[k], run[r].now) = {}
    /\ ~ReminderDue(run[r].snap[k], Policy[k], run[r].now)
    /\ rows' = [rows EXCEPT ![k] = UpsertOpen(rows[k], run[r].snap[k].lastSeen)]
    /\ run' = [run EXCEPT ![r] = [Without(@, k) EXCEPT !.pc = "touch", !.alert = NoAlert(k)]]
    /\ UNCHANGED <<now, lastFailure, lastRecovery, covered, actions, faults>>

TouchLastSeen(r) ==
    /\ run[r].pc = "touch"
    /\ rows' = [rows EXCEPT ![run[r].alert.key].lastSeen = now]
    /\ run' = [run EXCEPT ![r].pc = "evaluate", ![r].alert = None]
    /\ UNCHANGED <<now, lastFailure, lastRecovery, covered, actions, faults>>

(* Mutated form: a reminder writes its level, which is 0, as well. *)
PersistedWithLevel(s, a, t) ==
    IF a.level = 0
    THEN [s EXCEPT !.reminders = a.count, !.level = a.level, !.lastNotified = t]
    ELSE [s EXCEPT !.level = a.level, !.status = "escalated",
                   !.lastEscalated = t, !.lastNotified = t]

(* Write the dispatched alert back into whatever the row is by now. *)
Persisted(s, a, t) ==
    IF a.level = 0
    THEN [s EXCEPT !.reminders = a.count, !.lastNotified = t]
    ELSE [s EXCEPT !.level = a.level, !.status = "escalated",
                   !.lastEscalated = t, !.lastNotified = t]

Persist(r) ==
    /\ run[r].pc = "persist"
    /\ LET a == run[r].alert IN
       rows' = [rows EXCEPT ![a.key] = Persisted(rows[a.key], a, run[r].now)]
    /\ run' = [run EXCEPT ![r].pc = "evaluate", ![r].alert = None]
    /\ UNCHANGED <<now, lastFailure, lastRecovery, covered, actions, faults>>

FinishRun(r) ==
    /\ run[r].pc = "evaluate"
    /\ run[r].todo = {}
    /\ run' = [run EXCEPT ![r].pc = "idle"]
    /\ UNCHANGED <<now, lastFailure, lastRecovery, rows, covered, actions, faults>>

(* A step that raises is caught per row and the batch goes on with the      *)
(* next: a query, the policy, a dispatch.  Recovery is not guarded: an      *)
(* error there ends the run, like a crash.  So does a flush that fails,     *)
(* after which the session refuses every further step of the batch.         *)
StepFails(r) ==
    /\ faults < MaxFaults
    /\ faults' = faults + 1
    /\ \/ /\ run[r].pc \in {"ingest", "evaluate"}
          /\ \E k \in run[r].todo : DoneWith(r, k)
       \/ /\ run[r].pc \in {"persist", "touch"}
          /\ run' = [run EXCEPT ![r].pc = "evaluate", ![r].alert = None]
    /\ UNCHANGED <<now, lastFailure, lastRecovery, rows, covered, actions>>

RunnerCrashes(r) ==
    /\ faults < MaxFaults
    /\ faults' = faults + 1
    /\ run[r].pc # "idle"
    /\ run' = [run EXCEPT ![r].pc = "idle", ![r].todo = {},
                          ![r].snap = NoSnapshot, ![r].alert = None]
    /\ UNCHANGED <<now, lastFailure, lastRecovery, rows, covered, actions>>

RunnerStep(r) ==
    \/ StartRun(r)
    \/ \E k \in Keys : Ingest(r, k)
    \/ ListForRecovery(r)
    \/ \E k \in Keys : AutoResolve(r, k)
    \/ LoadSnapshot(r)
    \/ \E k \in Keys : Suppress(r, k) \/ DispatchEscalation(r, k)
                          \/ DispatchReminder(r, k) \/ Touch(r, k)
    \/ Persist(r)
    \/ TouchLastSeen(r)
    \/ FinishRun(r)

-----------------------------------------------------------------------------
Next ==
    \/ Tick
    \/ \E k \in Keys : LogFailure(k) \/ LogRecovery(k) \/ MaintenanceChanges(k) \/ Operator(k)
    \/ \E r \in Runners : RunnerStep(r) \/ StepFails(r) \/ RunnerCrashes(r)

Spec == Init /\ [][Next]_vars

(* Time passes, the job scheduler keeps starting the batch and a started   *)
(* batch goes on; nothing obliges operators, sources or faults.            *)
FairSpec == Spec /\ WF_vars(Tick) /\ \A r \in Runners : WF_vars(RunnerStep(r))
-----------------------------------------------------------------------------
(* PROPERTIES *)

(***************************************************************************)
(* The status column and the columns it summarises agree: a resolved row   *)
(* has a resolution time, an acknowledged one an acknowledgement, a        *)
(* silenced one an end of silence, an escalated one a time of escalation.  *)
(* Six repository methods and two kinds of process write these columns.    *)
(***************************************************************************)
StatusAgrees ==
    \A k \in Keys :
        /\ rows[k].status = "resolved" => rows[k].resolvedAt # None
        /\ rows[k].status = "acknowledged" => rows[k].acked
        /\ rows[k].status = "silenced" => rows[k].silencedUntil # None
        /\ rows[k].status = "escalated" => rows[k].lastEscalated # None

(***************************************************************************)
(* reminder_max_count bounds the stored count although the count is        *)
(* written from a snapshot: neither a reopening between the snapshot and   *)
(* the write nor a second runner takes it past the maximum.                *)
(***************************************************************************)
ReminderCap ==
    \A k \in Keys :
        Policy[k].reminderMax # None => rows[k].reminders <= Policy[k].reminderMax

(***************************************************************************)
(* A row is at an escalation level only if the step of that level had come *)
(* due: its after_seconds had passed since the failure was first seen.     *)
(***************************************************************************)
EscalationEarned ==
    \A k \in Keys :
        LET s == rows[k] IN
        s.level > 0 =>
            /\ s.level <= Policy[k].lastStep
            /\ s.lastEscalated # None
            /\ s.lastEscalated >= s.firstSeen + Policy[k].steps[s.level].after

(***************************************************************************)
(* What the system resolves by itself had recovered after it was last      *)
(* seen: no auto-resolution hides a failure ingested after the recovery.   *)
(***************************************************************************)
SystemCloseJustified ==
    \A k \in Keys :
        rows[k].resolvedBy = "system_resolver" => RecoveredSince(k, rows[k].lastSeen)

(***************************************************************************)
(* The level of an alert falls only by a reopening, which takes it to 0    *)
(* and opens the row: no late write takes an escalation back.              *)
(***************************************************************************)
LevelOnlyRises ==
    [][\A k \in Keys :
        rows'[k].level < rows[k].level =>
            /\ rows'[k].level = 0
            /\ rows'[k].status = "open"
            /\ rows'[k].resolvedAt = None]_vars

(***************************************************************************)
(* Two escalations of one row are at least the cooldown of the later step  *)
(* apart, also when an operator reopens the row in between.                *)
(***************************************************************************)
EscalationsSpaced ==
    [][\A k \in Keys :
        rows'[k].lastEscalated # rows[k].lastEscalated /\ rows[k].lastEscalated # None =>
            rows'[k].lastEscalated - rows[k].lastEscalated
                >= Policy[k].steps[rows'[k].level].cooldown]_vars

(***************************************************************************)
(* A reminder is counted only when reminder_interval_seconds have passed   *)
(* since the row's last alert of either kind, or since it was first seen.  *)
(***************************************************************************)
RemindersSpaced ==
    [][\A k \in Keys :
        rows'[k].reminders > rows[k].reminders =>
            rows'[k].lastNotified - ReminderBase(rows[k]) >= Policy[k].reminderInterval]_vars

(***************************************************************************)
(* last_seen_at never moves back, so that a recovery that was too old to   *)
(* close an alert never becomes new enough.                                *)
(***************************************************************************)
LastSeenAdvances ==
    [][\A k \in Keys : rows'[k].lastSeen >= rows[k].lastSeen]_vars

(***************************************************************************)
(* A logged failure is eventually tracked by a row, in spite of failed     *)
(* steps and crashes of the batch.                                         *)
(***************************************************************************)
FailureTracked ==
    \A k \in Keys : (lastFailure[k] # None) ~> Tracked(rows[k])

(***************************************************************************)
(* An open, unacknowledged alert is eventually reminded of, escalated,     *)
(* silenced, covered or closed, if its first interval ends in time.        *)
(***************************************************************************)
OpenAlertReminded ==
    \A k \in Keys :
        (/\ rows[k].status = "open" /\ ~rows[k].acked
         /\ Policy[k].reminderEnabled
         /\ ReminderBase(rows[k]) + Policy[k].reminderInterval <= MaxTime)
        ~> \/ rows[k].reminders > 0
           \/ rows[k].status # "open" \/ rows[k].resolvedAt # None \/ rows[k].acked
           \/ k \in covered \/ rows[k].silencedUntil # None

(***************************************************************************)
(* DOCUMENTED, AND NOT KEPT.  What an operator resolved stays resolved     *)
(* until a later failure or an operator opens it again                     *)
(* ("resolved: Cleared.  Discarded from active evaluation").               *)
(***************************************************************************)
OperatorResolveSticks ==
    [][\A k \in Keys :
        rows[k].resolvedBy = "operator" /\ rows'[k].resolvedAt = None =>
            \/ actions' # actions
            \/ lastFailure[k] # None /\ lastFailure[k] >= rows[k].resolvedAt]_vars

=============================================================================
