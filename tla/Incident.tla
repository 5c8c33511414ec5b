------------------------------ MODULE Incident ------------------------------
(***************************************************************************)
(* Incidents: a detector's candidate opens one, unless it is a duplicate,  *)
(* and an operator of the CLI or the web console takes it through its      *)
(* states, one call at a time.  The hours in which it has to be            *)
(* acknowledged and resolved are fixed when it is opened; its service      *)
(* level is evaluated when it is resolved.                                 *)
(*                                                                         *)
(* The repository's get, save and list calls are modelled by what the      *)
(* services expect of them.  Left out: events and links, which are only    *)
(* written and shown, assignment, which touches nothing else, and the      *)
(* evaluation job, whose use of _state_machine raises before it writes.    *)
(***************************************************************************)
EXTENDS Integers, Sequences

CONSTANTS
    Signals,        \* the detectors that run
    MaxIncidents,   \* bound on the incidents
    MaxNow,         \* bound on the clock, in hours
    None            \* nothing

VARIABLES
    now,            \* the clock
    incidents       \* the repository, the oldest first

vars == <<now, incidents>>

-----------------------------------------------------------------------------
Status == {"open", "acknowledged", "investigating", "mitigated",
           "resolved", "closed", "cancelled"}

SlaState == {"within_sla", "ack_breached", "resolve_breached", "both_breached"}

(* The hours to acknowledge and to resolve.                                *)
Policy == [critical |-> <<1, 4>>, high |-> <<4, 24>>,
           medium |-> <<24, 72>>, low |-> <<72, 168>>]

(* The count at which each detector speaks.                                *)
Threshold == [failure_spike |-> 5, alert_burst |-> 10, guard_rejection |-> 3,
              credentials_failure |-> 3, retry_loop |-> 2, seller_health |-> 31]

Severity == [failure_spike |-> "high", alert_burst |-> "critical",
             guard_rejection |-> "medium", credentials_failure |-> "high",
             retry_loop |-> "medium", seller_health |-> "high"]

Cause == Signals \cup {"UNKNOWN"}
Incident == [signal: Signals, severity: DOMAIN Policy, status: Status, sla: SlaState,
             opened: Nat, ack_due: Nat, resolve_due: Nat, acked: Nat \cup {None},
             resolved: Nat \cup {None}, cause: Cause \cup {None}, reopened: BOOLEAN]

TypeOK == now \in Nat /\ incidents \in Seq(Incident)

Init == now = 0 /\ incidents = <<>>

-----------------------------------------------------------------------------
(* Detection and creation                                                  *)

Detected(s, n) == n >= Threshold[s]

(* The incidents a candidate would duplicate: those still in hand of the   *)
(* last half hour whose root cause is the candidate's reason.              *)
Duplicates(s) ==
    {k \in DOMAIN incidents :
        /\ incidents[k].status \in {"open", "acknowledged", "investigating"}
        /\ incidents[k].opened = now
        /\ incidents[k].signal = s
        /\ incidents[k].cause = s}

(* A candidate's incident, which has no root cause yet.                    *)
Opened(s) ==
    [signal |-> s, severity |-> Severity[s], status |-> "open", sla |-> "within_sla",
     opened |-> now, ack_due |-> now + Policy[Severity[s]][1],
     resolve_due |-> now + Policy[Severity[s]][2], acked |-> None,
     resolved |-> None, cause |-> None, reopened |-> FALSE]

Create(s, n) ==
    /\ Detected(s, n)
    /\ Duplicates(s) # {} \/ Len(incidents) < MaxIncidents
    /\ incidents' = IF Duplicates(s) = {} THEN Append(incidents, Opened(s)) ELSE incidents
    /\ UNCHANGED now

-----------------------------------------------------------------------------
(* The service level                                                       *)

(* A step not taken yet is late once its time is over.                     *)
Late(at, due) == IF at = None THEN now > due ELSE at > due

(* Mutated form: only a resolution can be late.                            *)
OnceResolvedLate(i) == i.resolved # None /\ i.resolved > i.resolve_due

AckLate(i) == Late(i.acked, i.ack_due)
ResolveLate(i) == Late(i.resolved, i.resolve_due)

Sla(i) ==
    CASE AckLate(i) /\ ResolveLate(i)  -> "both_breached"
      [] AckLate(i) /\ ~ResolveLate(i) -> "ack_breached"
      [] ~AckLate(i) /\ ResolveLate(i) -> "resolve_breached"
      [] OTHER                         -> "within_sla"

-----------------------------------------------------------------------------
(* The operator's calls                                                    *)

Allowed ==
    [open |-> {"acknowledged", "closed", "cancelled"},
     acknowledged |-> {"investigating", "mitigated", "resolved", "cancelled"},
     investigating |-> {"mitigated", "resolved", "cancelled"},
     mitigated |-> {"resolved", "investigating", "cancelled"},
     resolved |-> {"closed", "open"},
     closed |-> {},
     cancelled |-> {}]

(* Incident k becomes i, if its state allows it.                           *)
Transition(k, i) ==
    /\ i.status \in Allowed[incidents[k].status]
    /\ incidents' = [incidents EXCEPT ![k] = i]
    /\ UNCHANGED now

Acknowledge(k) ==
    Transition(k, [incidents[k] EXCEPT !.status = "acknowledged", !.acked = now])

Investigate(k) == Transition(k, [incidents[k] EXCEPT !.status = "investigating"])

Mitigate(k, c) == Transition(k, [incidents[k] EXCEPT !.status = "mitigated", !.cause = c])

(* The level is that of the incident as resolved now.                      *)
Resolve(k) ==
    LET i == [incidents[k] EXCEPT !.status = "resolved", !.resolved = now]
    IN  Transition(k, [i EXCEPT !.sla = Sla(i)])

Close(k) == Transition(k, [incidents[k] EXCEPT !.status = "closed"])

Cancel(k) == Transition(k, [incidents[k] EXCEPT !.status = "cancelled"])

(* A reopened incident keeps its acknowledgement and its due times.        *)
Reopened(i) == [i EXCEPT !.status = "open", !.reopened = TRUE, !.resolved = None]

Reopen(k) == incidents[k].status = "resolved" /\ Transition(k, Reopened(incidents[k]))

Tick == now < MaxNow /\ now' = now + 1 /\ UNCHANGED incidents

(* Only the CLI investigates, mitigates and cancels; the web does the rest *)
(* as well.                                                                *)
Cli == \E k \in DOMAIN incidents :
    \/ Investigate(k)
    \/ \E c \in Cause : Mitigate(k, c)
    \/ Cancel(k)

Console == \E k \in DOMAIN incidents :
    Acknowledge(k) \/ Resolve(k) \/ Close(k) \/ Reopen(k)

Detection == \E s \in Signals : \E n \in {Threshold[s] - 1, Threshold[s]} : Create(s, n)

Next == Detection \/ Cli \/ Console \/ Tick

Spec == Init /\ [][Next]_vars

-----------------------------------------------------------------------------
(* What the dashboard shows, and the overdue digest sends.                 *)
InHand(i) == i.status \in {"open", "acknowledged", "investigating"}

Overdue == {k \in DOMAIN incidents :
    LET i == incidents[k]
    IN  /\ InHand(i)
        /\ (i.acked = None /\ now > i.ack_due) \/ (i.resolved = None /\ now > i.resolve_due)}

(* A late resolution cannot be taken back: once an incident is past the    *)
(* hour in which it had to be resolved, no later call -- a resolution, a   *)
(* reopening, another acknowledgement -- makes it look on time, and the    *)
(* same holds for a late acknowledgement.                                  *)
BreachKept == [][\A k \in DOMAIN incidents :
    /\ AckLate(incidents[k]) => AckLate(incidents[k])'
    /\ ResolveLate(incidents[k]) => ResolveLate(incidents[k])']_vars

(* An incident in hand past its resolution time is on the overdue list,    *)
(* also when it was resolved in time once and reopened.  (A mitigated one  *)
(* is not: the dashboard does not count it as open, the repository does.)  *)
LateListed == \A k \in DOMAIN incidents :
    InHand(incidents[k]) /\ now > incidents[k].resolve_due => k \in Overdue
=============================================================================
