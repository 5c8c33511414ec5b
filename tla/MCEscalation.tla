---------------------------- MODULE MCEscalation ----------------------------
(***************************************************************************)
(* Small instances of Escalation for TLC: one alert, of a job that failed, *)
(* with the key and the policy that AlertPolicies finds for it.            *)
(***************************************************************************)
EXTENDS Escalation, Sequences

CONSTANTS s1, sandbox, collect

(* The shape of the default policies in small numbers: reminders that stop *)
(* at a maximum or an acknowledgement, a first step for anything that      *)
(* stayed open, and a second one for what was also reminded of.            *)
JobPolicy ==
    [reminderEnabled |-> TRUE, reminderInterval |-> 1, reminderMax |-> 1,
     remindAfterAck |-> FALSE, silenceRespected |-> TRUE,
     escalationEnabled |-> TRUE, lastStep |-> 2,
     steps |-> <<[after |-> 1, minRepeat |-> 0, cooldown |-> 2, requireUnacked |-> TRUE],
                 [after |-> 2, minRepeat |-> 1, cooldown |-> 2, requireUnacked |-> TRUE]>>]

SystemFallback == [JobPolicy EXCEPT !.reminderMax = 3, !.escalationEnabled = FALSE, !.lastStep = 0, !.steps = <<>>]

JobDefaults ==
    <<[id |-> "default_scheduled_job_failed", event |-> "scheduled_job_failed",
       seller |-> None, environment |-> None, enabled |-> TRUE, terms |-> JobPolicy]>>

Alerts == INSTANCE AlertPolicies WITH DefaultPolicies <- JobDefaults, Fallback <- SystemFallback

MCKeys == {Alerts!JobRunKey([seller |-> s1, environment |-> sandbox, job |-> collect])}

MCPolicy == [k \in Keys |-> JobPolicy]

JobNames == [k \in Keys |-> k.logical]

-----------------------------------------------------------------------------
(* All tables of two policies for one type of event.                       *)
Scopes == {None, s1} \X {None, sandbox}
Tables ==
    {<<Alerts!Row(1, "scheduled_job_failed", a[1], a[2], on, "first"),
       Alerts!Row(2, "scheduled_job_failed", b[1], b[2], TRUE, "second")>> :
         a \in Scopes, b \in Scopes, on \in BOOLEAN}

Applies(p, scope) == p.enabled /\ p.seller \in {None, scope[1]} /\ p.environment \in {None, scope[2]}

(* An environment weighs more than a seller.                               *)
Weight(p) == (IF p.environment = None THEN 0 ELSE 2) + (IF p.seller = None THEN 0 ELSE 1)

(* The policy that is found applies, and none that applies weighs more.    *)
ASSUME BestIsHeaviest ==
    \A table \in Tables, scope \in Scopes :
        LET found == Alerts!Best(table, scope[1], scope[2], "scheduled_job_failed")
            applying == {i \in DOMAIN table : Applies(table[i], scope)}
        IN IF applying = {} THEN found = None
           ELSE /\ Applies(found, scope)
                /\ \A i \in applying : Weight(table[i]) <= Weight(found)

(* The policy of the instance is the one that the seeded table yields.     *)
ASSUME PolicyIsResolved ==
    \A k \in Keys :
        Policy[k] = Alerts!Resolve(Alerts!Seeded(<<>>), k.seller, k.environment, k.event)

(* A failed job makes one alert, whether its log or its run is read first. *)
ASSUME OneKeyPerFailure ==
    \A scope \in Scopes :
        Alerts!JobRunKey([seller |-> scope[1], environment |-> scope[2], job |-> collect])
            = Alerts!HistoryKey([event |-> "scheduled_job_failed", seller |-> scope[1], environment |-> scope[2],
                                 sku |-> None, job |-> collect, check |-> None, id |-> s1])

(* What was disabled altogether is enabled again by the next bootstrap.    *)
ASSUME SeededAgain ==
    Alerts!Seeded(<<[JobDefaults[1] EXCEPT !.enabled = FALSE, !.terms = SystemFallback]>>) = JobDefaults
=============================================================================
