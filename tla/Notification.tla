---------------------------- MODULE Notification ----------------------------
(***************************************************************************)
(* Notifications.  Every process (the scheduler, the server of the         *)
(* console, each command) has a dispatcher of its own: an event is         *)
(* classified, the rules that match it are each asked whether they are     *)
(* cooling down, and the channels of the others are tried one by one.      *)
(* What a channel accepts starts the cooldown of the event's type.  Every  *)
(* trial leaves a row of history, from which the event can be sent again.  *)
(*                                                                         *)
(* A type stands for a type with its SKU, which is the key of a cooldown.  *)
(* No rule has a window of deduplication, so that the deduper, which keeps *)
(* times of its own, never speaks.  Titles, priorities and templates are   *)
(* left out.                                                               *)
(***************************************************************************)
EXTENDS Integers

CONSTANTS
    Processes,      \* the processes with a dispatcher
    EventTypes,     \* the types of the events that occur
    Profile,        \* the channels that a seller's binding asks for
    MaxNow,         \* bound on the clock, in minutes
    None            \* nothing

VARIABLES
    now,            \* the clock
    registered,     \* the channels with a notifier
    last_dispatched,\* of each process: when it last got a type through
    history,        \* the types that have a row of history
    accepted,       \* when a channel last accepted a type
    batch           \* the last batch

vars == <<now, registered, last_dispatched, history, accepted, batch>>

-----------------------------------------------------------------------------
Channels == {"console", "slack", "email", "webhook"}

(* The rules: each is for types of its own.                                *)
Rules == {
    [types |-> {"auth_refresh_failed", "invalid_grant_detected"}, severities |-> {"critical"},
     channels |-> Channels, cooldown |-> 5],
    [types |-> {"scheduled_job_failed"}, severities |-> {"error"},
     channels |-> Channels \ {"email"}, cooldown |-> 1],
    [types |-> {"listing_drift_detected"}, severities |-> {"warning"},
     channels |-> {"console", "slack"}, cooldown |-> 30],
    [types |-> {"scheduled_job_completed_with_reviews"}, severities |-> {"info"},
     channels |-> {"console", "slack"}, cooldown |-> 0],
    [types |-> {"doctor_check_failed"}, severities |-> {"error", "warning"},
     channels |-> {"console", "slack"}, cooldown |-> 5]}

(* An event: flagged for review, or not, and of no seller, of one in the   *)
(* sandbox, or of one whose binding names channels.                        *)
Event == [type: EventTypes, review: BOOLEAN, seller: {"none", "sandbox", "profile"}]

(* A batch: what was done about an event, and when.                        *)
Batch == [type: EventTypes, at: Nat, did: {"matched none", "cooled down", "dry run", "sent"}]

Times == Nat \cup {None}

TypeOK ==
    /\ now \in Nat
    /\ registered \subseteq Channels
    /\ last_dispatched \in [Processes -> [EventTypes -> Times]]
    /\ history \subseteq EventTypes
    /\ accepted \in [EventTypes -> Times]
    /\ batch \in Batch \cup {None}

Init ==
    /\ now = 0
    /\ registered \in {{"console"}, {"console", "slack"}}
    /\ last_dispatched = [p \in Processes |-> [t \in EventTypes |-> None]]
    /\ history = {}
    /\ accepted = [t \in EventTypes |-> None]
    /\ batch = None

-----------------------------------------------------------------------------
(* The severity by the words of the type, unless a person has to look.  A   *)
(* type without such words keeps the one its event was made with, info by  *)
(* default (invalid_grant_detected, which nothing emits).  Nothing flags an *)
(* event as retryable, which would make a warning of an error.             *)
Severity(e) ==
    CASE e.review -> "warning"
      [] e.type = "auth_refresh_failed" -> "critical"
      [] e.type \in {"scheduled_job_failed", "doctor_check_failed"} -> "error"
      [] e.type = "listing_drift_detected" -> "warning"
      [] OTHER -> "info"

Matching(e) == {rule \in Rules : e.type \in rule.types /\ Severity(e) \in rule.severities}

CoolingDown(p, e, rule) ==
    LET last == last_dispatched[p][e.type]
    IN  last # None /\ now - last < rule.cooldown

(* The channels an event of the seller goes to.                            *)
Routed(e, channels) ==
    CASE e.seller = "sandbox" /\ Severity(e) # "critical" -> {"console"}
      [] e.seller = "profile"                             -> Profile
      [] OTHER                                            -> channels

(* Mutated form: a channel that was tried counts.                          *)
Tried(p, e, ok, tried) ==
    IF tried # {} THEN [last_dispatched EXCEPT ![p][e.type] = now] ELSE last_dispatched

(* One acceptance, of the channels ok among those tried, starts the cooldown. *)
Marked(p, e, ok, tried) ==
    IF ok # {} THEN [last_dispatched EXCEPT ![p][e.type] = now] ELSE last_dispatched

(* What is done about e: every rule is asked on its own, unless the caller *)
(* bypasses the cooldown; a registered channel may still fail.             *)
Dispatch(p, e, dry_run, bypass) ==
    LET speaking == {rule \in Matching(e) : bypass \/ ~CoolingDown(p, e, rule)}
        tried == Routed(e, UNION {rule.channels : rule \in speaking})
        did == CASE Matching(e) = {} -> "matched none"
                 [] Matching(e) # {} /\ speaking = {} -> "cooled down"
                 [] speaking # {} /\ dry_run -> "dry run"
                 [] OTHER -> "sent"
    IN  /\ batch' = [type |-> e.type, at |-> now, did |-> did]
        /\ history' = IF speaking = {} THEN history ELSE history \cup {e.type}
        /\ IF did = "sent"
           THEN \E ok \in SUBSET (tried \cap registered) :
                   /\ last_dispatched' = Marked(p, e, ok, tried)
                   /\ accepted' = IF ok = {} THEN accepted ELSE [accepted EXCEPT ![e.type] = now]
           ELSE UNCHANGED <<last_dispatched, accepted>>
        /\ UNCHANGED <<now, registered>>

(* Jobs, the checks of the doctor and the token service notify; escalation *)
(* and reminders bypass the cooldown.                                      *)
Notify(p) == \E e \in Event, dry_run, bypass \in BOOLEAN : Dispatch(p, e, dry_run, bypass)

(* A row of history gives back the event without its seller and its flag.  *)
Resend(p) == \E t \in history, dry_run, force \in BOOLEAN :
    Dispatch(p, [type |-> t, review |-> FALSE, seller |-> "none"], dry_run, force)

(* The times are lost with the process.                                    *)
Restart(p) ==
    /\ last_dispatched' = [last_dispatched EXCEPT ![p] = [t \in EventTypes |-> None]]
    /\ UNCHANGED <<now, registered, history, accepted, batch>>

Tick ==
    /\ now < MaxNow /\ now' = now + 1
    /\ UNCHANGED <<registered, last_dispatched, history, accepted, batch>>

Next == Tick \/ \E p \in Processes : Notify(p) \/ Resend(p) \/ Restart(p)

Spec == Init /\ [][Next]_vars

-----------------------------------------------------------------------------
(* An alert is only ever kept back by one that got through: when a batch   *)
(* cooled down, some channel had accepted an event of its type within the  *)
(* cooldown, so that channels that fail, dry runs and restarts never leave *)
(* everybody without it.                                                   *)
AlertSeen ==
    batch # None /\ batch.did = "cooled down" =>
        /\ accepted[batch.type] # None
        /\ \E rule \in Rules :
              /\ batch.type \in rule.types
              /\ batch.at - accepted[batch.type] < rule.cooldown
=============================================================================
