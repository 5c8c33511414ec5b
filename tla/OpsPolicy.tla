----------------------------- MODULE OpsPolicy -----------------------------
(***************************************************************************)
(* Operations policies as the web console handles them.  The policies live *)
(* in the memory of the server, one object each, which every thread reads  *)
(* and writes: a request checks the transition, then enters the new        *)
(* status, and only then writes what goes with it (the approver, then the  *)
(* review date, if it can be read), with no lock around the three.         *)
(*                                                                         *)
(* The CLI has the same commands over a store of its own that ends with    *)
(* the process, so that it finds no policy to change.  Nothing fills       *)
(* effective_until, so that the expiry job finds none either, and the      *)
(* scan for candidates returns none: policies are those made by hand.      *)
(* Notes and events are only shown, and left out.                          *)
(***************************************************************************)
EXTENDS Integers, Sequences

CONSTANTS
    Requests,       \* the threads of the server
    Actions,        \* the kinds of policy that are made
    MaxPolicies     \* bound on the policies

VARIABLES
    policies,       \* the management service's store, the oldest first
    requests        \* where each thread is

vars == <<policies, requests>>

-----------------------------------------------------------------------------
Status == {"proposed", "approved", "active", "rejected", "released", "expired", "cancelled"}

ActionType == {"block_live_execution", "force_dry_run", "pause_handoff", "suppress_retry",
    "limit_concurrency", "limit_seller_throughput", "require_manual_review",
    "block_listing_creation", "environment_safe_mode", "operator_attention_required"}

(* The actions whose policies are strong, at the severity of those made by *)
(* hand; the others are overlays.                                          *)
StrongActions == {"block_live_execution", "environment_safe_mode", "block_listing_creation"}

Policy == [strong: BOOLEAN, status: Status, approved: BOOLEAN, review_due: BOOLEAN,
           applied: BOOLEAN, released: BOOLEAN, misread: BOOLEAN]

(* The review date that comes with a request: none, a date, or a text that *)
(* is not one.                                                             *)
Due == {"none", "date", "text"}

(* A request for a transition of policy k.                                 *)
Request == [pc: {"idle", "enter", "stamp"}, k: Nat, target: Status, due: Due]

TypeOK ==
    /\ policies \in Seq(Policy)
    /\ requests \in [Requests -> Request]

Idle == [pc |-> "idle", k |-> 0, target |-> "proposed", due |-> "none"]

Init == policies = <<>> /\ requests = [r \in Requests |-> Idle]

-----------------------------------------------------------------------------
Allowed ==
    [proposed |-> {"approved", "rejected", "cancelled"},
     approved |-> {"active", "cancelled"},
     active |-> {"released", "expired", "cancelled"},
     rejected |-> {}, released |-> {}, expired |-> {}, cancelled |-> {}]

(* A policy made by hand waits for approval and has no review date.        *)
Made(a) == [strong |-> a \in StrongActions, status |-> "proposed", approved |-> FALSE,
            review_due |-> FALSE, applied |-> FALSE, released |-> FALSE, misread |-> FALSE]

Create(a) ==
    /\ Len(policies) < MaxPolicies
    /\ policies' = Append(policies, Made(a))
    /\ UNCHANGED requests

(* A strong policy is approved with a review date, given or stored.        *)
Reviewable(p, due) == p.strong => due # "none" \/ p.review_due

(* Mutated form: the date is not asked for.                                *)
AskNoDate(r, k, target, due) ==
    /\ requests[r].pc = "idle"
    /\ target # "approved" => due = "none"
    /\ target \in Allowed[policies[k].status]
    /\ requests' = [requests EXCEPT ![r] =
           [pc |-> "enter", k |-> k, target |-> target, due |-> due]]
    /\ UNCHANGED policies

(* The checks of a request, which read the policy as it is now, and look   *)
(* only at whether there is a review date.                                 *)
Ask(r, k, target, due) ==
    /\ requests[r].pc = "idle"
    /\ target = "approved" => Reviewable(policies[k], due)
    /\ target # "approved" => due = "none"
    /\ target \in Allowed[policies[k].status]
    /\ requests' = [requests EXCEPT ![r] =
           [pc |-> "enter", k |-> k, target |-> target, due |-> due]]
    /\ UNCHANGED policies

Enter(r) ==
    /\ requests[r].pc = "enter"
    /\ policies' = [policies EXCEPT ![requests[r].k].status = requests[r].target]
    /\ requests' = [requests EXCEPT ![r].pc = "stamp"]

(* What goes with the status, and the end of the request; the reading of a *)
(* text raises when the policy is approved already.                        *)
Stamped(p, target, due) ==
    [p EXCEPT !.approved = @ \/ target = "approved",
              !.review_due = @ \/ due = "date",
              !.misread = @ \/ due = "text",
              !.applied = @ \/ target = "active",
              !.released = @ \/ target = "released"]

Stamp(r) ==
    /\ requests[r].pc = "stamp"
    /\ policies' = [policies EXCEPT ![requests[r].k] =
           Stamped(@, requests[r].target, requests[r].due)]
    /\ requests' = [requests EXCEPT ![r] = Idle]

(* The transitions that have a route.                                      *)
Routes == {"approved", "active", "released", "rejected", "cancelled"}

Next ==
    \/ \E a \in Actions : Create(a)
    \/ \E r \in Requests, k \in DOMAIN policies, target \in Routes, due \in Due :
           Ask(r, k, target, due)
    \/ \E r \in Requests : Enter(r) \/ Stamp(r)

Spec == Init /\ [][Next]_vars

-----------------------------------------------------------------------------
Settled(k) == \A r \in Requests : requests[r].k # k

(* However the threads interleave, a policy that took effect and that no   *)
(* request is changing any more was approved by somebody, and a strong one *)
(* has the date by which it is to be reviewed, unless what was given for   *)
(* it could not be read.  (That exception, and a policy cancelled between  *)
(* the check and the write of its activation, which becomes active, are    *)
(* what the routes do break.)                                              *)
StrongReviewed == \A k \in DOMAIN policies :
    LET p == policies[k]
    IN  Settled(k) /\ (p.applied \/ p.released) => p.approved /\ (p.strong => p.review_due \/ p.misread)
=============================================================================
