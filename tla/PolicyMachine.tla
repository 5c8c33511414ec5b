--------------------------- MODULE PolicyMachine ---------------------------
(***************************************************************************)
(* The state machine of the operations policies, and the two jobs that     *)
(* look for policies whose time is over.  The console asks the machine     *)
(* only which transitions there are and writes the policies itself         *)
(* (OpsPolicy); the jobs change them past the machine.  Each operation     *)
(* returns the policy, or None where the machine raises.                   *)
(***************************************************************************)
EXTENDS Integers, Sequences, FiniteSets

CONSTANTS None,
          PageSize        \* how many policies a listing returns

-----------------------------------------------------------------------------
(* The machine                                                             *)

Allowed ==
    [proposed |-> {"approved", "rejected", "cancelled"},
     approved |-> {"active", "cancelled"},
     active |-> {"released", "expired", "cancelled"},
     rejected |-> {}, released |-> {}, expired |-> {}, cancelled |-> {}]

Propose(p) == IF p.status = "proposed" THEN p ELSE None

(* A strong policy wants somebody who approves and a date of review.       *)
Approve(p, by) ==
    IF "approved" \in Allowed[p.status] /\ (p.strong => by # None /\ p.review_due # None)
    THEN [p EXCEPT !.status = "approved", !.approved_by = by]
    ELSE None

Activate(p, now) ==
    IF "active" \in Allowed[p.status]
    THEN [p EXCEPT !.status = "active", !.applied_at = now] ELSE None

Reject(p) ==
    IF "rejected" \in Allowed[p.status] THEN [p EXCEPT !.status = "rejected"] ELSE None

Release(p, now) ==
    IF "released" \in Allowed[p.status]
    THEN [p EXCEPT !.status = "released", !.released_at = now] ELSE None

Expire(p) ==
    IF "expired" \in Allowed[p.status]
    THEN [p EXCEPT !.status = "expired", !.is_expired = TRUE] ELSE None

Cancel(p) ==
    IF "cancelled" \in Allowed[p.status] THEN [p EXCEPT !.status = "cancelled"] ELSE None

-----------------------------------------------------------------------------
(* The jobs, over the policies in the order in which they were made        *)

(* The newest policies of a status, as a listing returns them.             *)
Page(policies, status) ==
    LET those == {k \in DOMAIN policies : policies[k].status = status}
    IN  {k \in those : Cardinality({newer \in those : newer > k}) < PageSize}

(* The job reports what it expires; a dry run reports the same.            *)
Expiry(policies, now, dry) ==
    LET over == {k \in Page(policies, "active") :
                    policies[k].effective_until # None /\ policies[k].effective_until < now}
    IN  [reported |-> over,
         policies |-> [k \in DOMAIN policies |->
             IF k \in over /\ ~dry
             THEN [policies[k] EXCEPT !.status = "expired", !.is_expired = TRUE]
             ELSE policies[k]]]

ReviewDueScan(policies, now) ==
    {k \in Page(policies, "approved") :
        policies[k].review_due # None /\ policies[k].review_due < now}
=============================================================================
