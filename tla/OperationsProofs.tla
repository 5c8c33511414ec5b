-------------------------- MODULE OperationsProofs --------------------------
(***************************************************************************)
(* Operations policies, notification, incidents, sellers and configuration *)
(* versions: their most important properties, for any number of threads,   *)
(* processes, policies, incidents, sellers and versions, and clocks        *)
(* without a bound.                                                        *)
(***************************************************************************)
EXTENDS MCOperations, FiniteSetTheorems, TLAPS

-----------------------------------------------------------------------------
(* Operations policies.  A policy is approved once a request has entered   *)
(* that status, although the approver and the date are written only by its *)
(* last step, of which another request may know nothing.                   *)
Policies == DOMAIN policies

Stamping(k) == \E r \in Requests :
    requests[r].pc = "stamp" /\ requests[r].k = k /\ requests[r].target = "approved"

Reviewed(p) == p.strong => p.review_due \/ p.misread

Approval(k) == Stamping(k) \/ (policies[k].approved /\ Reviewed(policies[k]))

RequestInv(r) ==
    \/ requests[r] = Pol!Idle
    \/ /\ requests[r].pc \in {"enter", "stamp"}
       /\ requests[r].k \in Policies
       /\ requests[r].target = "approved" => Pol!Reviewable(policies[requests[r].k], requests[r].due)
       /\ requests[r].target \in {"active", "released"} => Approval(requests[r].k)

PolicyInv(k) ==
    policies[k].status \in {"approved", "active", "released"} \/ policies[k].applied \/ policies[k].released
        => Approval(k)

ReviewInv ==
    /\ Pol!TypeOK
    /\ \A r \in Requests : RequestInv(r)
    /\ \A k \in Policies : PolicyInv(k)

LEMMA ReviewInit == Pol!Init => ReviewInv
BY DEF Pol!Init, Pol!Idle, Pol!TypeOK, Pol!Policy, Pol!Request, Pol!Status, Pol!Due, ReviewInv, RequestInv, Policies

(* A policy that another step leaves alone, or changes only forward, keeps *)
(* its approval.                                                           *)
LEMMA ReviewCreate ==
    ASSUME ReviewInv, NEW a \in Actions, Pol!Create(a) PROVE ReviewInv'
<1>1. /\ policies' = Append(policies, Pol!Made(a)) /\ requests' = requests
      /\ policies \in Seq(Pol!Policy) /\ Pol!Made(a) \in Pol!Policy
  BY DEF Pol!Create, ReviewInv, Pol!TypeOK, Pol!Made, Pol!Policy, Pol!Status
<1>2. /\ policies' \in Seq(Pol!Policy)
      /\ Policies' = 1 .. Len(policies) + 1 /\ Policies = 1 .. Len(policies) /\ Len(policies) \in Nat
      /\ \A k \in Policies : policies'[k] = policies[k]
      /\ policies'[Len(policies) + 1] = Pol!Made(a)
  BY <1>1 DEF Policies
<1>3. \A k \in Policies : Approval(k)' <=> Approval(k)
  BY <1>1, <1>2 DEF Approval, Stamping
<1>4. ASSUME NEW r \in Requests PROVE RequestInv(r)'
  <2>1. RequestInv(r)
    BY DEF ReviewInv
  <2>2. QED BY <1>1, <1>2, <1>3, <2>1 DEF RequestInv, Pol!Idle, Pol!Reviewable
<1>5. ASSUME NEW k \in Policies' PROVE PolicyInv(k)'
  <2>1. CASE k \in Policies
    BY <1>2, <1>3, <2>1 DEF ReviewInv, PolicyInv
  <2>2. CASE k = Len(policies) + 1
    BY <1>2, <2>2 DEF PolicyInv, Pol!Made
  <2>3. QED BY <1>2, <2>1, <2>2
<1>6. Pol!TypeOK'
  BY <1>1, <1>2 DEF ReviewInv, Pol!TypeOK
<1>7. QED BY <1>4, <1>5, <1>6 DEF ReviewInv

LEMMA ReviewAsk ==
    ASSUME ReviewInv, NEW r \in Requests, NEW k \in Policies, NEW target \in Pol!Routes, NEW due \in Pol!Due,
           Pol!Ask(r, k, target, due)
    PROVE  ReviewInv'
<1> DEFINE asked == [pc |-> "enter", k |-> k, target |-> target, due |-> due]
<1>1. /\ requests' = [requests EXCEPT ![r] = asked] /\ policies' = policies
      /\ requests[r].pc = "idle" /\ target \in Pol!Allowed[policies[k].status]
      /\ target = "approved" => Pol!Reviewable(policies[k], due)
      /\ policies \in Seq(Pol!Policy) /\ policies[k] \in Pol!Policy
  BY DEF Pol!Ask, ReviewInv, Pol!TypeOK, Policies
<1>2. /\ requests' \in [Requests -> Pol!Request] /\ asked.pc # "stamp"
      /\ \A q \in Requests : requests'[q] = IF q = r THEN asked ELSE requests[q]
  <2>1. k \in Nat /\ target \in Pol!Status
    BY <1>1 DEF Policies, Pol!Routes, Pol!Status
  <2>2. QED BY <1>1, <2>1 DEF ReviewInv, Pol!TypeOK, Pol!Request
<1>3. \A j \in Policies : Approval(j)' <=> Approval(j)
  BY <1>1, <1>2 DEF Approval, Stamping
<1>4. target \in {"active", "released"} => Approval(k)
  BY <1>1 DEF ReviewInv, PolicyInv, Pol!Allowed, Pol!Policy, Pol!Status
<1>5. ASSUME NEW q \in Requests PROVE RequestInv(q)'
  <2>1. Policies' = Policies /\ RequestInv(q)
    BY <1>1 DEF Policies, ReviewInv
  <2>2. CASE q = r
    BY <1>1, <1>2, <1>3, <1>4, <2>1, <2>2 DEF RequestInv, Pol!Reviewable
  <2>3. CASE q # r
    BY <1>1, <1>2, <1>3, <2>1, <2>3 DEF RequestInv, Pol!Idle, Pol!Reviewable
  <2>4. QED BY <2>2, <2>3
<1>6. ASSUME NEW j \in Policies' PROVE PolicyInv(j)'
  BY <1>1, <1>3 DEF ReviewInv, PolicyInv, Policies
<1>7. QED BY <1>1, <1>2, <1>5, <1>6 DEF ReviewInv, Pol!TypeOK

LEMMA EnteredPolicy ==
    ASSUME NEW p \in Pol!Policy, NEW status \in Pol!Status PROVE [p EXCEPT !.status = status] \in Pol!Policy
BY DEF Pol!Policy

(* What the last step of a request leaves, and what it writes.             *)
LEMMA StampedPolicy ==
    ASSUME NEW p \in Pol!Policy, NEW target, NEW due
    PROVE  LET q == Pol!Stamped(p, target, due)
           IN  /\ q \in Pol!Policy
               /\ q.status = p.status /\ q.strong = p.strong
               /\ q.approved <=> p.approved \/ target = "approved"
               /\ q.review_due <=> p.review_due \/ due = "date"
               /\ q.misread <=> p.misread \/ due = "text"
               /\ q.applied <=> p.applied \/ target = "active"
               /\ q.released <=> p.released \/ target = "released"
<1> DEFINE a == p.approved \/ target = "approved"
           d == p.review_due \/ due = "date"
           m == p.misread \/ due = "text"
           e == p.applied \/ target = "active"
           f == p.released \/ target = "released"
           q == [p EXCEPT !.approved = a, !.review_due = d, !.misread = m, !.applied = e, !.released = f]
<1>1. a \in BOOLEAN /\ d \in BOOLEAN /\ m \in BOOLEAN /\ e \in BOOLEAN /\ f \in BOOLEAN
  OBVIOUS
<1>2. Pol!Stamped(p, target, due) = q
  BY DEF Pol!Stamped
<1> HIDE DEF a, d, m, e, f
<1>3. /\ q \in Pol!Policy
      /\ q.status = p.status /\ q.strong = p.strong
      /\ q.approved = a /\ q.review_due = d /\ q.misread = m /\ q.applied = e /\ q.released = f
  <2>1. DOMAIN p = {"strong", "status", "approved", "review_due", "applied", "released", "misread"}
    BY DEF Pol!Policy
  <2>2. q.status = p.status /\ q.strong = p.strong
    BY <2>1
  <2>3. q.approved = a /\ q.review_due = d
    BY <2>1
  <2>4. q.misread = m /\ q.applied = e /\ q.released = f
    BY <2>1
  <2>5. q \in Pol!Policy
    <3> DEFINE p1 == [p EXCEPT !.approved = a, !.review_due = d]
    <3>1. p1 \in Pol!Policy
      BY <1>1 DEF Pol!Policy
    <3>2. q = [p1 EXCEPT !.misread = m, !.applied = e, !.released = f]
      OBVIOUS
    <3> HIDE DEF p1
    <3>3. [p1 EXCEPT !.misread = m, !.applied = e, !.released = f] \in Pol!Policy
      BY <1>1, <3>1 DEF Pol!Policy
    <3>4. QED BY <3>2, <3>3
  <2>6. QED BY <2>2, <2>3, <2>4, <2>5
<1> HIDE DEF q
<1>4. QED BY <1>2, <1>3 DEF a, d, m, e, f

(* A status is entered: the approval of another policy does not change,    *)
(* and this one's is what the request was let through on.                  *)
LEMMA ReviewEnter ==
    ASSUME ReviewInv, NEW r \in Requests, Pol!Enter(r) PROVE ReviewInv'
<1> DEFINE k == requests[r].k
           target == requests[r].target
<1>1. /\ requests[r].pc = "enter"
      /\ policies' = [policies EXCEPT ![k].status = target]
      /\ requests' = [requests EXCEPT ![r].pc = "stamp"]
      /\ policies \in Seq(Pol!Policy) /\ requests \in [Requests -> Pol!Request]
      /\ k \in Policies /\ RequestInv(r)
  BY DEF Pol!Enter, ReviewInv, Pol!TypeOK, RequestInv, Pol!Idle
<1>2. /\ policies' \in Seq(Pol!Policy) /\ Policies' = Policies
      /\ \A j \in Policies : policies'[j] = IF j = k THEN [policies[k] EXCEPT !.status = target] ELSE policies[j]
      /\ \A j \in Policies : policies[j] \in Pol!Policy
  <2>1. target \in Pol!Status
    BY <1>1 DEF Pol!Request
  <2>2. policies[k] \in Pol!Policy /\ [policies[k] EXCEPT !.status = target] \in Pol!Policy
    BY <1>1, <2>1, EnteredPolicy DEF Policies
  <2>3. policies' = [policies EXCEPT ![k] = [policies[k] EXCEPT !.status = target]]
    BY <1>1
  <2>4. QED BY <1>1, <2>2, <2>3 DEF Policies
<1>3. /\ requests' \in [Requests -> Pol!Request]
      /\ \A q \in Requests : requests'[q] = IF q = r THEN [requests[r] EXCEPT !.pc = "stamp"] ELSE requests[q]
  BY <1>1 DEF Pol!Request
<1>4. \A j \in Policies :
         /\ policies'[j].approved = policies[j].approved /\ policies'[j].strong = policies[j].strong
         /\ policies'[j].review_due = policies[j].review_due
         /\ policies'[j].misread = policies[j].misread
         /\ policies'[j].applied = policies[j].applied /\ policies'[j].released = policies[j].released
  BY <1>2 DEF Pol!Policy
<1>5. /\ requests'[r].pc = "stamp" /\ requests'[r].k = k /\ requests'[r].target = target
      /\ requests'[r].due = requests[r].due
  BY <1>1, <1>3 DEF Pol!Request
<1>6. \A j \in Policies : Stamping(j) => Stamping(j)'
  BY <1>1, <1>3, <1>5 DEF Stamping
<1>7. \A j \in Policies : Approval(j) => Approval(j)'
  BY <1>4, <1>6 DEF Approval, Reviewed
<1>8. target \in {"approved", "active", "released"} => Approval(k)'
  <2>1. CASE target = "approved"
    BY <1>5, <2>1 DEF Approval, Stamping
  <2>2. CASE target \in {"active", "released"}
    BY <1>1, <1>7, <2>2 DEF RequestInv, Pol!Idle
  <2>3. QED BY <2>1, <2>2
<1>9. ASSUME NEW q \in Requests PROVE RequestInv(q)'
  <2>1. RequestInv(q)
    BY DEF ReviewInv
  <2>2. CASE q = r
    <3>1. target = "approved" => Pol!Reviewable(policies'[k], requests'[r].due)
      BY <1>1, <1>4, <1>5 DEF RequestInv, Pol!Idle, Pol!Reviewable
    <3>2. QED BY <1>1, <1>2, <1>5, <1>8, <2>2, <3>1 DEF RequestInv, Pol!Reviewable
  <2>3. CASE q # r
    <3>1. requests'[q] = requests[q]
      BY <1>3, <2>3
    <3>2. QED BY <1>2, <1>4, <1>7, <2>1, <3>1 DEF RequestInv, Pol!Idle, Pol!Reviewable
  <2>4. QED BY <2>2, <2>3
<1>10. ASSUME NEW j \in Policies' PROVE PolicyInv(j)'
  <2>1. CASE j = k
    <3>1. policies'[k].status = target
      BY <1>1, <1>2 DEF Pol!Policy
    <3>2. QED BY <1>1, <1>4, <1>7, <1>8, <2>1, <3>1 DEF ReviewInv, PolicyInv
  <2>2. CASE j # k
    BY <1>2, <1>7, <2>2 DEF ReviewInv, PolicyInv
  <2>3. QED BY <2>1, <2>2
<1>11. QED BY <1>2, <1>3, <1>9, <1>10 DEF ReviewInv, Pol!TypeOK

(* The end of a request: an approval that was pending is now written.      *)
LEMMA ReviewStamp ==
    ASSUME ReviewInv, NEW r \in Requests, Pol!Stamp(r) PROVE ReviewInv'
<1> DEFINE k == requests[r].k
           target == requests[r].target
           due == requests[r].due
<1>1. /\ requests[r].pc = "stamp"
      /\ policies' = [policies EXCEPT ![k] = Pol!Stamped(@, target, due)]
      /\ requests' = [requests EXCEPT ![r] = Pol!Idle]
      /\ policies \in Seq(Pol!Policy) /\ requests \in [Requests -> Pol!Request]
      /\ k \in Policies /\ RequestInv(r)
  BY DEF Pol!Stamp, ReviewInv, Pol!TypeOK, RequestInv, Pol!Idle
<1>2. /\ policies' \in Seq(Pol!Policy) /\ Policies' = Policies
      /\ \A j \in Policies : policies'[j] = IF j = k THEN Pol!Stamped(policies[k], target, due) ELSE policies[j]
      /\ \A j \in Policies : policies[j] \in Pol!Policy
  <2>1. policies[k] \in Pol!Policy /\ Pol!Stamped(policies[k], target, due) \in Pol!Policy
    BY <1>1, StampedPolicy DEF Policies
  <2>2. QED BY <1>1, <2>1 DEF Policies
<1>3. /\ requests' \in [Requests -> Pol!Request]
      /\ \A q \in Requests : requests'[q] = IF q = r THEN Pol!Idle ELSE requests[q]
  BY <1>1 DEF Pol!Request, Pol!Idle, Pol!Status, Pol!Due
<1>4. \A j \in Policies :
         /\ policies'[j].status = policies[j].status /\ policies'[j].strong = policies[j].strong
         /\ policies[j].approved => policies'[j].approved
         /\ policies[j].review_due => policies'[j].review_due
         /\ policies[j].misread => policies'[j].misread
  BY <1>2, StampedPolicy
<1>5. target = "approved" => policies'[k].approved /\ Reviewed(policies'[k])
  <2>1. ASSUME target = "approved"
        PROVE  /\ policies'[k].approved
               /\ due = "date" => policies'[k].review_due
               /\ due = "text" => policies'[k].misread
    BY <1>1, <1>2, <2>1, StampedPolicy
  <2>2. due \in {"none", "date", "text"}
    BY <1>1 DEF Pol!Request, Pol!Due
  <2>3. target = "approved" => Pol!Reviewable(policies[k], due)
    BY <1>1 DEF RequestInv, Pol!Idle
  <2>4. QED BY <1>1, <1>4, <2>1, <2>2, <2>3 DEF Reviewed, Pol!Reviewable
<1>6. ASSUME NEW j \in Policies, Approval(j) PROVE Approval(j)'
  <2>1. CASE policies[j].approved /\ Reviewed(policies[j])
    BY <1>4, <2>1 DEF Approval, Reviewed
  <2>2. CASE Stamping(j)
    <3>1. PICK q \in Requests : requests[q].pc = "stamp" /\ requests[q].k = j /\ requests[q].target = "approved"
      BY <2>2 DEF Stamping
    <3>2. CASE q = r
      BY <1>5, <3>1, <3>2 DEF Approval
    <3>3. CASE q # r
      BY <1>3, <3>1, <3>3 DEF Approval, Stamping
    <3>4. QED BY <3>2, <3>3
  <2>3. QED BY <1>6, <2>1, <2>2 DEF Approval
<1>7. ASSUME NEW q \in Requests PROVE RequestInv(q)'
  <2>1. CASE q = r
    BY <1>3, <2>1 DEF RequestInv
  <2>2. CASE q # r
    <3>1. requests'[q] = requests[q] /\ RequestInv(q)
      BY <1>3, <2>2 DEF ReviewInv
    <3>2. QED BY <1>2, <1>4, <1>6, <3>1 DEF RequestInv, Pol!Idle, Pol!Reviewable
  <2>3. QED BY <2>1, <2>2
<1>8. ASSUME NEW j \in Policies' PROVE PolicyInv(j)'
  <2>1. CASE j = k
    <3>1. (policies'[k].applied => policies[k].applied \/ target = "active")
          /\ (policies'[k].released => policies[k].released \/ target = "released")
      BY <1>1, <1>2, StampedPolicy
    <3>2. target \in {"active", "released"} => Approval(k)
      BY <1>1 DEF RequestInv, Pol!Idle
    <3>3. QED BY <1>1, <1>4, <1>6, <2>1, <3>1, <3>2 DEF ReviewInv, PolicyInv
  <2>2. CASE j # k
    BY <1>2, <1>6, <2>2 DEF ReviewInv, PolicyInv
  <2>3. QED BY <2>1, <2>2
<1>9. QED BY <1>2, <1>3, <1>7, <1>8 DEF ReviewInv, Pol!TypeOK

LEMMA ReviewStep == ReviewInv /\ [Pol!Next]_(Pol!vars) => ReviewInv'
<1>1. SUFFICES ASSUME ReviewInv, [Pol!Next]_(Pol!vars) PROVE ReviewInv'
  OBVIOUS
<1>2. CASE \E a \in Actions : Pol!Create(a)
  BY <1>1, <1>2, ReviewCreate
<1>3. CASE \E r \in Requests, k \in DOMAIN policies, target \in Pol!Routes, due \in Pol!Due : Pol!Ask(r, k, target, due)
  BY <1>1, <1>3, ReviewAsk DEF Policies
<1>4. CASE \E r \in Requests : Pol!Enter(r) \/ Pol!Stamp(r)
  BY <1>1, <1>4, ReviewEnter, ReviewStamp
<1>5. CASE UNCHANGED Pol!vars
  BY <1>1, <1>5 DEF Pol!vars, ReviewInv, Pol!TypeOK, RequestInv, PolicyInv, Approval, Stamping, Reviewed, Policies
<1>6. QED BY <1>1, <1>2, <1>3, <1>4, <1>5 DEF Pol!Next

(* No order of the threads makes a strong policy take effect without an    *)
(* approver and a date of review (admin_web/routes/policy_routes.py).      *)
THEOREM StrongPolicies == Pol!Spec => []StrongReviewed
<1>1. ReviewInv => StrongReviewed
  <2>1. SUFFICES ASSUME ReviewInv, NEW k \in DOMAIN policies, Pol!Settled(k),
                        policies[k].applied \/ policies[k].released
                 PROVE  policies[k].approved /\ Reviewed(policies[k])
    BY DEF StrongReviewed, Pol!StrongReviewed, Reviewed
  <2>2. Approval(k) /\ ~Stamping(k)
    BY <2>1 DEF ReviewInv, PolicyInv, Policies, Stamping, Pol!Settled
  <2>3. QED BY <2>2 DEF Approval
<1>2. QED BY ReviewInit, ReviewStep, <1>1, PTL DEF Pol!Spec

-----------------------------------------------------------------------------
(* Incidents.  A time once written is in the past, and what is in hand has *)
(* no resolution; with that, a step that writes or takes back a time       *)
(* leaves late what was late.                                              *)
IncidentAssumption == Signals \subseteq DOMAIN Inc!Threshold /\ None \notin Nat

Unresolved == {"open", "acknowledged", "investigating", "mitigated"}

(* An incident as it may be at hour n.                                     *)
SoundAt(i, n) ==
    /\ i \in Inc!Incident
    /\ i.acked # None => i.acked <= n
    /\ i.resolved # None => i.resolved <= n
    /\ i.status \in Unresolved => i.resolved = None

LateAt(at, due, n) == IF at = None THEN n > due ELSE at > due

(* Incident j at hour m follows on i at hour n.                            *)
Follows(i, n, j, m) ==
    /\ SoundAt(j, m)
    /\ LateAt(i.acked, i.ack_due, n) => LateAt(j.acked, j.ack_due, m)
    /\ LateAt(i.resolved, i.resolve_due, n) => LateAt(j.resolved, j.resolve_due, m)

IncidentInv ==
    /\ hour \in Nat /\ incidents \in Seq(Inc!Incident)
    /\ \A k \in DOMAIN incidents : SoundAt(incidents[k], hour)

LEMMA IncidentOpened ==
    ASSUME IncidentAssumption, hour \in Nat, NEW s \in Signals PROVE SoundAt(Inc!Opened(s), hour)
<1>1. Inc!Severity[s] \in {"critical", "high", "medium"} /\ Inc!Severity[s] \in DOMAIN Inc!Policy
  BY DEF IncidentAssumption, Inc!Threshold, Inc!Severity, Inc!Policy
<1>2. Inc!Policy[Inc!Severity[s]][1] \in Nat /\ Inc!Policy[Inc!Severity[s]][2] \in Nat
  BY <1>1 DEF Inc!Policy
<1>3. QED BY <1>1, <1>2 DEF IncidentAssumption, SoundAt, Inc!Opened, Inc!Incident, Inc!Status, Inc!SlaState

(* What each of the operator's calls makes of an incident follows on it.   *)
LEMMA IncidentMoved ==
    ASSUME IncidentAssumption, hour \in Nat, NEW i, SoundAt(i, hour),
           NEW status \in Inc!Status, status \in Unresolved => i.status \in Unresolved
    PROVE  Follows(i, hour, [i EXCEPT !.status = status], hour)
BY DEF IncidentAssumption, SoundAt, Follows, LateAt, Unresolved, Inc!Incident, Inc!Status

LEMMA IncidentAcknowledged ==
    ASSUME IncidentAssumption, hour \in Nat, NEW i, SoundAt(i, hour), i.status \in Unresolved
    PROVE  Follows(i, hour, [i EXCEPT !.status = "acknowledged", !.acked = hour], hour)
<1> DEFINE j == [i EXCEPT !.status = "acknowledged", !.acked = hour]
<1>1. i \in Inc!Incident /\ i.ack_due \in Nat /\ i.resolve_due \in Nat
      /\ i.acked \in Nat \cup {None} /\ i.resolved \in Nat \cup {None}
  BY DEF SoundAt, Inc!Incident
<1>2. j \in Inc!Incident
  BY <1>1 DEF Inc!Incident, Inc!Status
<1>3. /\ j.status = "acknowledged" /\ j.acked = hour /\ j.resolved = i.resolved
      /\ j.ack_due = i.ack_due /\ j.resolve_due = i.resolve_due
  BY <1>1 DEF Inc!Incident
<1> HIDE DEF j
<1>4. Follows(i, hour, j, hour)
  BY <1>1, <1>2, <1>3 DEF IncidentAssumption, SoundAt, Follows, LateAt, Unresolved
<1>5. QED BY <1>4 DEF j

LEMMA IncidentMitigated ==
    ASSUME IncidentAssumption, hour \in Nat, NEW i, SoundAt(i, hour), i.status \in Unresolved, NEW c \in Inc!Cause
    PROVE  Follows(i, hour, [i EXCEPT !.status = "mitigated", !.cause = c], hour)
BY DEF IncidentAssumption, SoundAt, Follows, LateAt, Unresolved, Inc!Incident, Inc!Status

LEMMA IncidentResolved ==
    ASSUME IncidentAssumption, hour \in Nat, NEW i, SoundAt(i, hour), i.status \in Unresolved, NEW sla \in Inc!SlaState
    PROVE  Follows(i, hour, [[i EXCEPT !.status = "resolved", !.resolved = hour] EXCEPT !.sla = sla], hour)
<1> DEFINE j == [[i EXCEPT !.status = "resolved", !.resolved = hour] EXCEPT !.sla = sla]
<1>1. i \in Inc!Incident /\ i.ack_due \in Nat /\ i.resolve_due \in Nat
      /\ i.acked \in Nat \cup {None} /\ i.resolved \in Nat \cup {None}
  BY DEF SoundAt, Inc!Incident
<1>2. j \in Inc!Incident
  BY <1>1 DEF Inc!Incident, Inc!Status
<1>3. /\ j.status = "resolved" /\ j.acked = i.acked /\ j.resolved = hour
      /\ j.ack_due = i.ack_due /\ j.resolve_due = i.resolve_due
  BY <1>1 DEF Inc!Incident
<1> HIDE DEF j
<1>4. Follows(i, hour, j, hour)
  BY <1>1, <1>2, <1>3 DEF IncidentAssumption, SoundAt, Follows, LateAt, Unresolved
<1>5. QED BY <1>4 DEF j

LEMMA IncidentReopened ==
    ASSUME IncidentAssumption, hour \in Nat, NEW i, SoundAt(i, hour)
    PROVE  Follows(i, hour, Inc!Reopened(i), hour)
<1> DEFINE j == [i EXCEPT !.status = "open", !.reopened = TRUE, !.resolved = None]
<1>1. i \in Inc!Incident /\ i.ack_due \in Nat /\ i.resolve_due \in Nat
      /\ i.acked \in Nat \cup {None} /\ i.resolved \in Nat \cup {None}
  BY DEF SoundAt, Inc!Incident
<1>2. j \in Inc!Incident
  BY <1>1 DEF Inc!Incident, Inc!Status
<1>3. /\ j.status = "open" /\ j.acked = i.acked /\ j.resolved = None
      /\ j.ack_due = i.ack_due /\ j.resolve_due = i.resolve_due
  BY <1>1 DEF Inc!Incident
<1> HIDE DEF j
<1>4. Follows(i, hour, j, hour)
  BY <1>1, <1>2, <1>3 DEF IncidentAssumption, SoundAt, Follows, LateAt, Unresolved
<1>5. QED BY <1>4 DEF j, Inc!Reopened

(* An hour passes over an incident.                                        *)
LEMMA IncidentWaits ==
    ASSUME IncidentAssumption, hour \in Nat, NEW i, SoundAt(i, hour), NEW m \in {hour, hour + 1}
    PROVE  Follows(i, hour, i, m)
BY DEF IncidentAssumption, SoundAt, Follows, LateAt, Unresolved, Inc!Incident, Inc!Status

(* A step lets every incident follow on itself.                            *)
LEMMA IncidentFollows ==
    ASSUME IncidentAssumption, IncidentInv, [Inc!Next]_(Inc!vars)
    PROVE  /\ hour' \in Nat /\ incidents' \in Seq(Inc!Incident)
           /\ \A k \in DOMAIN incidents : k \in DOMAIN incidents' /\ Follows(incidents[k], hour, incidents'[k], hour')
           /\ \A k \in DOMAIN incidents' : SoundAt(incidents'[k], hour')
<1> DEFINE Goal == /\ hour' \in Nat /\ incidents' \in Seq(Inc!Incident)
                   /\ \A k \in DOMAIN incidents :
                         k \in DOMAIN incidents' /\ Follows(incidents[k], hour, incidents'[k], hour')
                   /\ \A k \in DOMAIN incidents' : SoundAt(incidents'[k], hour')
<1>1. /\ hour \in Nat /\ incidents \in Seq(Inc!Incident)
      /\ \A k \in DOMAIN incidents : SoundAt(incidents[k], hour)
  BY DEF IncidentInv
<1>2. CASE Inc!Detection
  <2>1. PICK s \in Signals : \E n : Inc!Create(s, n)
    BY <1>2 DEF Inc!Detection
  <2>2. hour' = hour /\ (incidents' = incidents \/ incidents' = Append(incidents, Inc!Opened(s)))
    BY <2>1 DEF Inc!Create
  <2>3. CASE incidents' = incidents
    BY <1>1, <2>2, <2>3, IncidentWaits
  <2>4. CASE incidents' = Append(incidents, Inc!Opened(s))
    <3>1. SoundAt(Inc!Opened(s), hour) /\ Inc!Opened(s) \in Inc!Incident
      BY <1>1, IncidentOpened DEF SoundAt
    <3>2. /\ incidents' \in Seq(Inc!Incident) /\ DOMAIN incidents' = 1 .. Len(incidents) + 1
          /\ DOMAIN incidents = 1 .. Len(incidents) /\ Len(incidents) \in Nat
          /\ \A k \in DOMAIN incidents : incidents'[k] = incidents[k]
          /\ incidents'[Len(incidents) + 1] = Inc!Opened(s)
      BY <1>1, <2>4, <3>1
    <3>3. QED BY <1>1, <2>2, <3>1, <3>2, IncidentWaits
  <2>5. QED BY <2>2, <2>3, <2>4
<1>3. ASSUME NEW k \in DOMAIN incidents, NEW i, Inc!Transition(k, i), Follows(incidents[k], hour, i, hour)
      PROVE  Goal
  <2>1. incidents' = [incidents EXCEPT ![k] = i] /\ hour' = hour /\ i \in Inc!Incident
    BY <1>3 DEF Inc!Transition, Follows, SoundAt
  <2>2. /\ incidents' \in Seq(Inc!Incident) /\ DOMAIN incidents' = DOMAIN incidents
        /\ \A j \in DOMAIN incidents : incidents'[j] = IF j = k THEN i ELSE incidents[j]
    BY <1>1, <2>1
  <2>3. ASSUME NEW j \in DOMAIN incidents PROVE Follows(incidents[j], hour, incidents'[j], hour')
    BY <1>1, <1>3, <2>1, <2>2, IncidentWaits
  <2>4. QED BY <1>1, <2>1, <2>2, <2>3 DEF Follows
<1>4. ASSUME NEW k \in DOMAIN incidents PROVE SoundAt(incidents[k], hour) /\ incidents[k].status \in Inc!Status
  BY <1>1 DEF SoundAt, Inc!Incident
<1>5. CASE Inc!Cli
  <2>1. PICK k \in DOMAIN incidents : Inc!Investigate(k) \/ (\E c \in Inc!Cause : Inc!Mitigate(k, c)) \/ Inc!Cancel(k)
    BY <1>5 DEF Inc!Cli
  <2>2. CASE Inc!Investigate(k)
    <3>1. incidents[k].status \in Unresolved
      BY <1>4, <2>2 DEF Inc!Investigate, Inc!Transition, Inc!Allowed, Inc!Status, Unresolved, SoundAt, Inc!Incident
    <3>2. Follows(incidents[k], hour, [incidents[k] EXCEPT !.status = "investigating"], hour)
      BY <1>1, <1>4, <3>1, IncidentMoved DEF Inc!Status
    <3>3. QED BY <1>3, <2>2, <3>2 DEF Inc!Investigate
  <2>3. CASE \E c \in Inc!Cause : Inc!Mitigate(k, c)
    <3>1. PICK c \in Inc!Cause : Inc!Mitigate(k, c)
      BY <2>3
    <3>2. incidents[k].status \in Unresolved
      BY <1>4, <3>1 DEF Inc!Mitigate, Inc!Transition, Inc!Allowed, Inc!Status, Unresolved, SoundAt, Inc!Incident
    <3>3. QED BY <1>1, <1>3, <1>4, <3>1, <3>2, IncidentMitigated DEF Inc!Mitigate
  <2>4. CASE Inc!Cancel(k)
    <3>1. Follows(incidents[k], hour, [incidents[k] EXCEPT !.status = "cancelled"], hour)
      BY <1>1, <1>4, IncidentMoved DEF Inc!Status, Unresolved
    <3>2. QED BY <1>3, <2>4, <3>1 DEF Inc!Cancel
  <2>5. QED BY <2>1, <2>2, <2>3, <2>4
<1>6. CASE Inc!Console
  <2>1. PICK k \in DOMAIN incidents : Inc!Acknowledge(k) \/ Inc!Resolve(k) \/ Inc!Close(k) \/ Inc!Reopen(k)
    BY <1>6 DEF Inc!Console
  <2>2. CASE Inc!Acknowledge(k)
    <3>1. incidents[k].status \in Unresolved
      BY <1>4, <2>2 DEF Inc!Acknowledge, Inc!Transition, Inc!Allowed, Inc!Status, Unresolved, SoundAt, Inc!Incident
    <3>2. QED BY <1>1, <1>3, <1>4, <2>2, <3>1, IncidentAcknowledged DEF Inc!Acknowledge
  <2>3. CASE Inc!Resolve(k)
    <3> DEFINE i == [incidents[k] EXCEPT !.status = "resolved", !.resolved = hour]
    <3>1. Inc!Transition(k, [i EXCEPT !.sla = Inc!Sla(i)])
      BY <2>3 DEF Inc!Resolve
    <3>2. incidents[k].status \in Unresolved
      <4>1. [i EXCEPT !.sla = Inc!Sla(i)].status = "resolved"
        BY <1>4 DEF SoundAt, Inc!Incident
      <4>2. QED BY <1>4, <3>1, <4>1 DEF Inc!Transition, Inc!Allowed, Inc!Status, Unresolved
    <3>3. Inc!Sla(i) \in Inc!SlaState
      BY DEF Inc!Sla, Inc!SlaState
    <3>4. Follows(incidents[k], hour, [i EXCEPT !.sla = Inc!Sla(i)], hour)
      BY <1>1, <1>4, <3>2, <3>3, IncidentResolved
    <3>5. QED BY <1>3, <3>1, <3>4
  <2>4. CASE Inc!Close(k)
    <3>1. Follows(incidents[k], hour, [incidents[k] EXCEPT !.status = "closed"], hour)
      BY <1>1, <1>4, IncidentMoved DEF Inc!Status, Unresolved
    <3>2. QED BY <1>3, <2>4, <3>1 DEF Inc!Close
  <2>5. CASE Inc!Reopen(k)
    BY <1>1, <1>3, <1>4, <2>5, IncidentReopened DEF Inc!Reopen
  <2>6. QED BY <2>1, <2>2, <2>3, <2>4, <2>5
<1>7. CASE Inc!Tick
  BY <1>1, <1>7, IncidentWaits DEF Inc!Tick, Follows
<1>8. CASE UNCHANGED Inc!vars
  BY <1>1, <1>8, IncidentWaits DEF Inc!vars, Follows
<1>9. QED BY <1>2, <1>5, <1>6, <1>7, <1>8 DEF Inc!Next

LEMMA IncidentInvariant == ASSUME IncidentAssumption PROVE Inc!Spec => []IncidentInv
<1>1. Inc!Init => IncidentInv
  BY DEF Inc!Init, IncidentInv
<1>2. IncidentInv /\ [Inc!Next]_(Inc!vars) => IncidentInv'
  BY IncidentAssumption, IncidentFollows DEF IncidentInv
<1>3. QED BY <1>1, <1>2, PTL DEF Inc!Spec

(* What is late stays late, whatever an operator does                      *)
(* (incident/services/incident_management_service.py).                     *)
THEOREM BreachesKept == ASSUME IncidentAssumption PROVE Inc!Spec => BreachKept
<1>1. IncidentInv /\ [Inc!Next]_(Inc!vars) =>
        [\A k \in DOMAIN incidents :
            /\ Inc!AckLate(incidents[k]) => Inc!AckLate(incidents[k])'
            /\ Inc!ResolveLate(incidents[k]) => Inc!ResolveLate(incidents[k])']_(Inc!vars)
  <2>1. SUFFICES ASSUME IncidentInv, [Inc!Next]_(Inc!vars), NEW k \in DOMAIN incidents
                 PROVE  /\ Inc!AckLate(incidents[k]) => Inc!AckLate(incidents[k])'
                        /\ Inc!ResolveLate(incidents[k]) => Inc!ResolveLate(incidents[k])'
    OBVIOUS
  <2>2. Follows(incidents[k], hour, incidents'[k], hour')
    BY <2>1, IncidentAssumption, IncidentFollows
  <2>3. QED BY <2>2 DEF Follows, LateAt, Inc!AckLate, Inc!ResolveLate, Inc!Late
<1>2. QED BY <1>1, IncidentInvariant, IncidentAssumption, PTL DEF Inc!Spec, BreachKept, Inc!BreachKept

(* What is in hand and past its time is on the overdue list, also when it  *)
(* was resolved in time once (incident_dashboard_service.py).              *)
THEOREM LateIncidentsListed == ASSUME IncidentAssumption PROVE Inc!Spec => []LateListed
<1>1. IncidentInv => LateListed
  BY DEF IncidentInv, SoundAt, Unresolved, LateListed, Inc!LateListed, Inc!Overdue, Inc!InHand
<1>2. QED BY <1>1, IncidentInvariant, IncidentAssumption, PTL

-----------------------------------------------------------------------------
(* Notification.  No process remembers a dispatch that no channel had      *)
(* accepted by then; what it lost with a restart it does not remember.     *)
AcceptedInv ==
    /\ minute \in Nat
    /\ last_dispatched \in [Processes -> [EventTypes -> Ntf!Times]]
    /\ accepted \in [EventTypes -> Ntf!Times]
    /\ \A t \in EventTypes : accepted[t] # None => accepted[t] <= minute
    /\ \A p \in Processes, t \in EventTypes :
          last_dispatched[p][t] # None => accepted[t] # None /\ last_dispatched[p][t] <= accepted[t]

AlertInv ==
    /\ AcceptedInv
    /\ history \subseteq EventTypes
    /\ AlertSeen

LEMMA Cooldowns == \A rule \in Ntf!Rules : rule.cooldown \in Nat
BY DEF Ntf!Rules

(* A rule that cools down does so by what some channel accepted.           *)
LEMMA CooledByAccepted ==
    ASSUME None \notin Nat, AcceptedInv, NEW p \in Processes, NEW e \in Ntf!Event, NEW rule \in Ntf!Rules,
           Ntf!CoolingDown(p, e, rule)
    PROVE  accepted[e.type] # None /\ minute - accepted[e.type] < rule.cooldown
<1>1. e.type \in EventTypes
  BY DEF Ntf!Event
<1>2. /\ last_dispatched[p][e.type] \in Nat \cup {None} /\ accepted[e.type] \in Nat \cup {None}
      /\ last_dispatched[p][e.type] # None /\ minute - last_dispatched[p][e.type] < rule.cooldown
      /\ rule.cooldown \in Nat /\ minute \in Nat
  BY <1>1, Cooldowns DEF AcceptedInv, Ntf!Times, Ntf!CoolingDown
<1>3. accepted[e.type] # None /\ last_dispatched[p][e.type] <= accepted[e.type]
  BY <1>1, <1>2 DEF AcceptedInv
<1>4. QED BY <1>2, <1>3

LEMMA AlertDispatch ==
    ASSUME None \notin Nat, AlertInv, NEW p \in Processes, NEW e \in Ntf!Event,
           NEW dry_run \in BOOLEAN, NEW bypass \in BOOLEAN, Ntf!Dispatch(p, e, dry_run, bypass)
    PROVE  AlertInv'
<1> DEFINE speaking == {rule \in Ntf!Matching(e) : bypass \/ ~Ntf!CoolingDown(p, e, rule)}
           did == CASE Ntf!Matching(e) = {} -> "matched none"
                    [] Ntf!Matching(e) # {} /\ speaking = {} -> "cooled down"
                    [] speaking # {} /\ dry_run -> "dry run"
                    [] OTHER -> "sent"
<1>1. e.type \in EventTypes /\ minute \in Nat /\ minute' = minute
  BY DEF Ntf!Event, AlertInv, AcceptedInv, Ntf!Dispatch
<1>2. batch' = [type |-> e.type, at |-> minute, did |-> did]
  BY DEF Ntf!Dispatch
<1>3. \/ last_dispatched' = last_dispatched /\ accepted' = accepted
      \/ /\ last_dispatched' \in {last_dispatched, [last_dispatched EXCEPT ![p][e.type] = minute]}
         /\ accepted' = [accepted EXCEPT ![e.type] = minute]
  <2>1. CASE did = "sent"
    BY <2>1 DEF Ntf!Dispatch, Ntf!Marked
  <2>2. CASE did # "sent"
    BY <2>2 DEF Ntf!Dispatch
  <2>3. QED BY <2>1, <2>2
<1>4. did = "cooled down" => last_dispatched' = last_dispatched /\ accepted' = accepted
  BY DEF Ntf!Dispatch
<1>5. AcceptedInv'
  <2>1. CASE last_dispatched' = last_dispatched /\ accepted' = accepted
    BY <1>1, <2>1 DEF AlertInv, AcceptedInv, Ntf!Times
  <2>2. CASE /\ last_dispatched' \in {last_dispatched, [last_dispatched EXCEPT ![p][e.type] = minute]}
             /\ accepted' = [accepted EXCEPT ![e.type] = minute]
    <3>1. /\ accepted' \in [EventTypes -> Ntf!Times]
          /\ \A t \in EventTypes : accepted'[t] = IF t = e.type THEN minute ELSE accepted[t]
      BY <1>1, <2>2 DEF AlertInv, AcceptedInv, Ntf!Times
    <3>2. /\ last_dispatched' \in [Processes -> [EventTypes -> Ntf!Times]]
          /\ \A q \in Processes, t \in EventTypes :
                \/ last_dispatched'[q][t] = last_dispatched[q][t]
                \/ t = e.type /\ last_dispatched'[q][t] = minute
      <4>1. CASE last_dispatched' = last_dispatched
        BY <1>1, <4>1 DEF AlertInv, AcceptedInv
      <4>2. CASE last_dispatched' = [last_dispatched EXCEPT ![p] = [last_dispatched[p] EXCEPT ![e.type] = minute]]
        <5>1. [last_dispatched[p] EXCEPT ![e.type] = minute] \in [EventTypes -> Ntf!Times]
          BY <1>1 DEF AlertInv, AcceptedInv, Ntf!Times
        <5>2. QED BY <1>1, <4>2, <5>1 DEF AlertInv, AcceptedInv
      <4>3. QED BY <2>2, <4>1, <4>2
    <3>3. ASSUME NEW q \in Processes, NEW t \in EventTypes, last_dispatched'[q][t] # None
          PROVE  accepted'[t] # None /\ last_dispatched'[q][t] <= accepted'[t]
      <4>1. CASE t = e.type
        <5>1. CASE last_dispatched'[q][t] = minute
          BY <1>1, <3>1, <4>1, <5>1
        <5>2. CASE last_dispatched'[q][t] = last_dispatched[q][t]
          <6>1. /\ last_dispatched[q][t] \in Nat /\ accepted[t] \in Nat
                /\ last_dispatched[q][t] <= accepted[t] /\ accepted[t] <= minute
            BY <3>3, <5>2 DEF AlertInv, AcceptedInv, Ntf!Times
          <6>2. QED BY <1>1, <3>1, <4>1, <5>2, <6>1
        <5>3. QED BY <3>2, <5>1, <5>2
      <4>2. CASE t # e.type
        BY <3>1, <3>2, <3>3, <4>2 DEF AlertInv, AcceptedInv
      <4>3. QED BY <4>1, <4>2
    <3>4. QED BY <1>1, <3>1, <3>2, <3>3 DEF AlertInv, AcceptedInv
  <2>3. QED BY <1>3, <2>1, <2>2
<1>6. did = "cooled down" => \E rule \in Ntf!Rules : e.type \in rule.types /\ Ntf!CoolingDown(p, e, rule)
  <2>1. did = "cooled down" => Ntf!Matching(e) # {} /\ speaking = {}
    OBVIOUS
  <2>2. QED BY <2>1 DEF Ntf!Matching
<1>7. AlertSeen'
  <2>1. SUFFICES ASSUME did = "cooled down"
                 PROVE  /\ accepted[e.type] # None
                        /\ \E rule \in Ntf!Rules : e.type \in rule.types /\ minute - accepted[e.type] < rule.cooldown
    BY <1>2, <1>4 DEF AlertSeen, Ntf!AlertSeen
  <2>2. QED BY <1>6, <2>1, CooledByAccepted DEF AlertInv
<1>8. history' \subseteq EventTypes
  BY <1>1 DEF Ntf!Dispatch, AlertInv
<1>9. QED BY <1>5, <1>7, <1>8 DEF AlertInv

LEMMA AlertStep == ASSUME None \notin Nat, AlertInv, [Ntf!Next]_(Ntf!vars) PROVE AlertInv'
<1>1. CASE Ntf!Tick
  <2>1. /\ minute \in Nat /\ minute' = minute + 1
        /\ UNCHANGED <<last_dispatched, accepted, history, batch>>
    BY <1>1 DEF Ntf!Tick, AlertInv, AcceptedInv
  <2>2. \A t \in EventTypes : accepted'[t] # None => accepted'[t] <= minute'
    BY <2>1 DEF AlertInv, AcceptedInv, Ntf!Times
  <2>3. AlertSeen'
    BY <2>1 DEF AlertInv, AlertSeen, Ntf!AlertSeen
  <2>4. QED BY <2>1, <2>2, <2>3 DEF AlertInv, AcceptedInv
<1>2. CASE \E p \in Processes : Ntf!Notify(p)
  BY <1>2, AlertDispatch DEF Ntf!Notify
<1>3. CASE \E p \in Processes : Ntf!Resend(p)
  <2>1. PICK p \in Processes, t \in history, dry_run \in BOOLEAN, force \in BOOLEAN :
           Ntf!Dispatch(p, [type |-> t, review |-> FALSE, seller |-> "none"], dry_run, force)
    BY <1>3 DEF Ntf!Resend
  <2>2. [type |-> t, review |-> FALSE, seller |-> "none"] \in Ntf!Event
    BY DEF AlertInv, Ntf!Event
  <2>3. QED BY <2>1, <2>2, AlertDispatch
<1>4. CASE \E p \in Processes : Ntf!Restart(p)
  <2>1. PICK p \in Processes :
           /\ last_dispatched' = [last_dispatched EXCEPT ![p] = [t \in EventTypes |-> None]]
           /\ UNCHANGED <<minute, history, accepted, batch>>
    BY <1>4 DEF Ntf!Restart
  <2>2. /\ last_dispatched' \in [Processes -> [EventTypes -> Ntf!Times]]
        /\ \A q \in Processes, t \in EventTypes :
              last_dispatched'[q][t] # None => last_dispatched'[q][t] = last_dispatched[q][t]
    BY <2>1 DEF AlertInv, AcceptedInv, Ntf!Times
  <2>3. AcceptedInv'
    BY <2>1, <2>2 DEF AlertInv, AcceptedInv
  <2>4. AlertSeen'
    BY <2>1 DEF AlertInv, AlertSeen, Ntf!AlertSeen
  <2>5. QED BY <2>1, <2>3, <2>4 DEF AlertInv
<1>5. CASE UNCHANGED Ntf!vars
  BY <1>5 DEF Ntf!vars, AlertInv, AcceptedInv, AlertSeen, Ntf!AlertSeen
<1>6. QED BY <1>1, <1>2, <1>3, <1>4, <1>5 DEF Ntf!Next

(* An alert is only kept back by one that got through, of the same type,   *)
(* within the cooldown (notification/dispatcher.py, cooldown.py).          *)
THEOREM AlertsSeen == ASSUME None \notin Nat PROVE Ntf!Spec => []AlertSeen
<1>1. Ntf!Init => AlertInv
  BY DEF Ntf!Init, AlertInv, AcceptedInv, Ntf!Times, AlertSeen, Ntf!AlertSeen
<1>2. AlertInv /\ [Ntf!Next]_(Ntf!vars) => AlertInv'
  BY AlertStep
<1>3. AlertInv => AlertSeen
  BY DEF AlertInv
<1>4. QED BY <1>1, <1>2, <1>3, PTL DEF Ntf!Spec

-----------------------------------------------------------------------------
(* Sellers and their environments.  Each of the three values of a request  *)
(* is resolved by itself, and what is found is of a type that the request  *)
(* remembers: one that its seller is offered at that moment is one that it *)
(* was offered at some moment.                                             *)
Tried(at) ==
    /\ call = [seller |-> call.seller, type |-> call.type, at |-> call.at,
               token |-> call.token, keys |-> call.keys, url |-> call.url, held |-> call.held]
    /\ call.at \in at

KeysInv ==
    /\ bindings \in Seq(Slr!Binding)
    /\ call.at \in {"token", "keys", "url", "sent"} => Tried({"token", "keys", "url", "sent"})
    /\ call.seller # None =>
        /\ call.at \in {"token", "keys", "url"} =>
               Slr!Offered(call.seller, call.type, bindings) \subseteq call.held
        /\ call.at \in {"keys", "url", "sent"} =>
               call.token \in {<<None, None>>} \cup ({call.seller} \X call.held)
        /\ call.at \in {"url", "sent"} => call.keys \in call.held
        /\ call.at = "sent" => call.url \in call.held

(* A set of numbers that is not empty has a smallest one: the intervals    *)
(* from 1 to its members have a smallest one by inclusion.                 *)
LEMMA Smallest ==
    ASSUME NEW S \in SUBSET Nat, S # {} PROVE \E m \in S : \A n \in S : m <= n
<1> DEFINE T == {1 .. n : n \in S}
           R == StrictSubsetOrdering(Nat)
<1>1. T # {} /\ T \subseteq FiniteSubsetsOf(Nat)
  <2>1. ASSUME NEW n \in S PROVE 1 .. n \subseteq Nat /\ IsFiniteSet(1 .. n)
    BY FS_Interval
  <2> QED  BY <2>1 DEF FiniteSubsetsOf
<1>2. PICK x \in T : \A y \in T : ~ (<<y, x>> \in R)
  <2> HIDE DEF T, R
  <2> QED  BY <1>1, WFMin, FS_StrictSubsetOrderingWellFounded DEF R
<1>3. PICK m \in S : x = 1 .. m
  OBVIOUS
<1>4. ASSUME NEW n \in S, n < m PROVE FALSE
  <2>1. 1 .. n \subseteq 1 .. m /\ m \in 1 .. m /\ m \notin 1 .. n
    BY <1>4
  <2>2. <<1 .. n, 1 .. m>> \in R
    BY <2>1 DEF StrictSubsetOrdering
  <2> QED  BY <1>2, <1>3, <2>2
<1> QED  BY <1>4

LEMMA First ==
    ASSUME bindings \in Seq(Slr!Binding), NEW rows \in SUBSET (DOMAIN bindings), rows # {}
    PROVE  \E i \in rows : Slr!FirstOf(rows) = bindings[i]
<1>1. \E m \in rows : \A n \in rows : m <= n
  BY Smallest
<1> QED  BY <1>1 DEF Slr!FirstOf, Slr!Min

(* The row of a seller and a type belongs to both; the active row of a     *)
(* seller belongs to it.                                                   *)
LEMMA FoundByType ==
    ASSUME bindings \in Seq(Slr!Binding), NEW s, NEW t,
           \E i \in Slr!ListBySeller(s) : type[bindings[i].environment] = t
    PROVE  /\ Slr!FindByType(s, t).seller = s /\ type[Slr!FindByType(s, t).environment] = t
           /\ Slr!FindByType(s, t).token \in {"none", "unset", "set"}
<1> DEFINE rows == {i \in Slr!ListBySeller(s) : type[bindings[i].environment] = t}
<1>1. rows # {} /\ rows \subseteq DOMAIN bindings
  BY DEF Slr!ListBySeller
<1>2. PICK i \in rows : Slr!FirstOf(rows) = bindings[i]
  BY <1>1, First
<1>3. bindings[i] \in Slr!Binding
  BY DEF Slr!ListBySeller
<1> QED  BY <1>2, <1>3 DEF Slr!FindByType, Slr!ListBySeller, Slr!Binding, Slr!TokenRef

LEMMA FoundActive ==
    ASSUME bindings \in Seq(Slr!Binding), NEW s, Slr!GetActive(s) # None
    PROVE  \E i \in Slr!ListBySeller(s) : Slr!GetActive(s) = bindings[i] /\ bindings[i].active
<1> DEFINE rows == Slr!ListBySeller(s) \cap Slr!ListAllActive
<1>1. Slr!GetActive(s) = Slr!FirstOf(rows) /\ rows # {} /\ rows \subseteq DOMAIN bindings
  BY DEF Slr!GetActive, Slr!FirstOf, Slr!ListBySeller
<1> QED  BY <1>1, First DEF Slr!ListAllActive

(* The context of a seller is its own, of a type that it is offered and    *)
(* that one of its rows has.                                               *)
LEMMA ContextFound ==
    ASSUME bindings \in Seq(Slr!Binding), NEW s, NEW t, s # None, Slr!Resolve(s, t) # None
    PROVE  /\ Slr!Resolve(s, t).seller = s
           /\ Slr!Resolve(s, t).type \in Slr!Offered(s, t, bindings)
           /\ \E i \in Slr!ListBySeller(s) : type[bindings[i].environment] = Slr!Resolve(s, t).type
<1>1. ASSUME NEW i \in Slr!ListBySeller(s), Slr!ContextOf(bindings[i]) # None
      PROVE  Slr!ContextOf(bindings[i]) = [seller |-> s, type |-> type[bindings[i].environment]]
  BY <1>1 DEF Slr!ContextOf, Slr!ListBySeller
<1>2. CASE t # None
  <2> DEFINE rows == {i \in Slr!ListBySeller(s) : type[bindings[i].environment] = t}
  <2>1. Slr!Resolve(s, t) = Slr!ContextOf(Slr!FirstOf(rows))
    BY <1>2 DEF Slr!Resolve, Slr!FindByType
  <2>2. Slr!FirstOf(rows) # None
    BY <2>1 DEF Slr!ContextOf
  <2>3. rows # {} /\ rows \subseteq DOMAIN bindings
    BY <2>2 DEF Slr!FirstOf, Slr!ListBySeller
  <2>4. PICK i \in rows : Slr!FirstOf(rows) = bindings[i]
    BY <2>3, First
  <2>5. Slr!Resolve(s, t) = [seller |-> s, type |-> t]
    BY <1>1, <2>1, <2>4
  <2> QED  BY <1>2, <2>4, <2>5 DEF Slr!Offered
<1>3. CASE t = None
  <2>1. Slr!Resolve(s, t) = Slr!ContextOf(Slr!GetActive(s))
    BY <1>3 DEF Slr!Resolve
  <2>2. Slr!GetActive(s) # None
    BY <2>1 DEF Slr!ContextOf
  <2>3. PICK i \in Slr!ListBySeller(s) : Slr!GetActive(s) = bindings[i] /\ bindings[i].active
    BY <2>2, FoundActive
  <2>4. Slr!Resolve(s, t) = [seller |-> s, type |-> type[bindings[i].environment]]
    BY <1>1, <2>1, <2>3
  <2>5. type[bindings[i].environment] \in Slr!Offered(s, t, bindings)
    BY <1>3, <2>3 DEF Slr!Offered, Slr!ListBySeller
  <2> QED  BY <2>3, <2>4, <2>5
<1> QED  BY <1>2, <1>3

(* What a request for a seller resolves, if it does not raise.             *)
LEMMA AskedFor ==
    ASSUME bindings \in Seq(Slr!Binding), NEW s, NEW t, s # None
    PROVE  /\ Slr!RefreshToken(s, t) \in {None, <<None, None>>} \cup ({s} \X Slr!Offered(s, t, bindings))
           /\ Slr!KeysOf(s, t) \in {None} \cup Slr!Offered(s, t, bindings)
<1> DEFINE context == Slr!Resolve(s, t)
           b == Slr!FindByType(s, context.type)
           open == Slr!Offered(s, t, bindings)
<1>1. ~Slr!Default(s, t)
  BY DEF Slr!Default
<1>2. CASE context = None
  BY <1>1, <1>2 DEF Slr!RefreshToken, Slr!KeysOf
<1>3. CASE context # None
  <2>1. /\ context.seller = s /\ context.type \in open
        /\ b.seller = s /\ type[b.environment] = context.type /\ b.token \in {"none", "unset", "set"}
    BY <1>3, ContextFound, FoundByType
  <2>2. Slr!KeysOf(s, t) = context.type
    BY <1>1, <1>3 DEF Slr!KeysOf
  <2>3. Slr!RefreshToken(s, t) =
          CASE b.token = "set" -> <<b.seller, type[b.environment]>>
            [] b.token = "unset" -> None
            [] b.token = "none" -> <<None, None>>
    BY <1>1, <1>3, <2>1 DEF Slr!RefreshToken
  <2> HIDE DEF b, context, open
  <2>4. Slr!RefreshToken(s, t) \in {None, <<None, None>>, <<s, context.type>>}
    BY <2>1, <2>3
  <2>5. <<s, context.type>> \in {s} \X open
    BY <2>1
  <2> QED  BY <2>1, <2>2, <2>4, <2>5 DEF open
<1> QED  BY <1>2, <1>3

(* What happens to the bindings only adds to what a request remembers.     *)
LEMMA HoldKeeps ==
    ASSUME KeysInv, bindings' \in Seq(Slr!Binding), type' = type, Slr!Hold(bindings')
    PROVE  KeysInv'
<1> DEFINE held == call.held \cup Slr!Offered(call.seller, call.type, bindings')
<1>1. CASE call.at \in {"token", "keys", "url"}
  <2>1. call' = [call EXCEPT !.held = held]
    BY <1>1 DEF Slr!Hold, Slr!Resolving
  <2>2. \A s, t : Slr!Offered(s, t, bindings)' = Slr!Offered(s, t, bindings')
    BY DEF Slr!Offered
  <2>3. Tried({"token", "keys", "url", "sent"})
    BY <1>1 DEF KeysInv
  <2>4. /\ call'.seller = call.seller /\ call'.type = call.type /\ call'.at = call.at
        /\ call'.token = call.token /\ call'.keys = call.keys /\ call'.url = call.url
        /\ call'.held = held
        /\ Tried({"token", "keys", "url", "sent"})'
    <3> HIDE DEF held
    <3> QED  BY <2>1, <2>3 DEF Tried
  <2>5. call.held \subseteq held /\ Slr!Offered(call.seller, call.type, bindings') \subseteq held
    OBVIOUS
  <2>6. (Slr!Offered(call.seller, call.type, bindings))' = Slr!Offered(call.seller, call.type, bindings')
    BY <2>4 DEF Slr!Offered
  <2> HIDE DEF held
  <2> QED  BY <1>1, <2>4, <2>5, <2>6 DEF KeysInv
<1>2. CASE call.at \notin {"token", "keys", "url"}
  <2>1. call' = call
    BY <1>2 DEF Slr!Hold, Slr!Resolving
  <2> QED  BY <1>2, <2>1 DEF KeysInv, Tried
<1> QED  BY <1>1, <1>2

LEMMA KeysStep ==
    ASSUME KeysInv, [Slr!Next]_(Slr!vars) PROVE KeysInv'
<1>1. ASSUME NEW b \in Slr!Binding, Slr!Bind(b) PROVE KeysInv'
  <2>1. bindings' \in Seq(Slr!Binding) /\ type' = type /\ Slr!Hold(bindings')
    BY <1>1 DEF KeysInv, Slr!Bind
  <2> QED  BY <2>1, HoldKeeps
<1>2. ASSUME NEW s \in Sellers, NEW e \in Environments, Slr!Activate(s, e) PROVE KeysInv'
  <2>1. ASSUME NEW i \in DOMAIN bindings
        PROVE  [bindings[i] EXCEPT !.active = bindings[i].environment = e] \in Slr!Binding
    <3>1. bindings[i] \in Slr!Binding
      BY DEF KeysInv
    <3>2. ASSUME NEW b \in Slr!Binding, NEW flag \in BOOLEAN
          PROVE  [b EXCEPT !.active = flag] \in Slr!Binding
      BY DEF Slr!Binding
    <3>3. (bindings[i].environment = e) \in BOOLEAN
      OBVIOUS
    <3> QED  BY <3>1, <3>2, <3>3
  <2>2. bindings' \in Seq(Slr!Binding)
    BY <1>2, <2>1 DEF KeysInv, Slr!Activate
  <2> QED  BY <1>2, <2>2, HoldKeeps DEF Slr!Activate
<1>3. ASSUME NEW s \in Sellers, NEW flag \in BOOLEAN, Slr!Enable(s, flag) PROVE KeysInv'
  <2>1. UNCHANGED <<type, bindings, call>>
    BY <1>3 DEF Slr!Enable
  <2> QED  BY <2>1 DEF KeysInv, Tried, Slr!Offered
<1>4. ASSUME NEW s, NEW t, Slr!Post(s, t) \/ Slr!GetToken(s, t) PROVE KeysInv'
  <2>1. ASSUME NEW seller, NEW form,
               Slr!Follow([seller |-> seller, type |-> form, at |-> "changed"])
        PROVE  KeysInv'
    BY <2>1 DEF KeysInv, Slr!Follow
  <2>2. CASE Slr!GetToken(s, t)
    <3>1. /\ call' = [seller |-> s, type |-> t, at |-> "token", token |-> None, keys |-> None,
                     url |-> None, held |-> Slr!Offered(s, t, bindings)]
          /\ UNCHANGED <<type, bindings>>
      BY <2>2 DEF Slr!GetToken, Slr!Follow
    <3>2. call'.held = Slr!Offered(call'.seller, call'.type, bindings') /\ call'.at = "token"
      BY <3>1
    <3>3. (Slr!Offered(call.seller, call.type, bindings))' = call'.held
      BY <3>1, <3>2 DEF Slr!Offered
    <3> QED  BY <3>1, <3>3 DEF KeysInv, Tried
  <2> QED  BY <1>4, <2>1, <2>2 DEF Slr!Post
<1>5. ASSUME Slr!GetRefreshToken \/ Slr!GetClientCredentials \/ Slr!GetOauthUrl PROVE KeysInv'
  <2> DEFINE token == Slr!RefreshToken(call.seller, call.type)
             keys == Slr!KeysOf(call.seller, call.type)
             open == Slr!Offered(call.seller, call.type, bindings)
  <2>1. bindings' = bindings /\ type' = type
    BY <1>5 DEF Slr!GetRefreshToken, Slr!GetClientCredentials, Slr!GetOauthUrl, Slr!Resolved
  <2>2. CASE call' = Slr!NoCall
    BY <2>1, <2>2 DEF KeysInv, Slr!NoCall
  <2>3. CASE call' # Slr!NoCall
    <3>1. Tried({"token", "keys", "url"})
      BY <1>5 DEF KeysInv, Tried, Slr!GetRefreshToken, Slr!GetClientCredentials, Slr!GetOauthUrl
    <3>2. call.seller # None =>
             /\ token \in {None, <<None, None>>} \cup ({call.seller} \X open)
             /\ keys \in {None} \cup open
             /\ open \subseteq call.held
      BY <3>1, AskedFor DEF KeysInv, Tried
    <3>3. call.seller # None =>
             /\ token \in {None, <<None, None>>} \cup ({call.seller} \X call.held)
             /\ keys \in {None} \cup call.held
      <4> HIDE DEF token, keys, open
      <4> QED  BY <3>2
    <3>4. ASSUME call'.seller = call.seller, call'.type = call.type
          PROVE  open' = open
      BY <2>1, <3>4 DEF Slr!Offered
    <3>5. CASE Slr!GetRefreshToken
      <4>1. token # None /\ call' = [call EXCEPT !.token = token, !.at = "keys"]
        BY <2>3, <3>5 DEF Slr!GetRefreshToken, Slr!Resolved
      <4> HIDE DEF token
      <4>2. /\ call'.seller = call.seller /\ call'.type = call.type /\ call'.at = "keys"
            /\ call'.held = call.held /\ call'.token = token /\ Tried({"keys"})'
        BY <3>1, <4>1 DEF Tried
      <4>3. open' = open
        BY <3>4, <4>2
      <4> HIDE DEF open
      <4>4. call.seller # None => call'.token \in {<<None, None>>} \cup ({call.seller} \X call.held)
        BY <3>3, <4>1, <4>2
      <4>5. call.seller # None => open' \subseteq call'.held
        BY <3>2, <4>2, <4>3
      <4> QED  BY <2>1, <4>2, <4>4, <4>5 DEF KeysInv, Tried, open
    <3>6. CASE Slr!GetClientCredentials
      <4>1. call.at = "keys" /\ keys # None /\ call' = [call EXCEPT !.keys = keys, !.at = "url"]
        BY <2>3, <3>6 DEF Slr!GetClientCredentials, Slr!Resolved
      <4> HIDE DEF keys
      <4>2. /\ call'.seller = call.seller /\ call'.type = call.type /\ call'.at = "url"
            /\ call'.held = call.held /\ call'.token = call.token /\ call'.keys = keys /\ Tried({"url"})'
        BY <3>1, <4>1 DEF Tried
      <4>3. open' = open
        BY <3>4, <4>2
      <4> HIDE DEF open
      <4>4. call.seller # None => call'.keys \in call.held
        BY <3>3, <4>1, <4>2
      <4>5. call.seller # None => open' \subseteq call'.held
        BY <3>2, <4>2, <4>3
      <4> QED  BY <2>1, <4>1, <4>2, <4>4, <4>5 DEF KeysInv, Tried, open
    <3>7. CASE Slr!GetOauthUrl
      <4>1. call.at = "url" /\ keys # None /\ call' = [call EXCEPT !.url = keys, !.at = "sent"]
        BY <2>3, <3>7 DEF Slr!GetOauthUrl, Slr!Resolved
      <4> HIDE DEF keys
      <4>2. /\ call'.seller = call.seller /\ call'.type = call.type /\ call'.at = "sent"
            /\ call'.held = call.held /\ call'.token = call.token /\ call'.keys = call.keys
            /\ call'.url = keys /\ Tried({"sent"})'
        BY <3>1, <4>1 DEF Tried
      <4>3. call.seller # None => call'.url \in call.held
        BY <3>3, <4>1, <4>2
      <4> QED  BY <2>1, <4>1, <4>2, <4>3 DEF KeysInv, Tried
    <3> QED  BY <1>5, <3>5, <3>6, <3>7
  <2> QED  BY <2>2, <2>3
<1>6. CASE UNCHANGED Slr!vars
  BY <1>6 DEF Slr!vars, KeysInv, Tried, Slr!Offered
<1> QED  BY <1>1, <1>2, <1>3, <1>4, <1>5, <1>6 DEF Slr!Next

(* A seller that is found well resolves, and the row that its type names   *)
(* has a token.                                                            *)
LEMMA Doctor ==
    ASSUME bindings \in Seq(Slr!Binding), NEW s \in Sellers, s # None, Slr!Diagnose(s) = "ok"
    PROVE  Slr!RefreshToken(s, None) = <<s, Slr!Resolve(s, None).type>>
<1> DEFINE context == Slr!Resolve(s, None)
           b == Slr!FindByType(s, context.type)
<1>1. context # None /\ b.token = "set"
  BY DEF Slr!Diagnose
<1>2. context.seller = s /\ b.seller = s /\ type[b.environment] = context.type
  BY <1>1, ContextFound, FoundByType
<1>3. Slr!RefreshToken(s, None) = <<b.seller, type[b.environment]>>
  BY <1>1, <1>2 DEF Slr!RefreshToken, Slr!Default
<1> QED  BY <1>2, <1>3

(* Whatever is bound, activated or disabled between the three lookups of a *)
(* token request, with or without a type: its token, keys and URL are each *)
(* of a type that its seller was active in at some moment of it, so that   *)
(* they go together unless the active binding changed meanwhile; and the   *)
(* doctor is right (auth/credentials.py, seller_env).  For any number of   *)
(* sellers, environments and bindings.                                     *)
THEOREM CredentialsGoTogether ==
    ASSUME None \notin Sellers PROVE Slr!Spec => []CredentialsTrue
<1>1. Slr!Init => KeysInv
  BY DEF Slr!Init, Slr!NoCall, KeysInv
<1>2. KeysInv /\ [Slr!Next]_(Slr!vars) => KeysInv'
  BY KeysStep
<1>3. KeysInv => CredentialsTrue
  <2> SUFFICES ASSUME KeysInv PROVE Slr!KeysMatch /\ Slr!DoctorRight
    BY DEF CredentialsTrue, Slr!CredentialsTrue
  <2>1. Slr!KeysMatch
    BY DEF KeysInv, Slr!KeysMatch
  <2>2. Slr!DoctorRight
    BY Doctor DEF KeysInv, Slr!DoctorRight
  <2> QED  BY <2>1, <2>2
<1> QED  BY <1>1, <1>2, <1>3, PTL DEF Slr!Spec

-----------------------------------------------------------------------------
(* The effective configuration.  A scope gives a key if the version that   *)
(* it puts forward has it, and the narrowest scope that does is its        *)
(* source.                                                                 *)
Gives(s, k) == Chg!Chosen(s) # {} /\ k \in versions[Chg!Max(Chg!Chosen(s))].keys

LEMMA Applied ==
    ASSUME NEW config, NEW s, NEW k
    PROVE  /\ k \in DOMAIN Chg!Apply(config, s) <=> Gives(s, k) \/ k \in DOMAIN config
           /\ Gives(s, k) => Chg!Apply(config, s)[k] = Chg!Max(Chg!Chosen(s))
           /\ ~Gives(s, k) /\ k \in DOMAIN config => Chg!Apply(config, s)[k] = config[k]
<1>1. CASE Chg!Chosen(s) = {}
  BY <1>1 DEF Gives, Chg!Apply
<1>2. CASE Chg!Chosen(s) # {}
  BY <1>2 DEF Gives, Chg!Apply, Chg!Overlay
<1> QED  BY <1>1, <1>2

LEMMA SourceIs ==
    ASSUME NEW k
    PROVE  Chg!Source(k) = IF Gives("seller", k) THEN Chg!Max(Chg!Chosen("seller"))
                           ELSE IF Gives("environment", k) THEN Chg!Max(Chg!Chosen("environment"))
                           ELSE IF Gives("global", k) THEN Chg!Max(Chg!Chosen("global"))
                           ELSE 0
<1> DEFINE E0 == [j \in {} |-> 0]
           E1 == Chg!Apply(E0, "global")
           E2 == Chg!Apply(E1, "environment")
           E3 == Chg!Apply(E2, "seller")
<1>1. k \notin DOMAIN E0
  OBVIOUS
<1>2. /\ k \in DOMAIN E1 <=> Gives("global", k)
      /\ Gives("global", k) => E1[k] = Chg!Max(Chg!Chosen("global"))
  <2> HIDE DEF E0
  <2> QED  BY <1>1, Applied
<1>3. /\ k \in DOMAIN E2 <=> Gives("environment", k) \/ k \in DOMAIN E1
      /\ Gives("environment", k) => E2[k] = Chg!Max(Chg!Chosen("environment"))
      /\ ~Gives("environment", k) /\ k \in DOMAIN E1 => E2[k] = E1[k]
  <2> HIDE DEF E1
  <2> QED  BY Applied
<1>4. /\ k \in DOMAIN E3 <=> Gives("seller", k) \/ k \in DOMAIN E2
      /\ Gives("seller", k) => E3[k] = Chg!Max(Chg!Chosen("seller"))
      /\ ~Gives("seller", k) /\ k \in DOMAIN E2 => E3[k] = E2[k]
  <2> HIDE DEF E2
  <2> QED  BY Applied
<1>5. Chg!Source(k) = IF k \in DOMAIN E3 THEN E3[k] ELSE 0
  BY DEF Chg!Source, Chg!Effective
<1> HIDE DEF E1, E2, E3
<1> QED  BY <1>2, <1>3, <1>4, <1>5

SourcesGiven == \A k :
    Chg!Source(k) = IF Gives("seller", k) THEN Chg!Max(Chg!Chosen("seller"))
                    ELSE IF Gives("environment", k) THEN Chg!Max(Chg!Chosen("environment"))
                    ELSE IF Gives("global", k) THEN Chg!Max(Chg!Chosen("global"))
                    ELSE 0

COROLLARY SourcesIs == SourcesGiven'
<1>1. SourcesGiven
  BY SourceIs DEF SourcesGiven
<1> QED  BY <1>1, PTL

(* A scope puts forward one of its own versions, if any.                   *)
LEMMA PutForward ==
    ASSUME versions \in Seq(Chg!Version), NEW s \in Chg!Scope, Chg!Chosen(s) # {}
    PROVE  \E i \in DOMAIN versions : /\ versions[i].scope = s
                                      /\ Chg!Chosen(s) = {i} /\ Chg!Max(Chg!Chosen(s)) = i
<1> DEFINE S == Chg!ActiveIn(s)
           T == {Len(versions) - i : i \in S}
<1>1. S # {} /\ S \subseteq 1 .. Len(versions) /\ Chg!Chosen(s) = {Chg!Max(S)}
  <2>1. S # {} /\ Chg!Chosen(s) = {Chg!Max(S)}
    <3> HIDE DEF S
    <3>1. Chg!Chosen(s) = IF S = {} THEN {} ELSE {Chg!Max(S)}
      BY DEF Chg!Chosen, S
    <3> QED  BY <3>1
  <2>2. DOMAIN versions = 1 .. Len(versions)
    OBVIOUS
  <2> QED  BY <2>1, <2>2 DEF Chg!ActiveIn
<1>2. T # {} /\ T \subseteq Nat
  <2> HIDE DEF S
  <2>1. ASSUME NEW i \in S PROVE Len(versions) - i \in Nat
    <3>1. Len(versions) \in Nat /\ i \in 1 .. Len(versions)
      BY <1>1
    <3> QED  BY <3>1
  <2> QED  BY <1>1, <2>1
<1>3. PICK t \in T : \A n \in T : t <= n
  <2> HIDE DEF T
  <2> QED  BY <1>2, Smallest
<1>4. \E m \in S : \A n \in S : m >= n
  <2>1. PICK m \in S : t = Len(versions) - m
    OBVIOUS
  <2>2. ASSUME NEW n \in S PROVE m >= n
    <3>1. Len(versions) - m <= Len(versions) - n
      BY <1>3, <2>1
    <3>2. m \in Int /\ n \in Int /\ Len(versions) \in Int
      BY <1>1
    <3> HIDE DEF S
    <3> QED  BY <3>1, <3>2
  <2> QED  BY <2>2
<1>5. Chg!Max(S) \in S
  BY <1>4 DEF Chg!Max
<1>6. PICK i \in S : i = Chg!Max(S)
  BY <1>5
<1>7. Chg!Max({i}) = i
  BY <1>1 DEF Chg!Max
<1> QED  BY <1>1, <1>6, <1>7 DEF Chg!ActiveIn

LEMMA VersionsStep ==
    ASSUME versions \in Seq(Chg!Version), [Chg!Next]_(Chg!vars) PROVE versions' \in Seq(Chg!Version)
<1>1. ASSUME NEW changed, Chg!SetActive(changed), \A i \in DOMAIN changed : changed[i] \in BOOLEAN
      PROVE  versions' \in Seq(Chg!Version)
  <2>1. ASSUME NEW v \in Chg!Version, NEW flag \in BOOLEAN PROVE [v EXCEPT !.active = flag] \in Chg!Version
    BY DEF Chg!Version
  <2>2. \A i \in DOMAIN versions : versions[i] \in Chg!Version
    OBVIOUS
  <2>3. \A i \in DOMAIN versions :
          (IF i \in DOMAIN changed THEN [versions[i] EXCEPT !.active = changed[i]] ELSE versions[i]) \in Chg!Version
    BY <1>1, <2>1, <2>2
  <2> QED  BY <1>1, <2>3 DEF Chg!SetActive
<1>2. ASSUME NEW i, NEW j, Chg!Activate(i) \/ Chg!Expire(i) \/ Chg!Supersede(i, j)
      PROVE  versions' \in Seq(Chg!Version)
  <2>1. CASE Chg!Activate(i)
    BY <1>1, <2>1 DEF Chg!Activate
  <2>2. CASE Chg!Expire(i)
    BY <1>1, <2>2 DEF Chg!Expire
  <2>3. CASE Chg!Supersede(i, j)
    BY <1>1, <2>3 DEF Chg!Supersede
  <2> QED  BY <1>2, <2>1, <2>2, <2>3
<1>3. ASSUME NEW scope \in Chg!Scope, NEW keys \in SUBSET Keys, Chg!Create(scope, keys)
      PROVE  versions' \in Seq(Chg!Version)
  <2>1. [scope |-> scope, keys |-> keys, active |-> FALSE] \in Chg!Version
    BY DEF Chg!Version
  <2> QED  BY <1>3, <2>1 DEF Chg!Create
<1>4. CASE UNCHANGED versions
  BY <1>4
<1> QED  BY <1>2, <1>3, <1>4
     DEF Chg!Next, Chg!vars, Chg!OpenRecord, Chg!CloseRecord, Chg!Recommend, Chg!Judge,
         Chg!Propose, Chg!Approve, Chg!Reject, Chg!Update

(* Where a scope has no version that is switched, it puts the same one     *)
(* forward after the step: nothing else changes a version, and a new one   *)
(* is inactive.                                                            *)
LEMMA Unswitched ==
    ASSUME versions \in Seq(Chg!Version), [Chg!Next]_(Chg!vars), NEW s \in Chg!Scope,
           \A i \in Chg!Switched : versions[i].scope # s
    PROVE  /\ Chg!Chosen(s)' = Chg!Chosen(s)
           /\ \A k : Gives(s, k)' <=> Gives(s, k)
<1> DEFINE Same ==
      /\ DOMAIN versions \subseteq DOMAIN versions'
      /\ \A i \in DOMAIN versions :
            versions'[i].scope = versions[i].scope /\ versions'[i].keys = versions[i].keys
      /\ \A i \in DOMAIN versions' \ DOMAIN versions : versions'[i].active = FALSE
<1>1. Same
  <2>1. ASSUME NEW changed, Chg!SetActive(changed) PROVE Same
    BY <2>1 DEF Chg!SetActive, Chg!Version
  <2>2. ASSUME NEW scope, NEW keys, Chg!Create(scope, keys) PROVE Same
    BY <2>2 DEF Chg!Create
  <2>3. CASE UNCHANGED versions
    BY <2>3
  <2> HIDE DEF Same
  <2> QED  BY <2>1, <2>2, <2>3
       DEF Chg!Next, Chg!vars, Chg!OpenRecord, Chg!CloseRecord, Chg!Recommend, Chg!Judge, Chg!Propose,
           Chg!Approve, Chg!Reject, Chg!Update, Chg!Activate, Chg!Expire, Chg!Supersede
<1>2. Chg!ActiveIn(s)' = Chg!ActiveIn(s)
  BY <1>1 DEF Chg!ActiveIn, Chg!Switched
<1>3. Chg!Chosen(s)' = Chg!Chosen(s)
  BY <1>2 DEF Chg!Chosen
<1>4. ASSUME NEW k PROVE Gives(s, k)' <=> Gives(s, k)
  <2>1. CASE Chg!Chosen(s) = {}
    BY <1>3, <2>1 DEF Gives
  <2>2. CASE Chg!Chosen(s) # {}
    <3>1. Chg!Max(Chg!Chosen(s)) \in DOMAIN versions
      BY <2>2, PutForward
    <3> QED  BY <1>1, <1>3, <3>1 DEF Gives
  <2> QED  BY <2>1, <2>2
<1> QED  BY <1>3, <1>4

LEMMA DepthIs ==
    ASSUME versions \in Seq(Chg!Version), NEW s \in Chg!Scope, NEW k, Gives(s, k),
           Chg!Source(k) = Chg!Max(Chg!Chosen(s))
    PROVE  Chg!Depth(k) = Chg!Narrowness[s]
<1>1. PICK i \in DOMAIN versions : versions[i].scope = s /\ Chg!Max(Chg!Chosen(s)) = i
  BY PutForward DEF Gives
<1>2. i # 0
  OBVIOUS
<1> QED  BY <1>1, <1>2 DEF Chg!Depth

(* However versions are created, activated, superseded and expired, what   *)
(* is done to wider scopes does not reach a scope that has its own value,  *)
(* for any keys and any number of versions (config_version_service.py,     *)
(* effective_config_service.py).                                           *)
THEOREM OverridesStand == Chg!Spec => OverridesHold
<1> DEFINE Held == versions' # versions =>
               \A k \in Keys : Chg!Source(k)' # Chg!Source(k) =>
                   \E i \in Chg!Switched : Chg!Narrowness[versions[i].scope] >= Chg!Depth(k)
<1>1. Chg!Init => versions \in Seq(Chg!Version)
  BY DEF Chg!Init
<1>2. versions \in Seq(Chg!Version) /\ [Chg!Next]_(Chg!vars) => (versions \in Seq(Chg!Version))'
  BY VersionsStep
<1>3. versions \in Seq(Chg!Version) /\ [Chg!Next]_(Chg!vars) => [Held]_(Chg!vars)
  <2> SUFFICES ASSUME versions \in Seq(Chg!Version), [Chg!Next]_(Chg!vars), NEW k \in Keys,
                      ~ \E i \in Chg!Switched : Chg!Narrowness[versions[i].scope] >= Chg!Depth(k)
               PROVE  Chg!Source(k)' = Chg!Source(k)
    OBVIOUS
  <2> DEFINE Still(s) == /\ Chg!Chosen(s)' = Chg!Chosen(s)
                         /\ Gives(s, k)' <=> Gives(s, k)
                         /\ Chg!Max(Chg!Chosen(s))' = Chg!Max(Chg!Chosen(s))
  <2>1. /\ "seller" \in Chg!Scope /\ "environment" \in Chg!Scope /\ "global" \in Chg!Scope
        /\ Chg!Narrowness["seller"] = 3 /\ Chg!Narrowness["environment"] = 2
        /\ Chg!Narrowness["global"] = 1
    BY DEF Chg!Scope, Chg!Narrowness
  <2>2. ASSUME NEW s \in Chg!Scope, Chg!Narrowness[s] >= Chg!Depth(k) PROVE Still(s)
    <3>1. \A i \in Chg!Switched : versions[i].scope # s
      BY <2>2
    <3>2. Chg!Chosen(s)' = Chg!Chosen(s) /\ (Gives(s, k)' <=> Gives(s, k))
      BY <3>1, Unswitched
    <3> QED  BY <3>2 DEF Chg!Max
  <2> HIDE DEF Still
  <2>3. CASE Gives("seller", k)
    <3>1. Chg!Source(k) = Chg!Max(Chg!Chosen("seller"))
      BY <2>3, SourceIs
    <3>2. Chg!Depth(k) = 3
      BY <2>1, <2>3, <3>1, DepthIs
    <3>3. Still("seller")
      BY <2>1, <2>2, <3>2
    <3> QED  BY <2>3, <3>1, <3>3, SourcesIs DEF Still, SourcesGiven
  <2>4. CASE ~Gives("seller", k) /\ Gives("environment", k)
    <3>1. Chg!Source(k) = Chg!Max(Chg!Chosen("environment"))
      BY <2>4, SourceIs
    <3>2. Chg!Depth(k) = 2
      BY <2>1, <2>4, <3>1, DepthIs
    <3>3. Still("seller") /\ Still("environment")
      BY <2>1, <2>2, <3>2
    <3> QED  BY <2>4, <3>1, <3>3, SourcesIs DEF Still, SourcesGiven
  <2>5. CASE ~Gives("seller", k) /\ ~Gives("environment", k) /\ Gives("global", k)
    <3>1. Chg!Source(k) = Chg!Max(Chg!Chosen("global"))
      BY <2>5, SourceIs
    <3>2. Chg!Depth(k) = 1
      BY <2>1, <2>5, <3>1, DepthIs
    <3>3. Still("seller") /\ Still("environment") /\ Still("global")
      BY <2>1, <2>2, <3>2
    <3> QED  BY <2>5, <3>1, <3>3, SourcesIs DEF Still, SourcesGiven
  <2>6. CASE ~Gives("seller", k) /\ ~Gives("environment", k) /\ ~Gives("global", k)
    <3>1. Chg!Source(k) = 0
      BY <2>6, SourceIs
    <3>2. Chg!Depth(k) = 0
      BY <3>1 DEF Chg!Depth
    <3>3. Still("seller") /\ Still("environment") /\ Still("global")
      BY <2>1, <2>2, <3>2
    <3> QED  BY <2>6, <3>1, <3>3, SourcesIs DEF Still, SourcesGiven
  <2> QED  BY <2>3, <2>4, <2>5, <2>6
<1> QED  BY <1>1, <1>2, <1>3, PTL DEF Chg!Spec, OverridesHold, Chg!OverridesHold
=============================================================================
