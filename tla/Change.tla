------------------------------- MODULE Change -------------------------------
(***************************************************************************)
(* What is learnt from operations and what is changed for it: learning     *)
(* records with their recommendations, change proposals, and the versions  *)
(* of a component's configuration, each in the memory of its service.      *)
(* The console closes records and approves or rejects recommendations; the *)
(* services of proposals and versions have no caller but the tests, so     *)
(* that their operations come in any order.  Review, rollout, validation   *)
(* and the analyses of learning are stubs with fixed answers; texts, dates *)
(* and links are left out.                                                 *)
(***************************************************************************)
EXTENDS Integers, Sequences, FiniteSetsExt

CONSTANTS
    Keys,           \* the keys of a configuration
    MaxVersions     \* bound on the versions

VARIABLES
    record,         \* a learning record: "none", "open" or "closed"
    recommendation, \* the status of its recommendation
    proposal,       \* a change proposal
    versions        \* the configuration's versions, the oldest first

vars == <<record, recommendation, proposal, versions>>

-----------------------------------------------------------------------------
RecommendationStatus == {"none", "proposed", "under_review", "approved", "rejected", "implemented"}

ProposalStatus == {"none", "proposed", "under_review", "approved", "scheduled", "active",
    "validated", "rolled_back", "rejected", "cancelled", "expired"}

Scope == {"global", "environment", "seller"}

(* A version for the environment or the seller at hand, or for all; a key  *)
(* of its snapshot has a value that tells the version.                     *)
Version == [scope: Scope, keys: SUBSET Keys, active: BOOLEAN]

TypeOK ==
    /\ record \in {"none", "open", "closed"}
    /\ recommendation \in RecommendationStatus
    /\ proposal \in [status: ProposalStatus, approved: BOOLEAN, rejected: BOOLEAN]
    /\ versions \in Seq(Version)

NoProposal == [status |-> "none", approved |-> FALSE, rejected |-> FALSE]

Init ==
    /\ record = "none"
    /\ recommendation = "none"
    /\ proposal = NoProposal
    /\ versions = <<>>

-----------------------------------------------------------------------------
(* Learning: nothing but existence is asked for, so that a rejected        *)
(* recommendation can still be approved, and a closed record added to.     *)

OpenRecord ==
    /\ record = "none" /\ record' = "open"
    /\ UNCHANGED <<recommendation, proposal, versions>>

CloseRecord ==
    /\ record # "none" /\ record' = "closed"
    /\ UNCHANGED <<recommendation, proposal, versions>>

Recommend ==
    /\ record # "none" /\ recommendation = "none"
    /\ recommendation' = "proposed"
    /\ UNCHANGED <<record, proposal, versions>>

Judge(status) ==
    /\ recommendation # "none"
    /\ recommendation' = status
    /\ UNCHANGED <<record, proposal, versions>>

-----------------------------------------------------------------------------
(* Proposals                                                               *)

Propose ==
    /\ proposal = NoProposal
    /\ proposal' = [NoProposal EXCEPT !.status = "proposed"]
    /\ UNCHANGED <<record, recommendation, versions>>

Updatable == proposal.status \notin {"none", "rejected", "cancelled"}

Update(status) ==
    /\ Updatable
    /\ proposal' = [proposal EXCEPT !.status = status]
    /\ UNCHANGED <<record, recommendation, versions>>

(* The approver is written before the update raises.                       *)
Approve ==
    /\ proposal # NoProposal
    /\ proposal' = [proposal EXCEPT !.approved = TRUE,
                                    !.status = IF Updatable THEN "approved" ELSE @]
    /\ UNCHANGED <<record, recommendation, versions>>

Reject ==
    /\ proposal # NoProposal
    /\ proposal' = [proposal EXCEPT !.rejected = TRUE, !.status = "rejected"]
    /\ UNCHANGED <<record, recommendation, versions>>

-----------------------------------------------------------------------------
(* Versions                                                                *)

Create(scope, keys) ==
    /\ Len(versions) < MaxVersions
    /\ versions' = Append(versions, [scope |-> scope, keys |-> keys, active |-> FALSE])
    /\ UNCHANGED <<record, recommendation, proposal>>

SetActive(changed) ==
    /\ versions' = [i \in DOMAIN versions |->
           IF i \in DOMAIN changed THEN [versions[i] EXCEPT !.active = changed[i]] ELSE versions[i]]
    /\ UNCHANGED <<record, recommendation, proposal>>

(* Another active version of the scope stays active.                       *)
Activate(i) == SetActive([j \in {i} |-> TRUE])

Expire(i) == SetActive([j \in {i} |-> FALSE])

(* The old version goes first, so that one that supersedes itself stays.   *)
Supersede(old, new) == SetActive([j \in {old, new} |-> j = new])

Next ==
    \/ OpenRecord \/ CloseRecord \/ Recommend
    \/ \E status \in RecommendationStatus \ {"none", "proposed"} : Judge(status)
    \/ Propose \/ Approve \/ Reject
    \/ \E status \in ProposalStatus \ {"none", "rejected"} : Update(status)
    \/ \E scope \in Scope, keys \in SUBSET Keys : Create(scope, keys)
    \/ \E i \in DOMAIN versions : Activate(i) \/ Expire(i)
    \/ \E i, j \in DOMAIN versions : Supersede(i, j)

Spec == Init /\ [][Next]_vars

-----------------------------------------------------------------------------
(* The effective configuration                                             *)

ActiveIn(scope) == {i \in DOMAIN versions : versions[i].scope = scope /\ versions[i].active}

(* The active versions that a scope puts forward: the newest one, if any.  *)
Chosen(scope) ==
    IF ActiveIn(scope) = {} THEN {} ELSE {Max(ActiveIn(scope))}

(* Mutated form: what is there stays.                                      *)
Underlay(config, i) == [k \in versions[i].keys \cup DOMAIN config |->
    IF k \in DOMAIN config THEN config[k] ELSE i]

(* The snapshots of the scopes, each over the one before it: the version   *)
(* that gives each key its value.                                          *)
Overlay(config, i) == [k \in versions[i].keys \cup DOMAIN config |->
    IF k \in versions[i].keys THEN i ELSE config[k]]

Apply(config, scope) ==
    IF Chosen(scope) = {} THEN config ELSE Overlay(config, Max(Chosen(scope)))

Effective == Apply(Apply(Apply([k \in {} |-> 0], "global"), "environment"), "seller")

(* The version that gives a key its value, or 0.                           *)
Source(k) == IF k \in DOMAIN Effective THEN Effective[k] ELSE 0

(* How narrow a scope is, and the one that gives a key its value.          *)
Narrowness == [global |-> 1, environment |-> 2, seller |-> 3]

Depth(k) == IF Source(k) = 0 THEN 0 ELSE Narrowness[versions[Source(k)].scope]

Switched == {i \in DOMAIN versions : versions'[i].active # versions[i].active}

(* Whichever versions were left active beside each other by activations,   *)
(* supersessions and expiry, a key only gets its value from another        *)
(* version when one of the scope that gives it, or of a narrower scope, is *)
(* switched on or off: what is done to wider scopes does not reach a       *)
(* seller or an environment that has its own value, and a new version      *)
(* takes no effect by being created.                                       *)
OverridesHold ==
    [][versions' # versions =>
          \A k \in Keys : Source(k)' # Source(k) =>
              \E i \in Switched : Narrowness[versions[i].scope] >= Depth(k)]_vars
=============================================================================
