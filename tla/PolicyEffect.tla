---------------------------- MODULE PolicyEffect ----------------------------
(***************************************************************************)
(* What operations policies do to a seller in an environment: the          *)
(* candidates that signals and incidents make, the policies made of them,  *)
(* and the decision that the active policies come to.  No job applies the  *)
(* decision yet, and the scan that would find candidates finds none.       *)
(***************************************************************************)
EXTENDS Integers, Sequences, SequencesExt

CONSTANT None      \* no target, no limit

Severity == {"critical", "high", "medium", "low"}

(* Those that stop live execution or the making of listings.               *)
DenyFirst == {"block_live_execution", "environment_safe_mode", "block_listing_creation"}

Restrictiveness ==
    [block_live_execution |-> 100, environment_safe_mode |-> 90, block_listing_creation |-> 80,
     force_dry_run |-> 70, pause_handoff |-> 60, suppress_retry |-> 50, limit_concurrency |-> 40,
     limit_seller_throughput |-> 30, require_manual_review |-> 20, operator_attention_required |-> 10]

ActionType == DOMAIN Restrictiveness

MostRestrictive(actions) ==
    CHOOSE a \in actions : \A b \in actions : Restrictiveness[b] <= Restrictiveness[a]

-----------------------------------------------------------------------------
(* Candidates                                                              *)

Signal(at, action, severity, scope, confidence) ==
    [at |-> at, action |-> action, severity |-> severity, scope |-> scope, confidence |-> confidence]

(* The least measure at which each signal speaks: a count, minutes, or a   *)
(* rate in percent.                                                        *)
Detectors ==
    [credential_failure_spike |-> Signal(3, "block_live_execution", "critical", "seller", 95),
     environment_anomaly |-> Signal(31, "environment_safe_mode", "high", "environment", 85),
     retry_loop_risk |-> Signal(60, "suppress_retry", "high", "seller", 80),
     seller_health_degradation |-> Signal(31, "pause_handoff", "high", "seller", 75),
     manual_alert |-> Signal(3, "require_manual_review", "medium", "seller", 70)]

Candidate(action, severity, scope, target, confidence) ==
    [action |-> action, severity |-> severity, scope |-> scope, target |-> target,
     confidence |-> confidence]

Detect(s, n, seller, environment) ==
    LET d == Detectors[s]
    IN  IF n < d.at THEN None
        ELSE Candidate(d.action, d.severity, d.scope,
                       IF d.scope = "seller" THEN seller ELSE environment, d.confidence)

(* What an incident's severity and type call for; words are those the type *)
(* contains.                                                               *)
ActionFor(severity, words) ==
    CASE severity = "critical" /\ words \cap {"system", "environment"} # {} -> "environment_safe_mode"
      [] severity = "critical" /\ words \cap {"system", "environment"} = {} -> "block_live_execution"
      [] severity = "high" /\ words \cap {"auth", "credential"} # {}        -> "block_live_execution"
      [] severity = "high" /\ words \cap {"auth", "credential"} = {} /\ "retry" \in words -> "suppress_retry"
      [] severity = "high" /\ words \cap {"auth", "credential", "retry"} = {} -> "pause_handoff"
      [] OTHER                                                               -> "require_manual_review"

(* The severity as the conversion reads it.  str() of an enumeration's     *)
(* member carries the name of the enumeration, so that only a plain text   *)
(* is ever critical.                                                       *)
SeverityRead(incident) ==
    IF incident.severity = "critical" /\ incident.text THEN "critical" ELSE "high"

FromIncident(incident) ==
    IF incident.severity \notin {"critical", "high"} THEN None
    ELSE LET severity == SeverityRead(incident)
             action == ActionFor(severity, incident.words)
         IN  CASE incident.seller # None ->
                      Candidate(action, severity, "seller", incident.seller, 90)
               [] incident.seller = None /\ incident.environment # None ->
                      Candidate(action, severity, "environment", incident.environment, 90)
               [] OTHER -> Candidate(action, severity, "global", None, 90)

CandidatePriority(c) ==
    LET score == 50 + (CASE c.severity = "critical" -> 40 [] c.severity = "high" -> 20 [] OTHER -> 0)
                    + (IF c.action \in DenyFirst THEN 10 ELSE 0)
    IN  IF score > 100 THEN 100 ELSE score

-----------------------------------------------------------------------------
(* Policies                                                                *)

Policy(scope, target, action, priority, limit) ==
    [scope |-> scope, target |-> target, action |-> action, priority |-> priority, limit |-> limit]

FromCandidate(c) == Policy(c.scope, c.target, c.action, c.confidence, None)

ByHand(scope, target, action) == Policy(scope, target, action, 50, None)

(* In hours; none for a policy made by hand.                               *)
ReviewDue(severity) ==
    CASE severity = "critical" -> 1 [] severity = "high" -> 4 [] OTHER -> None

Covers(p, seller, environment) ==
    \/ p.scope = "global"
    \/ p.scope = "seller" /\ p.target = seller
    \/ p.scope = "environment" /\ p.target = environment

ScopeRank == [global |-> 4, environment |-> 3, seller |-> 2, execution_channel |-> 1]

Before(p, q) ==
    \/ ScopeRank[p.scope] > ScopeRank[q.scope]
    \/ ScopeRank[p.scope] = ScopeRank[q.scope] /\ p.priority > q.priority

(* The widest scope first, in it the greatest priority, and of equals the  *)
(* one that came first.                                                    *)
ByPrecedence(active) ==
    FoldLeft(LAMBDA sorted, p :
                 SelectSeq(sorted, LAMBDA q : ~Before(p, q)) \o <<p>>
                     \o SelectSeq(sorted, LAMBDA q : Before(p, q)),
             <<>>, active)

(* Of a scope, the first of the greatest priority among those that apply.  *)
Top(active, scope, seller, environment) ==
    FoldLeft(LAMBDA top, p :
                 IF top = <<>> \/ p.priority > top[1].priority THEN <<p>> ELSE top,
             <<>>,
             SelectSeq(active, LAMBDA p : p.scope = scope /\ Covers(p, seller, environment)))

Smaller(a, b) == IF a < b THEN a ELSE b

(* A concurrency limit counts from ten anew at each policy; a throughput   *)
(* of nought counts as none.                                               *)
Concurrency(decided, p) ==
    IF p.action # "limit_concurrency" THEN decided
    ELSE IF p.limit = None THEN 10 ELSE Smaller(p.limit, 10)

Throughput(decided, p) ==
    IF p.action # "limit_seller_throughput" \/ p.limit = None THEN decided
    ELSE IF decided \in {None, 0} THEN p.limit ELSE Smaller(p.limit, decided)

(* What one policy of each scope, the narrowest first, comes to.           *)
Merge(policies) ==
    LET actions == {policies[i].action : i \in DOMAIN policies}
    IN  [live_execution_allowed |-> actions \cap {"block_live_execution", "environment_safe_mode"} = {},
         environment_safe_mode |-> "environment_safe_mode" \in actions,
         block_listing_creation |-> "block_listing_creation" \in actions,
         force_dry_run |-> "force_dry_run" \in actions,
         handoff_paused |-> "pause_handoff" \in actions,
         retry_allowed |-> "suppress_retry" \notin actions,
         require_manual_review |-> "require_manual_review" \in actions,
         operator_attention |-> "operator_attention_required" \in actions,
         concurrency_limit |-> FoldLeft(Concurrency, None, policies),
         seller_throughput_limit |-> FoldLeft(Throughput, None, policies)]

Effective(active, seller, environment) ==
    Merge(Top(active, "seller", seller, environment)
            \o Top(active, "environment", seller, environment)
            \o Top(active, "global", seller, environment))

ReviewLevel(decision) ==
    CASE ~decision.require_manual_review -> "NONE"
      [] decision.require_manual_review
           /\ (decision.operator_attention \/ decision.environment_safe_mode) -> "ESCALATED"
      [] OTHER -> "STANDARD"
=============================================================================
