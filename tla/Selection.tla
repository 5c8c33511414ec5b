------------------------------ MODULE Selection ------------------------------
(***************************************************************************)
(* From a candidate to the decision to list it: the market evaluation, the *)
(* profitability score and the ranking, three commands that an operator    *)
(* gives in any order (run_scoring, run_ranking, evaluate_candidate).      *)
(* Each reads the newest rows of the ones before it as they are by then.   *)
(*                                                                         *)
(* Amounts are in the unit in which the code adds them up, prices in       *)
(* hundreds of it, confidence and multipliers in thousandths, alignments   *)
(* in percent, time in half days.  Nothing in src/ gives a candidate       *)
(* ambiguity flags or categories, and nothing a ranking a full, blocked or *)
(* blacklisted seller: what follows from them is left out, and so are the  *)
(* synthetic scores and the priorities in a queue.  The services of the    *)
(* scoring and the ranking take SessionLocal from db.session, where it is  *)
(* still missing; they are modelled as they are written.                   *)
(***************************************************************************)
EXTENDS Integers, Sequences, FiniteSets, FiniteSetsExt

CONSTANTS
    Listings,       \* the kinds of listing a search may return
    Counts,         \* how many of a kind it may return
    MaxRows,        \* bound on the evaluations and on the scores
    MaxElapsed,     \* bound on the clock
    None            \* nothing

VARIABLES
    elapsed,        \* half days
    candidate,      \* what the three commands read of the candidate
    evaluations,    \* market_evaluation_results, the oldest first
    scores,         \* profitability_scores, the oldest first
    decision        \* the candidate's row of listing_decisions

vars == <<elapsed, candidate, evaluations, scores, decision>>

-----------------------------------------------------------------------------
Candidate == [review: BOOLEAN, family: {"new", "used"}]

Conditions == {"new", "like_new", "open_box", "used", "broken", "absent"}
Conflicts == {"capacity", "box_only", "lot"}

Listing ==
    [categorized: BOOLEAN, condition: Conditions, conflicts: SUBSET Conflicts, sold: BOOLEAN, price: Nat]

(* A provider that fails returns no listing.                               *)
Failures == {"provider_rate_limit", "provider_timeout", "provider_error", "parse_failure"}

Evaluation ==
    [status: {"success", "unsafe", "error"}, confidence: 0 .. 1000, count: Nat,
     price: Nat \cup {None}, unsafe: SUBSET (Failures \cup {"too_few_comparables"}), at: Nat]

Verdicts == {"launch_now", "review_required", "watch", "reject"}

Score ==
    [complete: BOOLEAN, evaluation: Nat, net: Int, adjusted: Int, margin: Int,
     verdict: Verdicts, unsafe: BOOLEAN, at: Nat]

Decision ==
    [class: {"auto_launch", "manual_review", "watchlist", "reject"}, stale: BOOLEAN,
     evaluation: Nat, score: Nat, at: Nat]

TypeOK ==
    /\ elapsed \in Nat
    /\ candidate \in Candidate
    /\ evaluations \in Seq(Evaluation)
    /\ scores \in Seq(Score)
    /\ decision \in Decision \cup {None}

Init ==
    /\ elapsed = 0
    /\ candidate \in Candidate
    /\ evaluations = <<>> /\ scores = <<>>
    /\ decision = None

-----------------------------------------------------------------------------
(* The market evaluation                                                   *)

CategoryAlignment(l) == IF l.categorized THEN 100 ELSE 50

ConditionAlignment(l) ==
    CASE l.condition = "absent" -> 50
      [] candidate.family = "new" /\ l.condition \in {"new", "like_new"} -> 100
      [] candidate.family = "new" /\ l.condition = "open_box" -> 50
      [] candidate.family = "used" /\ l.condition = "broken" -> 20
      [] candidate.family = "used" /\ l.condition \in {"like_new", "open_box", "used"} -> 100
      [] OTHER -> 10

Comparable(l) == CategoryAlignment(l) >= 40 /\ ConditionAlignment(l) >= 40 /\ l.conflicts = {}

(* What a search found: so many copies of each kind of listing.            *)
Copies(found, kinds) == UNION {{l} \X (1 .. found[l]) : l \in kinds}
Number(found, kinds) == Cardinality(Copies(found, kinds))

Comparables == {l \in Listings : Comparable(l)}

(* The median of the prices of the comparables that were sold; the trimmed *)
(* ends of the band leave it where it is.                                  *)
Median(found) ==
    LET priced == {l \in Comparables : l.sold /\ l.price > 0}
        total == Number(found, priced)
        UpTo(p) == Number(found, {l \in priced : l.price <= p})
        prices == {l.price : l \in {k \in priced : found[k] > 0}}
        low == Min({p \in prices : 2 * UpTo(p) >= total})
        high == Min({p \in prices : 2 * UpTo(p) > total})
    IN  IF total = 0 THEN None ELSE (low + high) \div 2

Confidence(found, unsafe) ==
    LET n == Number(found, Comparables)
        Poor(Alignment(_)) ==
            MapThenSumSet(LAMBDA l : found[l] * Alignment(l), Comparables) < 70 * n
        few == IF n < 3 THEN 500 ELSE 1000
        category == IF Poor(CategoryAlignment) THEN (few * 8) \div 10 ELSE few
    IN  IF unsafe \cap Failures # {} THEN 0
        ELSE IF Poor(ConditionAlignment) THEN (category * 8) \div 10 ELSE category

Status(confidence, unsafe) ==
    IF unsafe \cap {"provider_error", "parse_failure"} # {} THEN "error"
    ELSE IF confidence < 500 \/ unsafe # {} THEN "unsafe"
    ELSE "success"

EvaluationOf(found, failure) ==
    LET n == Number(found, Comparables)
        unsafe == failure \cup (IF n < 3 THEN {"too_few_comparables"} ELSE {})
        confidence == Confidence(found, unsafe)
    IN  [status |-> Status(confidence, unsafe), confidence |-> confidence, count |-> n,
         price |-> Median(found), unsafe |-> unsafe, at |-> elapsed]

-----------------------------------------------------------------------------
(* The profitability score                                                 *)

(* The newest row of each table, by its number; 0 if there is none.        *)
NewestEvaluation == Len(evaluations)
NewestScore == Len(scores)

SourceCost == 5000

(* What a sale costs: a share of the price, in percent, and fixed amounts. *)
CostRate == 15 + 4
FixedCost == SourceCost + 30 + 40 + 2000 + 200 + 300

PenaltyRate(e) ==
    (IF e.count < 3 THEN 5 ELSE 0)
    + (IF e.count >= 10 THEN 8 ELSE IF e.count >= 5 THEN 3 ELSE 0)
    + (IF candidate.review THEN 12 ELSE 0)

(* The command passes no alignments, which are then perfect.               *)
Multiplier(e) ==
    LET raw == (55 * e.confidence) \div 100 + 300
               + 20 * Min({e.count, 5})
               - (IF candidate.review THEN 50 ELSE 0)
               - 50 * Min({Cardinality(e.unsafe), 2})
    IN  Max({350, Min({raw, 1000})})

Launches(net, adjusted, margin, confidence) ==
    adjusted >= 3000 * 1000 /\ margin >= 18 /\ 5 * net >= SourceCost /\ confidence >= 750

Verdict(e, net, adjusted, margin) ==
    LET doubts == candidate.review \/ e.unsafe # {} IN
    CASE e.confidence < 400 \/ net <= 0 -> "reject"
      [] e.confidence >= 400 /\ net > 0 /\ ~doubts /\ Launches(net, adjusted, margin, e.confidence) -> "launch_now"
      [] OTHER -> IF doubts \/ adjusted >= 1500 * 1000 THEN "review_required" ELSE "watch"

Complete(e) == e # None /\ e.price # None

Incomplete ==
    [complete |-> FALSE, evaluation |-> NewestEvaluation, net |-> 0, adjusted |-> 0, margin |-> 0,
     verdict |-> "reject", unsafe |-> TRUE, at |-> elapsed]

ScoreOf(e) ==
    LET net == 100 * e.price - (CostRate + PenaltyRate(e)) * e.price - FixedCost
        adjusted == net * Multiplier(e)
        margin == net \div e.price
    IN  [complete |-> TRUE, evaluation |-> NewestEvaluation, net |-> net, adjusted |-> adjusted,
         margin |-> margin, verdict |-> Verdict(e, net, adjusted, margin),
         unsafe |-> e.unsafe # {}, at |-> elapsed]

-----------------------------------------------------------------------------
(* The ranking                                                             *)

(* Mutated form: only the score has an age.                                *)
ScoreStale(e, s) == elapsed - s.at > 2

Stale(e, s) == elapsed - e.at > 2 \/ elapsed - s.at > 2

(* A candidate without a score has no profit.                              *)
Rejected(e, s) ==
    \/ s # None /\ ~s.complete
    \/ e = None \/ e.status # "success"
    \/ s = None \/ s.net <= 0
    \/ e.confidence < 400

Class(e, s) ==
    LET doubts == candidate.review \/ e.unsafe # {} \/ s.unsafe
        launched == /\ ~Stale(e, s) /\ ~doubts
                    /\ Launches(s.net, s.adjusted, s.margin, e.confidence)
                    /\ s.verdict = "launch_now"
    IN  IF launched THEN "auto_launch"
        ELSE IF doubts \/ Stale(e, s) \/ s.adjusted >= 1500 * 1000 THEN "manual_review"
        ELSE "watchlist"

DecisionOf(e, s) ==
    [class |-> IF Rejected(e, s) THEN "reject" ELSE Class(e, s),
     stale |-> ~Rejected(e, s) /\ Stale(e, s),
     evaluation |-> NewestEvaluation, score |-> NewestScore, at |-> elapsed]

-----------------------------------------------------------------------------
SaveResult(e) == evaluations' = Append(evaluations, e)
SaveScore(s) == scores' = Append(scores, s)

(* The only row of the candidate is overwritten.                           *)
SaveDecision(d) == decision' = d

Evaluate ==
    /\ Len(evaluations) < MaxRows
    /\ \/ \E found \in [Listings -> Counts] : SaveResult(EvaluationOf(found, {}))
       \/ \E f \in Failures : SaveResult(EvaluationOf([l \in Listings |-> 0], {f}))
    /\ UNCHANGED <<elapsed, candidate, scores, decision>>

RunScoring ==
    /\ Len(scores) < MaxRows
    /\ LET e == IF evaluations = <<>> THEN None ELSE evaluations[NewestEvaluation]
       IN  SaveScore(IF Complete(e) THEN ScoreOf(e) ELSE Incomplete)
    /\ UNCHANGED <<elapsed, candidate, evaluations, decision>>

RunRanking ==
    /\ LET e == IF evaluations = <<>> THEN None ELSE evaluations[NewestEvaluation]
           s == IF scores = <<>> THEN None ELSE scores[NewestScore]
       IN  SaveDecision(DecisionOf(e, s))
    /\ UNCHANGED <<elapsed, candidate, evaluations, scores>>

(* The review queue and the refinement job change the candidate's flag.    *)
Review ==
    /\ candidate' = [candidate EXCEPT !.review = ~@]
    /\ UNCHANGED <<elapsed, evaluations, scores, decision>>

Tick ==
    /\ elapsed < MaxElapsed
    /\ elapsed' = elapsed + 1
    /\ UNCHANGED <<candidate, evaluations, scores, decision>>

Next == Evaluate \/ RunScoring \/ RunRanking \/ Review \/ Tick

Spec == Init /\ [][Next]_vars

-----------------------------------------------------------------------------
(* However the commands, the reviews and the days interleave, a candidate  *)
(* is launched without an operator only on a market evaluation and a score *)
(* that were both a day old at most, and only if the evaluation the score  *)
(* was computed from, whichever it is, was itself a safe one: it did not   *)
(* fail, it had three comparables, and its price leaves a profit when the  *)
(* confidence in it is counted.                                            *)
AutoLaunchEarned ==
    decision # None /\ decision.class = "auto_launch" =>
        LET e == evaluations[decision.evaluation]
            s == scores[decision.score]
            source == evaluations[s.evaluation]
        IN  /\ decision.at - e.at <= 2 /\ decision.at - s.at <= 2
            /\ e.status = "success"
            /\ s.evaluation > 0 /\ source.status = "success" /\ source.count >= 3
            /\ (100 - CostRate) * source.price - FixedCost >= 3000
=============================================================================
