----------------------------- MODULE PayoutFees -----------------------------
(***************************************************************************)
(* The amounts of the payout fee: which of the rules of the account, of    *)
(* the standard pricing and of the fallback apply to a sale, which of them *)
(* is chosen for each category of fee, what it charges, and what is        *)
(* charged where there is no rule.  Amounts are whole and rates in percent *)
(* (the code has floats).  How good the answer is, Costing says.           *)
(***************************************************************************)
EXTENDS Integers, Sequences, FiniteSets, SequencesExt

CONSTANT None      \* a condition not stated, a bound not set

Categories == {"receiving", "withdrawal", "conversion", "cross_border", "other"}

Priority == [account_specific_rule |-> 3, standard_pricing_master |-> 2, fallback_master |-> 1]

(* What a sale leaves open.                                                *)
Flags == {"same_currency", "same_country", "conversion_required"}

(* A rule: what it asks of a sale, a function of the fields it names, the  *)
(* monthly volumes it is for, and what it charges.                         *)
Rule(category, source, when, low, high, charge) ==
    [category |-> category, source |-> source, when |-> when, low |-> low, high |-> high,
     charge |-> charge]

(* Both ends of the range of volumes belong to it; an open flag fits all.  *)
Matches(rule, sale) ==
    /\ rule.low # None => rule.low <= sale.volume
    /\ rule.high # None => sale.volume <= rule.high
    /\ \A f \in DOMAIN rule.when :
           rule.when[f] = sale[f] \/ (f \in Flags /\ sale[f] = None)

(* The provider is a condition that does not make a rule more specific.    *)
Conditions(rule) ==
    Cardinality(DOMAIN rule.when \ {"provider"})
        + Cardinality({bound \in {"low", "high"} : rule[bound] # None})

MoreSpecific(new, existing) ==
    \/ Priority[new.source] > Priority[existing.source]
    \/ new.source = existing.source /\ Conditions(new) > Conditions(existing)

(* The rule chosen for each category that has one: the lists are read in   *)
(* the order of their priority.                                            *)
Chosen(rules, sale) ==
    LET matching == SelectSeq(rules, LAMBDA r : Matches(r, sale))
        Better(best, r) == IF best = None \/ MoreSpecific(r, best) THEN r ELSE best
        Of(c) == FoldLeft(Better, None, SelectSeq(matching, LAMBDA r : r.category = c))
    IN  [c \in {matching[i].category : i \in DOMAIN matching} |-> Of(c)]

(* The least charge is applied before the greatest, which wins.            *)
Clip(fee, least, most) ==
    LET raised == IF least # None /\ fee < least THEN least ELSE fee
    IN  IF most # None /\ raised > most THEN most ELSE raised

Charge(rule, gross) ==
    Clip(IF rule.charge.fixed THEN rule.charge.amount ELSE (gross * rule.charge.amount) \div 100,
         rule.charge.least, rule.charge.most)

(* The categories charged without a rule: a local withdrawal, a conversion *)
(* known to be required, and a generic fee if there is nothing else.       *)
Filled(chosen, sale) ==
    LET missing ==
            (IF sale.same_currency = TRUE /\ sale.same_country = TRUE THEN {"withdrawal"} ELSE {})
                \cup (IF sale.conversion_required = TRUE THEN {"conversion"} ELSE {})
    IN  IF DOMAIN chosen = {} /\ missing = {} THEN {"other"} ELSE missing \ DOMAIN chosen

(* In cents, 1.50 for a withdrawal, and two percent and one percent.       *)
Default(category, gross) ==
    CASE category = "withdrawal" -> 150
      [] category = "conversion" -> (gross * 2) \div 100
      [] category = "other"      -> gross \div 100

Fees(rules, sale, strictness) ==
    LET chosen == Chosen(rules, sale)
        filled == IF strictness = "strict" THEN {} ELSE Filled(chosen, sale)
    IN  [c \in Categories |->
            CASE c \in DOMAIN chosen -> Charge(chosen[c], sale.gross)
              [] c \in filled        -> Default(c, sale.gross)
              [] OTHER               -> 0]

Net(rules, sale, strictness) ==
    LET fees == Fees(rules, sale, strictness)
    IN  sale.gross - (fees["receiving"] + fees["withdrawal"] + fees["conversion"]
                        + fees["cross_border"] + fees["other"])
=============================================================================
