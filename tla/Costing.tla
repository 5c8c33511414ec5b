------------------------------- MODULE Costing -------------------------------
(***************************************************************************)
(* What an item costs.  The shipping pipeline asks the detail of the item  *)
(* when the search result does not settle the carrier, and resolves the    *)
(* shipping and the import charges; the selling fee and the payout fee are *)
(* resolved from lists of rules; the total cost aggregates the four.       *)
(*                                                                         *)
(* Every resolver says how good its answer is, from "resolved_exact" down  *)
(* to "unresolved", and in strict mode a total may not rest on a guess.    *)
(* Amounts are left out.  Only rules that match the sale are offered.      *)
(***************************************************************************)
EXTENDS Integers, Sequences, FiniteSets

CONSTANTS
    Components,     \* the components of the selling fee with rules
    MaxConditions,  \* bound on the conditions a rule states
    MaxRules,       \* bound on the rules that match a sale
    MaxOptions,     \* bound on the shipping options of a snapshot
    None            \* nothing

VARIABLES
    stage,          \* what is done next
    mode,           \* the mode of the shipping pipeline
    search,         \* the shipping options of the search result
    attempted,      \* the detail was asked
    detail,         \* the detail of the item
    offered,        \* the rules that match, in the order they are read
    selected,       \* of each component: the rule chosen so far
    quote           \* what the resolvers answered

vars == <<stage, mode, search, attempted, detail, offered, selected, quote>>

-----------------------------------------------------------------------------
Statuses == {"resolved_exact", "resolved_estimated", "resolved_partial", "fallback_default", "unresolved"}

Modes == {"balanced", "search_only", "always_detail", "aggressive_accuracy"}

Strictness == {"strict", "balanced"}

(* The options told apart: an allowed carrier at a price of some type, a   *)
(* service without a name, another carrier, and a local pickup.            *)
Option ==
    [carrier: {"allowed"}, cost_type: {"FIXED", "CALCULATED", "UNKNOWN"}, pickup: {FALSE}]
    \cup [carrier: {"unknown", "other"}, cost_type: {"FIXED"}, pickup: {FALSE}]
    \cup [carrier: {"allowed"}, cost_type: {"FIXED"}, pickup: {TRUE}]

Snapshot == {options \in SUBSET Option : Cardinality(options) <= MaxOptions}

(* Import charges are stated by a shipping option.                         *)
Detail == {d \in [options: Snapshot, charges: BOOLEAN, taxes: BOOLEAN] : d.charges => d.options # {}}

(* The lists of rules, by their priority: of the account, of the           *)
(* marketplace, and of the fallback.                                       *)
Priority == [account_specific_rule |-> 3, marketplace_fee_master |-> 2, fallback_master |-> 1]

(* A rule without a rule_id is not named.                                  *)
Rule == [component: Components, source: DOMAIN Priority, conditions: 0 .. MaxConditions, named: BOOLEAN]

Shipping == [status: Statuses, level: {"search", "detail", "fallback", "none"}, allowed: BOOLEAN]
Imports == [status: Statuses, level: {"detail_import_charges", "detail_taxes", "fallback_master", "none"}]
Selling == [status: Statuses, rule: BOOLEAN]
Total == [status: Statuses, strictness: Strictness, given: SUBSET {"shipping", "import", "selling_fee"},
          procured: BOOLEAN]

NoQuote == [shipping |-> None, imports |-> None, selling |-> None, payout |-> None, total |-> None]

TypeOK ==
    /\ stage \in {"fetch", "land", "landed", "rules", "payout", "total", "done"}
    /\ mode \in Modes \cup {None}
    /\ search \in Snapshot \cup {None}
    /\ attempted \in BOOLEAN
    /\ detail \in Detail \cup {None}
    /\ offered \in Seq(Rule) /\ Len(offered) <= MaxRules
    /\ selected \in [Components -> Rule \cup {None}]
    /\ quote \in [shipping: Shipping \cup {None}, imports: Imports \cup {None}, selling: Selling \cup {None},
                  payout: Statuses \cup {None}, total: Total \cup {None}]

NoRule == [c \in Components |-> None]

Init ==
    /\ stage = "fetch" /\ mode \in Modes /\ search \in Snapshot \cup {None}
    /\ attempted = FALSE /\ detail = None
    /\ offered = <<>> /\ selected = NoRule
    /\ quote = NoQuote

-----------------------------------------------------------------------------
Offering(options, carrier) == {o \in options : ~o.pickup /\ o.carrier = carrier}
Fixed(options) == {o \in options : o.cost_type = "FIXED"}

(* Mutated form: a local pickup with a carrier's name counts.              *)
PickupCounts(options) == {o \in options : o.carrier = "allowed"}

Allowed(options) == Offering(options, "allowed")

should_fetch_detail ==
    \/ mode \in {"always_detail", "aggressive_accuracy"}
    \/ /\ mode = "balanced"
       /\ \/ search \in {None, {}}
          \/ Fixed(Allowed(search)) = {}
          \/ \E o \in search : o.carrier = "unknown"
          \/ \A o \in search : o.pickup

(* A call that fails, or finds nothing, leaves no detail.                  *)
Fetch ==
    /\ stage = "fetch" /\ stage' = "land"
    /\ attempted' = should_fetch_detail
    /\ IF should_fetch_detail THEN detail' \in Detail \cup {None} ELSE UNCHANGED detail
    /\ UNCHANGED <<mode, search, offered, selected, quote>>

(* The detail hides the search result, also when it has no options.        *)
resolve_shipping_cost(fallback) ==
    LET level == CASE detail # None                  -> "detail"
                   [] detail = None /\ search # None -> "search"
                   [] OTHER                          -> "none"
        options == CASE level = "detail" -> detail.options
                     [] level = "search" -> search
                     [] OTHER            -> {}
        allowed == Offering(options, "allowed")
    IN  CASE allowed # {} ->
               [level |-> level, allowed |-> TRUE,
                status |-> CASE Fixed(allowed) # {} -> "resolved_exact"
                             [] Fixed(allowed) = {} /\ \E o \in allowed : o.cost_type = "CALCULATED"
                                  -> "resolved_estimated"
                             [] OTHER -> "resolved_partial"]
          [] allowed = {} /\ fallback -> [level |-> "fallback", allowed |-> FALSE, status |-> "fallback_default"]
          [] OTHER -> [level |-> level, allowed |-> FALSE, status |-> "unresolved"]

resolve_import_charges(fallback) ==
    CASE detail # None /\ detail.charges -> [level |-> "detail_import_charges", status |-> "resolved_exact"]
      [] detail # None /\ ~detail.charges /\ detail.taxes -> [level |-> "detail_taxes", status |-> "resolved_partial"]
      [] (detail = None \/ ~(detail.charges \/ detail.taxes)) /\ fallback
           -> [level |-> "fallback_master", status |-> "fallback_default"]
      [] OTHER -> [level |-> "none", status |-> "unresolved"]

(* A fallback amount, or rule, may be given for either.                    *)
Land ==
    /\ stage = "land" /\ stage' = "landed"
    /\ \E amount, rule \in BOOLEAN :
          quote' = [quote EXCEPT !.shipping = resolve_shipping_cost(amount), !.imports = resolve_import_charges(rule)]
    /\ UNCHANGED <<mode, search, attempted, detail, offered, selected>>

-----------------------------------------------------------------------------
(* The call of the fee resolver leaves the snapshots behind.               *)
Collect ==
    /\ stage = "landed" /\ stage' = "rules"
    /\ mode' = None /\ search' = None /\ attempted' = FALSE /\ detail' = None
    /\ UNCHANGED <<offered, selected, quote>>

(* Mutated form: among equals, the rule read last.                         *)
AtLeastAsSpecific(new, existing) ==
    \/ Priority[new.source] > Priority[existing.source]
    \/ new.source = existing.source /\ new.conditions >= existing.conditions

_is_more_specific(new, existing) ==
    \/ Priority[new.source] > Priority[existing.source]
    \/ new.source = existing.source /\ new.conditions > existing.conditions

(* The next rule that matches: the account's first, the fallback's last.   *)
Read(rule) ==
    /\ stage = "rules" /\ Len(offered) < MaxRules
    /\ offered # <<>> => Priority[rule.source] <= Priority[offered[Len(offered)].source]
    /\ offered' = Append(offered, rule)
    /\ selected' =
          IF selected[rule.component] = None \/ _is_more_specific(rule, selected[rule.component])
          THEN [selected EXCEPT ![rule.component] = rule] ELSE selected
    /\ UNCHANGED <<stage, mode, search, attempted, detail, quote>>

(* The status of the best list among those of the rules chosen.            *)
ByBest(sources) ==
    CASE "account_specific_rule" \in sources -> "resolved_exact"
      [] "account_specific_rule" \notin sources /\ "marketplace_fee_master" \in sources -> "resolved_estimated"
      [] OTHER -> "fallback_default"

(* An unresolved fee with some component is rewritten at the end, also the *)
(* one that strict mode has just refused.                                  *)
_finalize_result(status, parts, named) ==
    CASE status = "unresolved" /\ parts /\ ~named -> "fallback_default"
      [] status = "unresolved" /\ parts /\ named  -> "resolved_partial"
      [] OTHER                                    -> status

(* A fee that lacks the component it needs is refused in strict mode, and  *)
(* filled in with a generic rate, which makes it partial, in balanced.     *)
Fee(strictness, sources, named, lacking, filled) ==
    LET found == IF sources = {} THEN "unresolved" ELSE ByBest(sources)
        refused == strictness = "strict" /\ lacking
        status == _finalize_result(IF refused THEN "unresolved" ELSE found, sources # {} \/ filled, named)
    IN  IF status \in {"resolved_exact", "resolved_estimated"} /\ lacking /\ strictness = "balanced"
        THEN "resolved_partial" ELSE status

resolve_selling_fee(strictness) ==
    LET rules == {selected[c] : c \in Components} \ {None}
    IN  Fee(strictness, {r.source : r \in rules}, \E r \in rules : r.named,
            selected["final_value_fee"] = None, strictness # "strict")

(* A sale without a marketplace or an amount is refused before any rule.   *)
ResolveSelling ==
    /\ stage = "rules" /\ stage' = "payout"
    /\ \E strictness \in Strictness, valid \in BOOLEAN :
          quote' = [quote EXCEPT !.selling =
              [status |-> IF valid THEN resolve_selling_fee(strictness) ELSE "unresolved",
               rule |-> valid /\ selected["final_value_fee"] # None]]
    /\ offered' = <<>> /\ selected' = NoRule
    /\ UNCHANGED <<mode, search, attempted, detail>>

(* The rules chosen, by their categories, are chosen as those above are.   *)
(* Outside of strict mode a missing conversion, a local withdrawal or, if  *)
(* there is nothing at all, a generic fee is filled in.                    *)
ResolvePayout ==
    /\ stage = "payout" /\ stage' = "total"
    /\ \E strictness \in Strictness, valid, conversion, required, named \in BOOLEAN,
          sources \in SUBSET DOMAIN Priority :
          /\ conversion \/ named => sources # {}
          /\ quote' = [quote EXCEPT !.payout =
                IF valid THEN Fee(strictness, sources, named, required /\ ~conversion, strictness # "strict")
                         ELSE "unresolved"]
    /\ UNCHANGED <<mode, search, attempted, detail, offered, selected>>

-----------------------------------------------------------------------------
(* Mutated form: a partial component does not count.                       *)
PartialPasses(status) == status \in {"fallback_default", "unresolved"}

(* What a status says of a component: only a guess, or less.               *)
Guessed(status) == status \in {"fallback_default", "resolved_partial", "unresolved"}

(* An answer that is not given is unresolved; no payout fee is partial. An *)
(* unresolved payout fee passes for none.                                  *)
resolve_total_cost(strictness, procured, given, paid) ==
    LET shipping == IF "shipping" \in given THEN quote.shipping.status ELSE "unresolved"
        import == IF "import" \in given THEN quote.imports.status ELSE "unresolved"
        selling == IF "selling_fee" \in given THEN quote.selling.status ELSE "unresolved"
        payout == IF paid THEN quote.payout ELSE "resolved_partial"
        procurement == IF procured THEN "resolved_exact" ELSE "unresolved"
        major == {procurement, shipping, import, selling}
        uncertain == \/ \E status \in major : Guessed(status)
                     \/ payout # "unresolved" /\ Guessed(payout)
    IN  CASE strictness = "strict" /\ uncertain -> "unresolved"
          [] strictness # "strict" /\ "unresolved" \in {procurement, selling} -> "unresolved"
          [] OTHER ->
               CASE "unresolved" \in major \/ "resolved_partial" \in major \cup {payout} -> "resolved_partial"
                 [] "unresolved" \notin major /\ "resolved_partial" \notin major \cup {payout}
                    /\ "fallback_default" \in major \cup {payout} -> "fallback_default"
                 [] OTHER -> "resolved_estimated"

ResolveTotal ==
    /\ stage = "total" /\ stage' = "done"
    /\ \E strictness \in Strictness, procured, paid \in BOOLEAN, given \in SUBSET {"shipping", "import", "selling_fee"} :
          quote' = [quote EXCEPT !.total =
              [status |-> resolve_total_cost(strictness, procured, given, paid), strictness |-> strictness,
               given |-> given, procured |-> procured]]
    /\ UNCHANGED <<mode, search, attempted, detail, offered, selected>>

Next == Fetch \/ Land \/ Collect \/ (\E rule \in Rule : Read(rule)) \/ ResolveSelling \/ ResolvePayout \/ ResolveTotal

Spec == Init /\ [][Next]_vars

-----------------------------------------------------------------------------
(* Rule r comes before rule q: a better list, or more conditions, or, if   *)
(* these are the same, earlier.                                            *)
Before(r, q, earlier) ==
    \/ Priority[r.source] > Priority[q.source]
    \/ /\ r.source = q.source
       /\ r.conditions > q.conditions \/ (r.conditions = q.conditions /\ earlier)

(* Of the rules of a component, the one chosen is of the best list, then   *)
(* of the most conditions, then the first: in whatever order the lists     *)
(* hold them, the general rule never hides the specific one.               *)
SpecificRuleWins ==
    \A c \in Components :
        LET of == {i \in DOMAIN offered : offered[i].component = c}
        IN  IF of = {} THEN selected[c] = None
            ELSE \E i \in of : selected[c] = offered[i] /\ \A j \in of : j = i \/ Before(offered[i], offered[j], i < j)

(* When the balanced pipeline spares the call for the detail, the search   *)
(* result settles the shipping: should_fetch_detail and the resolver, each *)
(* with its own view of the options, agree on which ones count.            *)
SparedIsExact ==
    stage = "landed" /\ mode = "balanced" /\ ~attempted =>
        /\ quote.shipping.status = "resolved_exact"
        /\ quote.shipping.level = "search" /\ quote.shipping.allowed

(* A total that strict mode lets through rests on a price of purchase, on  *)
(* what an allowed carrier asks, on import charges that the item states,   *)
(* and on a rule for the final value fee; never on a fallback or a generic *)
(* rate, whatever strictness the fees were resolved with.                  *)
StrictHonest ==
    stage = "done" /\ quote.total.strictness = "strict" /\ quote.total.status # "unresolved" =>
        /\ quote.total.procured /\ quote.total.given = {"shipping", "import", "selling_fee"}
        /\ quote.shipping.allowed /\ quote.shipping.level \in {"search", "detail"}
        /\ quote.imports.level = "detail_import_charges"
        /\ quote.selling.rule
=============================================================================
