---------------------------- MODULE CostingProofs ----------------------------
(***************************************************************************)
(* The properties of Costing, for every set of components, any number of   *)
(* rules and conditions, and snapshots of any size.                        *)
(***************************************************************************)
EXTENDS MCOperations, TLAPS

(* Conditions are counted, and nothing is not a rule.                      *)
CostingAssumption == MaxConditions \in Nat /\ None \notin Cst!Rule

-----------------------------------------------------------------------------
(* What the answers say of their own quality is what they rest on, from    *)
(* the moment each is given.                                               *)
LandedHonest ==
    stage \in {"landed", "rules", "payout", "total", "done"} =>
        /\ ~Cst!Guessed(quote.shipping.status) => quote.shipping.allowed /\ quote.shipping.level \in {"search", "detail"}
        /\ ~Cst!Guessed(quote.imports.status) => quote.imports.level = "detail_import_charges"

SoldHonest ==
    stage \in {"payout", "total", "done"} => (~Cst!Guessed(quote.selling.status) => quote.selling.rule)

HonestInv ==
    /\ stage \in {"fetch", "land", "landed", "rules", "payout", "total", "done"}
    /\ DOMAIN quote = {"shipping", "imports", "selling", "payout", "total"}
    /\ LandedHonest
    /\ SoldHonest
    /\ Cst!StrictHonest

(* The answer of the shipping resolver is no guess only if an allowed      *)
(* carrier of a snapshot gave it.                                          *)
LEMMA ShippingHonest ==
    ASSUME NEW fallback \in BOOLEAN, ~Cst!Guessed(Cst!resolve_shipping_cost(fallback).status)
    PROVE  /\ Cst!resolve_shipping_cost(fallback).allowed
           /\ Cst!resolve_shipping_cost(fallback).level \in {"search", "detail"}
BY DEF Cst!resolve_shipping_cost, Cst!Guessed, Cst!Offering

LEMMA ImportsHonest ==
    ASSUME NEW fallback \in BOOLEAN, ~Cst!Guessed(Cst!resolve_import_charges(fallback).status)
    PROVE  Cst!resolve_import_charges(fallback).level = "detail_import_charges"
BY DEF Cst!resolve_import_charges, Cst!Guessed

(* A selling fee that is no guess has a rule for the final value fee.      *)
LEMMA SellingHonest ==
    ASSUME NEW strictness \in Cst!Strictness, ~Cst!Guessed(Cst!resolve_selling_fee(strictness))
    PROVE  selected["final_value_fee"] # None
<1>1. SUFFICES ASSUME selected["final_value_fee"] = None PROVE FALSE
  OBVIOUS
<1>2. CASE strictness = "strict"
  BY <1>1, <1>2 DEF Cst!resolve_selling_fee, Cst!Fee, Cst!_finalize_result, Cst!Guessed
<1>3. CASE strictness = "balanced"
  BY <1>1, <1>3 DEF Cst!resolve_selling_fee, Cst!Fee, Cst!_finalize_result, Cst!ByBest, Cst!Guessed
<1>4. QED BY <1>2, <1>3 DEF Cst!Strictness

(* A strict total that gets through has no guess among its components.     *)
LEMMA TotalHonest ==
    ASSUME NEW procured \in BOOLEAN, NEW paid \in BOOLEAN, NEW given \in SUBSET {"shipping", "import", "selling_fee"},
           Cst!resolve_total_cost("strict", procured, given, paid) # "unresolved"
    PROVE  /\ procured /\ given = {"shipping", "import", "selling_fee"}
           /\ ~Cst!Guessed(quote.shipping.status) /\ ~Cst!Guessed(quote.imports.status) /\ ~Cst!Guessed(quote.selling.status)
BY DEF Cst!resolve_total_cost, Cst!Guessed

LEMMA HonestInit == Cst!Init => HonestInv
BY DEF Cst!Init, Cst!NoQuote, HonestInv, LandedHonest, SoldHonest, Cst!StrictHonest

LEMMA HonestStep == HonestInv /\ [Cst!Next]_(Cst!vars) => HonestInv'
<1>1. SUFFICES ASSUME HonestInv, [Cst!Next]_(Cst!vars) PROVE HonestInv'
  OBVIOUS
<1> USE <1>1
<1>2. CASE Cst!Fetch
  BY <1>2 DEF Cst!Fetch, HonestInv, LandedHonest, SoldHonest, Cst!StrictHonest
<1>3. CASE Cst!Land
  <2>1. PICK amount \in BOOLEAN, rule \in BOOLEAN :
           quote' = [quote EXCEPT !.shipping = Cst!resolve_shipping_cost(amount), !.imports = Cst!resolve_import_charges(rule)]
    BY <1>3 DEF Cst!Land
  <2>2. /\ DOMAIN quote' = DOMAIN quote
        /\ quote'.shipping = Cst!resolve_shipping_cost(amount)
        /\ quote'.imports = Cst!resolve_import_charges(rule)
    BY <2>1 DEF HonestInv
  <2>3. LandedHonest'
    BY <2>2, ShippingHonest, ImportsHonest DEF LandedHonest, Cst!Guessed
  <2>4. QED BY <1>3, <2>2, <2>3 DEF Cst!Land, HonestInv, SoldHonest, Cst!StrictHonest
<1>4. CASE Cst!Collect
  BY <1>4 DEF Cst!Collect, HonestInv, LandedHonest, SoldHonest, Cst!StrictHonest
<1>5. CASE \E rule \in Cst!Rule : Cst!Read(rule)
  BY <1>5 DEF Cst!Read, HonestInv, LandedHonest, SoldHonest, Cst!StrictHonest
<1>6. CASE Cst!ResolveSelling
  <2>1. PICK strictness \in Cst!Strictness, valid \in BOOLEAN :
           quote' = [quote EXCEPT !.selling =
               [status |-> IF valid THEN Cst!resolve_selling_fee(strictness) ELSE "unresolved",
                rule |-> valid /\ selected["final_value_fee"] # None]]
    BY <1>6 DEF Cst!ResolveSelling
  <2>2. /\ DOMAIN quote' = DOMAIN quote
        /\ quote'.shipping = quote.shipping /\ quote'.imports = quote.imports
        /\ quote'.selling.status = IF valid THEN Cst!resolve_selling_fee(strictness) ELSE "unresolved"
        /\ quote'.selling.rule <=> valid /\ selected["final_value_fee"] # None
    BY <2>1 DEF HonestInv
  <2>3. SoldHonest'
    BY <2>2, SellingHonest DEF SoldHonest, Cst!Guessed
  <2>4. QED BY <1>6, <2>2, <2>3 DEF Cst!ResolveSelling, HonestInv, LandedHonest, Cst!StrictHonest
<1>7. CASE Cst!ResolvePayout
  <2>1. PICK status : quote' = [quote EXCEPT !.payout = status]
    BY <1>7 DEF Cst!ResolvePayout
  <2>2. /\ DOMAIN quote' = DOMAIN quote
        /\ quote'.shipping = quote.shipping /\ quote'.imports = quote.imports /\ quote'.selling = quote.selling
    BY <2>1 DEF HonestInv
  <2>3. QED BY <1>7, <2>2 DEF Cst!ResolvePayout, HonestInv, LandedHonest, SoldHonest, Cst!StrictHonest
<1>8. CASE Cst!ResolveTotal
  <2>1. PICK strictness \in Cst!Strictness, procured \in BOOLEAN, paid \in BOOLEAN,
             given \in SUBSET {"shipping", "import", "selling_fee"} :
           quote' = [quote EXCEPT !.total =
               [status |-> Cst!resolve_total_cost(strictness, procured, given, paid), strictness |-> strictness,
                given |-> given, procured |-> procured]]
    BY <1>8 DEF Cst!ResolveTotal
  <2>2. /\ DOMAIN quote' = DOMAIN quote
        /\ quote'.shipping = quote.shipping /\ quote'.imports = quote.imports /\ quote'.selling = quote.selling
        /\ quote'.total = [status |-> Cst!resolve_total_cost(strictness, procured, given, paid),
                           strictness |-> strictness, given |-> given, procured |-> procured]
    BY <2>1 DEF HonestInv
  <2>3. Cst!StrictHonest'
    <3>1. SUFFICES ASSUME strictness = "strict", Cst!resolve_total_cost("strict", procured, given, paid) # "unresolved"
                   PROVE  /\ procured /\ given = {"shipping", "import", "selling_fee"}
                          /\ quote.shipping.allowed /\ quote.shipping.level \in {"search", "detail"}
                          /\ quote.imports.level = "detail_import_charges"
                          /\ quote.selling.rule
      BY <2>2 DEF Cst!StrictHonest
    <3>2. stage = "total"
      BY <1>8 DEF Cst!ResolveTotal
    <3>3. QED BY <3>1, <3>2, TotalHonest DEF HonestInv, LandedHonest, SoldHonest
  <2>4. QED BY <1>8, <2>2, <2>3 DEF Cst!ResolveTotal, HonestInv, LandedHonest, SoldHonest
<1>9. CASE UNCHANGED Cst!vars
  BY <1>9 DEF Cst!vars, HonestInv, LandedHonest, SoldHonest, Cst!StrictHonest
<1>10. QED BY <1>2, <1>3, <1>4, <1>5, <1>6, <1>7, <1>8, <1>9 DEF Cst!Next

(* A strict total rests on no guess (total_cost/resolver.py): each answer  *)
(* that is no guess has, from the moment it is given, what it claims, and  *)
(* the total lets no guess through.                                        *)
THEOREM StrictTotals == Cst!Spec => []StrictHonest
<1>1. HonestInv => StrictHonest
  BY DEF HonestInv, StrictHonest
<1>2. QED BY HonestInit, HonestStep, <1>1, PTL DEF Cst!Spec

-----------------------------------------------------------------------------
(* Between the decision to spare the detail and its use nothing moves.     *)
SparedInv ==
    /\ DOMAIN quote = {"shipping", "imports", "selling", "payout", "total"}
    /\ stage = "fetch" => detail = None
    /\ stage = "land" => (Cst!should_fetch_detail \/ (~attempted /\ detail = None)) /\ (Cst!should_fetch_detail => attempted)
    /\ Cst!SparedIsExact

(* When the detail is spared, the resolver finds an allowed fixed price in *)
(* the search result.                                                      *)
LEMMA SparedResolved ==
    ASSUME mode = "balanced", ~Cst!should_fetch_detail, detail = None, NEW fallback \in BOOLEAN
    PROVE  /\ Cst!resolve_shipping_cost(fallback).status = "resolved_exact"
           /\ Cst!resolve_shipping_cost(fallback).level = "search"
           /\ Cst!resolve_shipping_cost(fallback).allowed
<1>1. search # None /\ search # {} /\ Cst!Fixed(Cst!Offering(search, "allowed")) # {}
  BY DEF Cst!should_fetch_detail, Cst!Allowed
<1>2. Cst!Offering(search, "allowed") # {}
  BY <1>1 DEF Cst!Fixed
<1>3. QED BY <1>1, <1>2 DEF Cst!resolve_shipping_cost

LEMMA SparedInit == Cst!Init => SparedInv
BY DEF Cst!Init, Cst!NoQuote, SparedInv, Cst!SparedIsExact

LEMMA SparedStep == SparedInv /\ [Cst!Next]_(Cst!vars) => SparedInv'
<1>1. SUFFICES ASSUME SparedInv, [Cst!Next]_(Cst!vars) PROVE SparedInv'
  OBVIOUS
<1> USE <1>1
<1>2. CASE Cst!Fetch
  <2>1. Cst!should_fetch_detail' <=> Cst!should_fetch_detail
    BY <1>2 DEF Cst!Fetch, Cst!should_fetch_detail
  <2>2. QED BY <1>2, <2>1 DEF Cst!Fetch, SparedInv, Cst!SparedIsExact
<1>3. CASE Cst!Land
  <2>1. PICK amount \in BOOLEAN, rule \in BOOLEAN :
           quote' = [quote EXCEPT !.shipping = Cst!resolve_shipping_cost(amount), !.imports = Cst!resolve_import_charges(rule)]
    BY <1>3 DEF Cst!Land
  <2>2. DOMAIN quote' = DOMAIN quote /\ quote'.shipping = Cst!resolve_shipping_cost(amount)
    BY <2>1 DEF SparedInv
  <2>3. Cst!SparedIsExact'
    BY <1>3, <2>2, SparedResolved DEF Cst!Land, SparedInv, Cst!SparedIsExact
  <2>4. QED BY <1>3, <2>2, <2>3 DEF Cst!Land, SparedInv
<1>4. CASE Cst!Collect
  BY <1>4 DEF Cst!Collect, SparedInv, Cst!SparedIsExact
<1>5. CASE \E rule \in Cst!Rule : Cst!Read(rule)
  BY <1>5 DEF Cst!Read, SparedInv, Cst!SparedIsExact
<1>6. CASE Cst!ResolveSelling
  <2>1. PICK selling : quote' = [quote EXCEPT !.selling = selling]
    BY <1>6 DEF Cst!ResolveSelling
  <2>2. QED BY <1>6, <2>1 DEF Cst!ResolveSelling, SparedInv, Cst!SparedIsExact
<1>7. CASE Cst!ResolvePayout
  <2>1. PICK status : quote' = [quote EXCEPT !.payout = status]
    BY <1>7 DEF Cst!ResolvePayout
  <2>2. QED BY <1>7, <2>1 DEF Cst!ResolvePayout, SparedInv, Cst!SparedIsExact
<1>8. CASE Cst!ResolveTotal
  <2>1. PICK total : quote' = [quote EXCEPT !.total = total]
    BY <1>8 DEF Cst!ResolveTotal
  <2>2. QED BY <1>8, <2>1 DEF Cst!ResolveTotal, SparedInv, Cst!SparedIsExact
<1>9. CASE UNCHANGED Cst!vars
  BY <1>9 DEF Cst!vars, SparedInv, Cst!SparedIsExact, Cst!should_fetch_detail
<1>10. QED BY <1>2, <1>3, <1>4, <1>5, <1>6, <1>7, <1>8, <1>9 DEF Cst!Next

(* A detail that the balanced pipeline does not ask is not missed          *)
(* (ebay/shipping_pipeline.py and shipping/resolver.py agree).             *)
THEOREM SparedDetails == Cst!Spec => []SparedIsExact
<1>1. SparedInv => SparedIsExact
  BY DEF SparedInv, SparedIsExact
<1>2. QED BY SparedInit, SparedStep, <1>1, PTL DEF Cst!Spec

-----------------------------------------------------------------------------
(* The rules read are rules, and each component has the best of them.      *)
ChosenInv ==
    /\ offered \in Seq(Cst!Rule)
    /\ selected \in [Components -> Cst!Rule \cup {None}]
    /\ Cst!SpecificRuleWins

(* The test of the code is the order of the property, for a rule that is   *)
(* read after the other.                                                   *)
LEMMA MoreSpecific ==
    ASSUME MaxConditions \in Nat, NEW r \in Cst!Rule, NEW q \in Cst!Rule
    PROVE  /\ Cst!_is_more_specific(r, q) => Cst!Before(r, q, FALSE)
           /\ ~Cst!_is_more_specific(r, q) => Cst!Before(q, r, TRUE)
BY DEF Cst!_is_more_specific, Cst!Before, Cst!Rule, Cst!Priority

LEMMA BeforeTransitive ==
    ASSUME MaxConditions \in Nat, NEW r \in Cst!Rule, NEW q \in Cst!Rule, NEW p \in Cst!Rule,
           Cst!Before(r, q, FALSE), Cst!Before(q, p, TRUE)
    PROVE  Cst!Before(r, p, FALSE)
BY DEF Cst!Before, Cst!Rule, Cst!Priority

LEMMA ChosenStep ==
    ASSUME CostingAssumption, ChosenInv, [Cst!Next]_(Cst!vars) PROVE ChosenInv'
<1> USE CostingAssumption DEF CostingAssumption
<1>1. CASE \E rule \in Cst!Rule : Cst!Read(rule)
  <2>1. PICK rule \in Cst!Rule : Cst!Read(rule)
    BY <1>1
  <2> DEFINE n == Len(offered) + 1
  <2>2. /\ offered' \in Seq(Cst!Rule) /\ DOMAIN offered' = 1 .. n
        /\ DOMAIN offered = 1 .. Len(offered) /\ Len(offered) \in Nat
        /\ offered'[n] = rule
        /\ \A i \in DOMAIN offered : offered'[i] = offered[i] /\ offered[i] \in Cst!Rule
    BY <2>1 DEF ChosenInv, Cst!Read
  <2>3. selected' \in [Components -> Cst!Rule \cup {None}]
    BY <2>1 DEF ChosenInv, Cst!Read
  <2>4. ASSUME NEW c \in Components
        PROVE  LET of == {i \in DOMAIN offered' : offered'[i].component = c}
               IN  IF of = {} THEN selected'[c] = None
                   ELSE \E i \in of : /\ selected'[c] = offered'[i]
                                     /\ \A j \in of : j = i \/ Cst!Before(offered'[i], offered'[j], i < j)
    <3> DEFINE of == {i \in DOMAIN offered : offered[i].component = c}
               ofp == {i \in DOMAIN offered' : offered'[i].component = c}
    <3>1. IF of = {} THEN selected[c] = None
          ELSE \E i \in of : /\ selected[c] = offered[i]
                            /\ \A j \in of : j = i \/ Cst!Before(offered[i], offered[j], i < j)
      BY <2>4 DEF ChosenInv, Cst!SpecificRuleWins
    <3>2. CASE rule.component # c
      <4>1. ofp = of
        BY <3>2, <2>2
      <4>2. selected'[c] = selected[c]
        BY <3>2, <2>1, <2>4 DEF Cst!Read, ChosenInv
      <4>3. QED BY <3>1, <4>1, <4>2, <2>2
    <3>3. CASE rule.component = c
      <4>1. ofp = of \cup {n} /\ n \notin of
        BY <3>3, <2>2
      <4>2. selected' = IF selected[c] = None \/ Cst!_is_more_specific(rule, selected[c])
                        THEN [selected EXCEPT ![c] = rule] ELSE selected
        BY <3>3, <2>1 DEF Cst!Read
      <4>3. CASE of = {}
        <5>1. selected'[c] = rule
          BY <4>2, <4>3, <3>1, <2>4 DEF ChosenInv
        <5>2. QED BY <5>1, <4>1, <4>3, <2>2
      <4>4. CASE of # {}
        <5>1. PICK i \in of : /\ selected[c] = offered[i]
                              /\ \A j \in of : j = i \/ Cst!Before(offered[i], offered[j], i < j)
          BY <3>1, <4>4
        <5>2. offered[i] \in Cst!Rule /\ offered[i] # None /\ i \in 1 .. Len(offered)
          BY <2>2
        <5>3. CASE Cst!_is_more_specific(rule, offered[i])
          <6>1. selected'[c] = rule
            BY <4>2, <5>1, <5>3, <2>4 DEF ChosenInv
          <6>2. ASSUME NEW j \in of PROVE Cst!Before(rule, offered[j], FALSE)
            <7>1. Cst!Before(rule, offered[i], FALSE) /\ offered[j] \in Cst!Rule
              BY <5>2, <5>3, <2>2, MoreSpecific
            <7>2. CASE j = i
              BY <7>1, <7>2
            <7>3. CASE j # i
              <8>1. Cst!Before(offered[i], offered[j], TRUE)
                BY <7>3, <5>1 DEF Cst!Before
              <8>2. QED BY <7>1, <8>1, <5>2, BeforeTransitive
            <7>4. QED BY <7>2, <7>3
          <6>3. ASSUME NEW j \in of PROVE Cst!Before(rule, offered[j], n < j)
            BY <6>2 DEF Cst!Before
          <6>4. QED BY <6>1, <6>3, <4>1, <2>2
        <5>4. CASE ~Cst!_is_more_specific(rule, offered[i])
          <6>1. selected'[c] = offered[i]
            BY <4>2, <5>1, <5>2, <5>4
          <6>2. Cst!Before(offered[i], rule, i < n)
            <7>1. Cst!Before(offered[i], rule, TRUE)
              BY <5>2, <5>4, MoreSpecific
            <7>2. i < n
              BY <5>2, <2>2
            <7>3. QED BY <7>1, <7>2 DEF Cst!Before
          <6>3. QED BY <6>1, <6>2, <5>1, <4>1, <2>2
        <5>5. QED BY <5>3, <5>4
      <4>5. QED BY <4>3, <4>4
    <3>4. QED BY <3>2, <3>3
  <2>5. Cst!SpecificRuleWins'
    BY <2>4 DEF Cst!SpecificRuleWins
  <2>6. QED BY <2>2, <2>3, <2>5 DEF ChosenInv
<1>2. CASE Cst!ResolveSelling
  <2>1. offered' = <<>> /\ selected' = Cst!NoRule
    BY <1>2 DEF Cst!ResolveSelling
  <2>2. QED BY <2>1 DEF ChosenInv, Cst!SpecificRuleWins, Cst!NoRule
<1>3. CASE UNCHANGED <<offered, selected>>
  BY <1>3 DEF ChosenInv, Cst!SpecificRuleWins
<1>4. QED BY <1>1, <1>2, <1>3 DEF Cst!Next, Cst!vars, Cst!Fetch, Cst!Land, Cst!Collect, Cst!ResolvePayout, Cst!ResolveTotal

(* However the lists are ordered, a component has the rule of the best     *)
(* list, of the most conditions there, and the first of those              *)
(* (selling_fee/resolver.py, payout_cost/resolver.py).                     *)
THEOREM SpecificRules == ASSUME CostingAssumption PROVE Cst!Spec => []SpecificRuleWins
<1>1. Cst!Init => ChosenInv
  BY DEF Cst!Init, Cst!NoRule, ChosenInv, Cst!SpecificRuleWins
<1>2. ChosenInv /\ [Cst!Next]_(Cst!vars) => ChosenInv'
  BY CostingAssumption, ChosenStep
<1>3. ChosenInv => SpecificRuleWins
  BY DEF ChosenInv, SpecificRuleWins
<1>4. QED BY <1>1, <1>2, <1>3, PTL DEF Cst!Spec
=============================================================================
