------------------------------ MODULE Readiness ------------------------------
(***************************************************************************)
(* From a collected item to a product that may be published: the research  *)
(* pipeline prices the item, scores it, decides and inserts the product    *)
(* (build_research_candidate); the readiness pipeline judges the product   *)
(* (build_listing_readiness) and writes the whole row back as it had read  *)
(* it; the guard of the listing gateway reads the verdict.                 *)
(*                                                                         *)
(* One item, and the product made from it.  The decision is computed       *)
(* before it is written, so that the runs of several workers overlap       *)
(* between the two.  Amounts are in 1/3000 of a dollar, prices in thousand *)
(* yen, scores in hundredths.  The research asks no snapshots: shipping,   *)
(* import, selling and payout fees are the resolvers' defaults.  Evidence, *)
(* counters, the texts of the drafts and the gateway itself, which         *)
(* Marketplace takes up where it ends, are left out.                       *)
(***************************************************************************)
EXTENDS Integers

CONSTANTS
    Sources,        \* the items that may have been collected
    Workers,        \* sessions in which the pipelines run
    None            \* nothing

VARIABLES
    source,         \* the item
    product,        \* its row of product_candidates
    task            \* what each worker has read and not yet written

vars == <<source, product, task>>

-----------------------------------------------------------------------------
(* A title of spaces; one that names no category; one that does; and one   *)
(* that names none and is too long.  Reserved: a preorder, a lottery or an *)
(* unreleased item, by its title.                                          *)
Source ==
    [platform: {"market", "pbandai"}, buy_now: BOOLEAN, in_stock: BOOLEAN, reserved: BOOLEAN,
     title: {"blank", "plain", "pokemon", "too_long"}, images: BOOLEAN, price: Nat \ {0}]

Strictness == {"balanced", "strict"}

Blockers ==
    {"manual_preban_not_supported", "category_unresolved", "required_aspects_missing",
     "title_too_long", "insufficient_images", "policies_missing", "low_confidence_strict"}

(* policies: the offer draft names the policies and the location.          *)
Product ==
    [pipeline: {"auto", "manual_preban"}, decision: {"candidate", "excluded", "review_required"},
     status: {"normalized", "candidate", "excluded", "researched"},
     brand: BOOLEAN, character: BOOLEAN,
     readiness: {"not_checked", "blocked", "review_required", "ready"},
     publish: BOOLEAN, blockers: SUBSET Blockers, policies: BOOLEAN]

TypeOK ==
    /\ source \in Source
    /\ product \in Product \cup {None}
    /\ task \in [Workers -> [write: {"insert", "upsert"}, row: Product] \cup {None}]

Init ==
    /\ source \in Sources
    /\ product = None
    /\ task = [w \in Workers |-> None]

-----------------------------------------------------------------------------
(* The research pipeline                                                   *)

(* The price is doubled; 150 yen are a dollar.                             *)
SalePrice == 40000 * source.price
Landed == 20000 * source.price + 60000 + SalePrice \div 10
SellingFee == (13 * SalePrice) \div 100 + 1200
PayoutFee == (SalePrice - SellingFee) \div 100
Profit == SalePrice - Landed - SellingFee - PayoutFee

(* Weights, in percent, of profit, margin, return, confidence, stability   *)
(* and the quality of the resolution.                                      *)
Weights ==
    [balanced       |-> <<30, 20, 15, 15, 10, 10>>,
     profit_first   |-> <<40, 20, 15, 10,  8,  7>>,
     safety_first   |-> <<20, 15, 10, 20, 20, 15>>,
     velocity_first |-> <<20, 25, 25, 10, 10, 10>>]

Capped(n) == IF n < 0 THEN 0 ELSE IF n > 100 THEN 100 ELSE n

(* Sub-scores are rounded down.  Four fallbacks leave a stability of 60    *)
(* and a penalty of 10; in strict mode the total is unresolved, which only *)
(* the sub-scores of its confidence and its quality show.                  *)
Score(profile, strictness) ==
    LET w == Weights[profile]
        base == w[1] * Capped(Profit \div 1500)
                + w[2] * Capped((1000 * Profit) \div (3 * SalePrice))
                + w[3] * Capped((100 * Profit) \div Landed)
                + (IF strictness = "strict" THEN 0 ELSE w[4] * 40 + w[6] * 30)
                + w[5] * 60
        risk == 1000 + (IF Profit < 0 THEN 5000 ELSE 0)
    IN  IF base > risk THEN base - risk ELSE 0

Unsellable == ~source.buy_now \/ ~source.in_stock \/ source.reserved

Decision(profile, strictness) ==
    IF source.platform = "pbandai" \/ ~source.images THEN "excluded"
    ELSE IF source.title = "blank" THEN "review_required"
    ELSE IF Unsellable \/ 10 * Profit < SalePrice \/ Score(profile, strictness) < 4000 THEN "excluded"
    ELSE "candidate"

(* A preban item is decided before the status is set.                      *)
Decided(d) ==
    [pipeline |-> IF source.platform = "pbandai" THEN "manual_preban" ELSE "auto",
     decision |-> d,
     status |-> IF source.platform = "pbandai" THEN "normalized"
                ELSE [candidate |-> "candidate", excluded |-> "excluded", review_required |-> "researched"][d],
     brand |-> FALSE, character |-> FALSE, readiness |-> "not_checked",
     publish |-> FALSE, blockers |-> {}, policies |-> FALSE]

(* An item that has a product is skipped, unless the rebuild is forced.    *)
Build(w, force) ==
    /\ task[w] = None
    /\ product = None \/ force
    /\ \E profile \in DOMAIN Weights, strictness \in Strictness :
            task' = [task EXCEPT ![w] = [write |-> "insert", row |-> Decided(Decision(profile, strictness))]]
    /\ UNCHANGED <<source, product>>

(* The row of a second product of the item has a new id but the same sku:  *)
(* the insert fails, and the session with it.                              *)
Insert(w) ==
    /\ task[w] # None /\ task[w].write = "insert"
    /\ product' = IF product = None THEN task[w].row ELSE product
    /\ task' = [task EXCEPT ![w] = None]
    /\ UNCHANGED source

-----------------------------------------------------------------------------
(* The readiness pipeline                                                  *)

Target(p) ==
    p.pipeline = "auto" /\ p.decision \in {"candidate", "review_required"} /\ p.status \in {"candidate", "researched"}

Named(blocker, holds) == IF holds THEN {blocker} ELSE {}

(* The category is found by a word of the title alone, and only in that    *)
(* category can the required aspects, the brand, be complete.              *)
Categorized == source.title = "pokemon"
AspectsComplete(p) == Categorized /\ p.brand

Content ==
    Named("title_too_long", source.title = "too_long")
    \cup Named("insufficient_images", ~source.images)

Policies(defaults) == Named("policies_missing", ~defaults)

Found(p, defaults) ==
    Named("category_unresolved", ~Categorized)
    \cup Named("required_aspects_missing", ~AspectsComplete(p))
    \cup Content \cup Policies(defaults)

(* The verdict; in strict mode a review becomes a blocker, after the       *)
(* readiness to publish was set.                                           *)
Judged(p, strictness, defaults) ==
    LET found == Found(p, defaults)
        review == found = {} /\ ~p.character
    IN  [p EXCEPT !.blockers = found \cup Named("low_confidence_strict", review /\ strictness = "strict"),
                  !.publish = (found = {}),
                  !.readiness = IF found # {} \/ (review /\ strictness = "strict") THEN "blocked"
                                ELSE IF review THEN "review_required" ELSE "ready",
                  !.policies = defaults]

Preban(p) ==
    [p EXCEPT !.blockers = {"manual_preban_not_supported"}, !.publish = FALSE,
              !.readiness = "blocked", !.policies = FALSE]

(* A batch takes the products whose status is "candidate"; an operator may *)
(* name others.                                                            *)
Check(w, force) ==
    /\ task[w] = None /\ product # None
    /\ \/ /\ product.pipeline = "manual_preban"
          /\ task' = [task EXCEPT ![w] = [write |-> "upsert", row |-> Preban(product)]]
       \/ /\ product.pipeline # "manual_preban"
          /\ force \/ (product.readiness # "ready" /\ Target(product))
          /\ \E strictness \in Strictness, defaults \in BOOLEAN :
                task' = [task EXCEPT ![w] =
                    [write |-> "upsert", row |-> Judged(product, strictness, defaults)]]
    /\ UNCHANGED <<source, product>>

(* Every column is written, as it was read or as it was judged.            *)
Upsert(w) ==
    /\ task[w] # None /\ task[w].write = "upsert"
    /\ product' = task[w].row
    /\ task' = [task EXCEPT ![w] = None]
    /\ UNCHANGED source

(* Nothing in src/ completes a product; the tests give it a brand and a    *)
(* character.                                                              *)
Enrich ==
    /\ product # None
    /\ \E field \in {"brand", "character"} : product' = [product EXCEPT ![field] = TRUE]
    /\ UNCHANGED <<source, task>>

(* A session that ends with an exception has written nothing.              *)
Fail(w) ==
    /\ task[w] # None
    /\ task' = [task EXCEPT ![w] = None]
    /\ UNCHANGED <<source, product>>

Next ==
    \/ \E w \in Workers :
        \/ \E force \in BOOLEAN : Build(w, force) \/ Check(w, force)
        \/ Insert(w) \/ Upsert(w) \/ Fail(w)
    \/ Enrich

Spec == Init /\ [][Next]_vars

-----------------------------------------------------------------------------
(* Mutated form: the guard does not look at the status.                    *)
AllowedAny(p) == p.pipeline = "auto" /\ p.readiness = "ready" /\ p.publish /\ p.policies

(* The guard of the gateway.  Nobody asks it for a forced publication, and *)
(* nothing gives a product the other statuses that it takes.               *)
Allowed(p) ==
    /\ p.pipeline = "auto" /\ p.readiness = "ready" /\ p.publish
    /\ p.status = "candidate"
    /\ p.policies

(* However the runs of the two pipelines overlap, and whichever were       *)
(* forced, the product that the guard lets through is one that could be    *)
(* bought and sold: at the time of the research its item was in stock, to  *)
(* be bought at once, and left a margin of 10%, and the row as it stands   *)
(* names what eBay requires and was judged with it.                        *)
AllowedEarned ==
    product # None /\ Allowed(product) =>
        /\ source.platform # "pbandai" /\ ~Unsellable /\ source.images
        /\ 10 * Profit >= SalePrice
        /\ source.title = "pokemon" /\ product.brand /\ product.character
        /\ product.blockers = {}
=============================================================================
