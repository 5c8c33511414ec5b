---------------------------- MODULE MCCandidates ----------------------------
(***************************************************************************)
(* The way of a candidate, for TLC: its discovery and review, the decision *)
(* to list it, the readiness of the product, and the handoff to the        *)
(* execution layer.  In this code none of the four calls another: they     *)
(* meet in rows, and where one would read the other's, the call is missing *)
(* (run_handoff asks the ranking repository for a query it does not have), *)
(* so that each is explored on its own: the first state chooses which.     *)
(***************************************************************************)
EXTENDS Handoff

CONSTANTS Items, Capacities, Colors, Listings, Counts, MaxEvaluations, MaxElapsed, Sources, Workers

VARIABLES focus,
    candidates, items, pass,
    elapsed, candidate, evaluations, scores, decision,
    source, product, task

Dsc == INSTANCE Discovery
Sel == INSTANCE Selection WITH MaxRows <- MaxEvaluations
Rdy == INSTANCE Readiness

handoffVars == vars
discoveryVars == <<candidates, items, pass>>
selectionVars == <<elapsed, candidate, evaluations, scores, decision>>
readinessVars == <<source, product, task>>

allVars == <<focus, handoffVars, discoveryVars, selectionVars, readinessVars>>

(* What a part that is not looked at starts from does not matter.          *)
FocusInit ==
    /\ focus \in {"discovery", "selection", "readiness", "handoff"}
    /\ Init /\ Dsc!Init /\ Sel!Init /\ Rdy!Init
    /\ (ranking = None /\ gateway = "accepts") \/ focus = "handoff"
    /\ candidate = [review |-> FALSE, family |-> "new"] \/ focus = "selection"
    /\ source = (CHOOSE s \in Sources : TRUE) \/ focus = "readiness"

FocusNext ==
    /\ UNCHANGED focus
    /\ \/ focus = "handoff" /\ Next /\ UNCHANGED <<discoveryVars, selectionVars, readinessVars>>
       \/ focus = "discovery" /\ Dsc!Next /\ UNCHANGED <<handoffVars, selectionVars, readinessVars>>
       \/ focus = "selection" /\ Sel!Next /\ UNCHANGED <<handoffVars, discoveryVars, readinessVars>>
       \/ focus = "readiness" /\ Rdy!Next /\ UNCHANGED <<handoffVars, discoveryVars, selectionVars>>

FocusSpec == FocusInit /\ [][FocusNext]_allVars

-----------------------------------------------------------------------------
(* A pass of the refinement job clears no flag that it has seen.           *)
FlagsSurvive == Dsc!FlagsSurvive

(* A launch without an operator rests on young rows and a safe evaluation. *)
AutoLaunchEarned == Sel!AutoLaunchEarned

(* The guard lets only products through whose item was worth buying.       *)
AllowedEarned == Rdy!AllowedEarned

-----------------------------------------------------------------------------
Item(title, brand, mpn, gtin) == [title |-> title, brand |-> brand, mpn |-> mpn, gtin |-> gtin]

(* Two items that share a brand and a part number but not their identifier *)
(* and capacity, one that founds no safe match, and two without any name.  *)
FiveItems ==
    {Item({"switch", "64gb", "red"}, None, None, None), Item({"switch", "64gb"}, "n", "m1", "g1"),
     Item({"switch", "64gb", "pro"}, "n", "m1", None), Item({"switch", "128gb", "lot"}, "n", "m1", "g2"),
     Item({"switch"}, None, None, None)}

Kind(categorized, condition, conflicts, price) ==
    [categorized |-> categorized, condition |-> condition, conflicts |-> conflicts, sold |-> TRUE, price |-> price]

(* Dear and cheap comparables, and a lot that is none.                     *)
ThreeKinds ==
    {Kind(TRUE, "new", {}, 180), Kind(FALSE, "like_new", {}, 110), Kind(TRUE, "open_box", {"lot"}, 400)}

Collected(platform, title, price) ==
    [platform |-> platform, buy_now |-> TRUE, in_stock |-> TRUE, reserved |-> FALSE,
     title |-> title, images |-> TRUE, price |-> price]

Good == Collected("market", "pokemon", 20)

(* One good item, and others that fail in one way each.                    *)
NineSources ==
    {Good, [Good EXCEPT !.price = 8], [Good EXCEPT !.price = 15], [Good EXCEPT !.in_stock = FALSE],
     [Good EXCEPT !.images = FALSE], Collected("market", "plain", 20),
     [Collected("market", "blank", 5) EXCEPT !.buy_now = FALSE],
     [Collected("pbandai", "pokemon", 30) EXCEPT !.reserved = TRUE], Collected("market", "too_long", 30)}
=============================================================================
