---------------------------- MODULE Marketplace ----------------------------
(***************************************************************************)
(* One product at eBay, as an offer and an inventory item, and in the      *)
(* database, as a candidate and a listing row, with the two jobs that keep *)
(* them together: listing sync and recovery (ListingSyncRecoveryGateway)   *)
(* and monitoring (MonitoringRevisePipeline).  The jobs have different     *)
(* lock keys and so may overlap.  Each reads the candidate and the row,    *)
(* asks eBay, and later writes whole rows back from what it read.          *)
(*                                                                         *)
(* There is one offer, whose id and listing id are therefore only known or *)
(* not; the row's offer_status stands for listing_status too, which eBay   *)
(* changes together with it.  Passes with dry_run, which change nothing,   *)
(* evidence and events are left out.                                       *)
(***************************************************************************)
EXTENDS Integers

CONSTANTS
    Syncs,      \* threads that run the sync
    Monitors,   \* threads that run the monitoring
    Prices,     \* prices
    None,       \* nothing
    MaxEdits,   \* bound on what the seller changes at eBay
    MaxFaults   \* bound on eBay's failed answers

VARIABLES
    offer,      \* eBay: the offer
    item,       \* eBay: the inventory item's quantity
    candidate,  \* the row of product_candidates
    listing,    \* the row of ebay_listings
    sync,       \* the pass a sync is in
    monitor,    \* the pass a monitoring is in
    edits,      \* edits so far
    faults      \* faults so far

vars == <<offer, item, candidate, listing, sync, monitor, edits, faults>>
ebay == <<offer, item>>
database == <<candidate, listing>>
bounds == <<edits, faults>>

ASSUME MarketplaceAssumption ==
    /\ Prices # {} /\ Prices \subseteq Nat \ {0}
    /\ MaxEdits \in Nat /\ MaxFaults \in Nat

-----------------------------------------------------------------------------
Quantity == {0, 1}
OfferStatus == {"PUBLISHED", "UNPUBLISHED"}
Offer == [status: OfferStatus, price: Prices]
Listing ==
    [offer_id: BOOLEAN, listing_id: BOOLEAN, offer_status: OfferStatus \cup {"created"},
     price: Prices, quantity: Quantity]
Candidate == [status: {"approved", "listed", "paused", "review_required"}, review: BOOLEAN]

Live(o) == o # None /\ o.status = "PUBLISHED"

(* What a pass of the sync holds: what it read of the database and of eBay, *)
(* and whether an answer of eBay was an error.                             *)
Sync ==
    [pc: {"idle", "offer", "item", "ids", "row", "candidate", "reconcile", "review", "keep",
          "save"},
     candidate: Candidate \cup {None}, listing: Listing \cup {None},
     offer: Offer \cup {None}, item: Quantity \cup {None}, error: BOOLEAN]

Monitor ==
    [pc: {"idle", "decide", "zero", "withdraw", "candidate", "row"},
     candidate: Candidate \cup {None}, listing: Listing \cup {None}]

NoSync ==
    [pc |-> "idle", candidate |-> None, listing |-> None, offer |-> None, item |-> None,
     error |-> FALSE]
NoMonitor == [pc |-> "idle", candidate |-> None, listing |-> None]

TypeOK ==
    /\ offer \in Offer \cup {None}
    /\ item \in Quantity \cup {None}
    /\ candidate \in Candidate
    /\ listing \in Listing \cup {None}
    /\ sync \in [Syncs -> Sync]
    /\ monitor \in [Monitors -> Monitor]
    /\ edits \in 0 .. MaxEdits
    /\ faults \in 0 .. MaxFaults

(* A listed product with its row, in which the listing id may be missing.  *)
Recorded(price, known, status) ==
    /\ offer = [status |-> "PUBLISHED", price |-> price]
    /\ item = 1
    /\ candidate = [status |-> "listed", review |-> FALSE]
    /\ listing = [offer_id |-> TRUE, listing_id |-> known, offer_status |-> status,
                  price |-> price, quantity |-> 1]

(* An approved product without a row, whose execution has got to the offer *)
(* or its publication, or has not begun.                                   *)
Unrecorded ==
    /\ offer \in Offer \cup {None}
    /\ item = 1 \/ (offer = None /\ item = None)
    /\ candidate = [status |-> "approved", review |-> FALSE]
    /\ listing = None

Init ==
    /\ \/ \E price \in Prices, known \in BOOLEAN, status \in {"created", "PUBLISHED"} :
            Recorded(price, known, status)
       \/ Unrecorded
    /\ sync = [s \in Syncs |-> NoSync]
    /\ monitor = [m \in Monitors |-> NoMonitor]
    /\ edits = 0
    /\ faults = 0

-----------------------------------------------------------------------------
(* eBay and its seller                                                     *)

(* The seller, or a sale, changes the price, the quantity or the offer.    *)
Edit ==
    /\ edits < MaxEdits
    /\ edits' = edits + 1
    /\ \/ \E p \in Prices : offer # None /\ offer' = [offer EXCEPT !.price = p] /\ UNCHANGED item
       \/ Live(offer) /\ offer' = [offer EXCEPT !.status = "UNPUBLISHED"] /\ UNCHANGED item
       \/ offer' = None /\ UNCHANGED item
       \/ item # None /\ item' \in Quantity /\ UNCHANGED offer
    /\ UNCHANGED <<database, sync, monitor, faults>>

(* Another bounded fault.                                                  *)
Fault == faults < MaxFaults /\ faults' = faults + 1

(* bulk_update_price_quantity; a price of None is left out.                *)
Update(price, quantity) ==
    /\ offer # None
    /\ offer' = IF price = None THEN offer ELSE [offer EXCEPT !.price = price]
    /\ item' = quantity

Withdraw ==
    /\ offer # None
    /\ offer' = [offer EXCEPT !.status = "UNPUBLISHED"]
    /\ UNCHANGED item

(* A call that eBay refuses or never receives.                             *)
Refused ==
    /\ \/ Fault
       \/ offer = None /\ UNCHANGED faults
    /\ UNCHANGED ebay

-----------------------------------------------------------------------------
(* The repositories                                                        *)

(* upsert of a candidate reads the row first: what is listed stays listed. *)
(* The write and its commit follow later, and do not look again.           *)
Protected(c) == IF candidate.status = "listed" THEN [c EXCEPT !.status = "listed"] ELSE c

(* upsert of a listing: the row gets every field of the object.            *)
UpsertListing(l) == listing' = l

-----------------------------------------------------------------------------
(* Listing sync and recovery                                               *)

(* Listed, paused and approved products, and those with a listing id.      *)
Target(c, l) ==
    \/ c.status \in {"listed", "paused", "approved"}
    \/ l # None /\ l.listing_id

SyncBegin(s) ==
    /\ sync[s].pc = "idle"
    /\ Target(candidate, listing)
    /\ sync' = [sync EXCEPT ![s] =
                   [NoSync EXCEPT !.pc = "offer", !.candidate = candidate, !.listing = listing]]
    /\ UNCHANGED <<ebay, database, monitor, bounds>>

(* get_offer and get_offers; that there is none is not an error.           *)
ReadOffer(s) ==
    /\ sync[s].pc = "offer"
    /\ \/ sync' = [sync EXCEPT ![s].pc = "item", ![s].offer = offer] /\ UNCHANGED faults
       \/ sync' = [sync EXCEPT ![s].pc = "item", ![s].error = TRUE] /\ Fault
    /\ UNCHANGED <<ebay, database, monitor, edits>>

(* RecoveryDecisionEngine.decide on the drifts that StateComparator finds: *)
(* the first rule that applies.                                            *)
Unlinked(t) ==
    \/ t.listing = None
    \/ ~t.listing.offer_id
    \/ (Live(t.offer) /\ ~t.listing.listing_id)
EndedAtEbay(t) == t.offer.status = "UNPUBLISHED" /\ t.candidate.status = "listed"
SoldOut(t) == t.item = 0 /\ t.candidate.status = "listed"
Differs(t) == t.offer.price # t.listing.price \/ (t.item # None /\ t.item # t.listing.quantity)
StatusDiffers(t) == t.offer.status # t.listing.offer_status

(* Mutated form: a drift is looked for before an empty stock.                   *)
DecisionDriftFirst(t) ==
    IF t.offer = None THEN IF t.candidate.status = "listed" THEN "review" ELSE "keep"
    ELSE IF Unlinked(t) THEN "ids"
    ELSE IF EndedAtEbay(t) THEN "review"
    ELSE IF Differs(t) THEN "reconcile"
    ELSE IF SoldOut(t) \/ StatusDiffers(t) THEN "row"
    ELSE "keep"

Decision(t) ==
    IF t.offer = None THEN IF t.candidate.status = "listed" THEN "review" ELSE "keep"
    ELSE IF Unlinked(t) THEN "ids"
    ELSE IF EndedAtEbay(t) THEN "review"
    ELSE IF SoldOut(t) THEN "row"
    ELSE IF Differs(t) THEN "reconcile"
    ELSE IF StatusDiffers(t) THEN "row"
    ELSE "keep"

(* get_inventory_item, and then the decision; errors fail the pass only if *)
(* eBay has shown nothing at all.                                          *)
Decided(t) == [t EXCEPT !.pc = IF t.error /\ t.offer = None /\ t.item = None
                               THEN "idle" ELSE Decision(t)]

ReadItem(s) ==
    /\ sync[s].pc = "item"
    /\ \/ /\ sync' = [sync EXCEPT ![s] = Decided([sync[s] EXCEPT !.item = item])]
          /\ UNCHANGED faults
       \/ /\ sync' = [sync EXCEPT ![s] = Decided([sync[s] EXCEPT !.error = TRUE])]
          /\ Fault
    /\ UNCHANGED <<ebay, database, monitor, edits>>

(* Mutated form: without the listing id, and without the price.                 *)
FromRemoteUnlisted(l, o) ==
    [l EXCEPT !.offer_id = TRUE, !.offer_status = o.status, !.price = o.price]
FromRemoteUnpriced(l, o) ==
    [l EXCEPT !.offer_id = TRUE, !.listing_id = Live(o), !.offer_status = o.status]

(* update_listing_from_remote: everything but the quantity.                *)
FromRemote(l, o) ==
    [l EXCEPT !.offer_id = TRUE, !.listing_id = Live(o), !.offer_status = o.status,
              !.price = o.price]

SyncEnds(s) == sync' = [sync EXCEPT ![s] = NoSync]
Upserts(s, c) == sync' = [sync EXCEPT ![s].pc = "save", ![s].candidate = Protected(c)]

(* repair_db_ids_only: a row that is missing starts with quantity 0.       *)
RepairIds(s) ==
    LET t == sync[s]
        new == [offer_id |-> FALSE, listing_id |-> FALSE, offer_status |-> "created",
                price |-> t.offer.price, quantity |-> 0]
    IN
    /\ t.pc = "ids"
    /\ UpsertListing(FromRemote(IF t.listing = None THEN new ELSE t.listing, t.offer))
    /\ SyncEnds(s)
    /\ UNCHANGED <<ebay, candidate, monitor, bounds>>

(* repair_db_status_only: first the row, then the candidate.               *)
RepairRow(s) ==
    /\ sync[s].pc = "row"
    /\ UpsertListing(FromRemote(sync[s].listing, sync[s].offer))
    /\ sync' = [sync EXCEPT ![s].pc = "candidate"]
    /\ UNCHANGED <<ebay, candidate, monitor, bounds>>

RepairCandidate(s) ==
    /\ sync[s].pc = "candidate"
    /\ Upserts(s, LET c == sync[s].candidate IN
                  IF Live(sync[s].offer) THEN [c EXCEPT !.status = "listed"]
                  ELSE IF c.status = "listed" THEN [c EXCEPT !.status = "paused"] ELSE c)
    /\ UNCHANGED <<ebay, database, monitor, bounds>>

(* reconcile_remote_from_db: the row's price and quantity go to eBay.      *)
Reconcile(s) ==
    /\ sync[s].pc = "reconcile"
    /\ \/ Update(sync[s].listing.price, sync[s].listing.quantity) /\ UNCHANGED faults
       \/ Refused
    /\ SyncEnds(s)
    /\ UNCHANGED <<database, monitor, edits>>

(* mark_review_required                                                    *)
Review(s) ==
    /\ sync[s].pc = "review"
    /\ Upserts(s, [status |-> "review_required", review |-> TRUE])
    /\ UNCHANGED <<ebay, database, monitor, bounds>>

SaveCandidate(s) ==
    /\ sync[s].pc = "save"
    /\ candidate' = sync[s].candidate
    /\ SyncEnds(s)
    /\ UNCHANGED <<ebay, listing, monitor, bounds>>

(* keep_db_and_mark_synced                                                 *)
Keep(s) ==
    LET t == sync[s] IN
    /\ t.pc = "keep"
    /\ IF t.listing # None /\ t.offer # None
       THEN UpsertListing(FromRemote(t.listing, t.offer)) ELSE UNCHANGED listing
    /\ SyncEnds(s)
    /\ UNCHANGED <<ebay, candidate, monitor, bounds>>

SyncStep(s) ==
    \/ SyncBegin(s)
    \/ ReadOffer(s)
    \/ ReadItem(s)
    \/ RepairIds(s)
    \/ RepairRow(s)
    \/ RepairCandidate(s)
    \/ Reconcile(s)
    \/ Review(s)
    \/ SaveCandidate(s)
    \/ Keep(s)

-----------------------------------------------------------------------------
(* Monitoring and revision                                                 *)

MonitorBegin(m) ==
    /\ monitor[m].pc = "idle"
    /\ listing # None
    /\ candidate.status = "listed"
    /\ monitor' = [monitor EXCEPT ![m] =
                      [pc |-> "decide", candidate |-> candidate, listing |-> listing]]
    /\ UNCHANGED <<ebay, database, sync, bounds>>

(* ReviseDecisionEngine.decide: the step that follows.                     *)
Revision(alive, inStock, profitable) ==
    IF ~alive THEN "withdraw"
    ELSE IF ~inStock THEN "zero"
    ELSE IF ~profitable THEN "withdraw"
    ELSE "candidate"

(* The source is asked, and eBay too, whose answer decides nothing.        *)
MonitorDecide(m) ==
    /\ monitor[m].pc = "decide"
    /\ \E alive, inStock, profitable \in BOOLEAN :
          monitor' = [monitor EXCEPT ![m].pc = Revision(alive, inStock, profitable)]
    /\ UNCHANGED <<ebay, database, sync, bounds>>

MonitorEnds(m) == monitor' = [monitor EXCEPT ![m] = NoMonitor]

(* The answer counts as a success only if it carries status_code, which    *)
(* the client adds to an answer without a body; else the pass ends there.  *)
MonitorAct(m) ==
    /\ \/ monitor[m].pc = "zero" /\ Update(None, 0)
       \/ monitor[m].pc = "withdraw" /\ Withdraw
    /\ \/ monitor' = [monitor EXCEPT ![m].pc = "candidate"]
       \/ MonitorEnds(m)
    /\ UNCHANGED <<database, sync, bounds>>

MonitorRefused(m) ==
    /\ monitor[m].pc \in {"zero", "withdraw"}
    /\ Refused
    /\ MonitorEnds(m)
    /\ UNCHANGED <<database, sync, edits>>

(* What was read at the beginning is written back: a listed candidate,     *)
(* which needs no protection.                                              *)
MonitorSaveCandidate(m) ==
    /\ monitor[m].pc = "candidate"
    /\ candidate' = monitor[m].candidate
    /\ monitor' = [monitor EXCEPT ![m].pc = "row"]
    /\ UNCHANGED <<ebay, listing, sync, bounds>>

MonitorSaveRow(m) ==
    /\ monitor[m].pc = "row"
    /\ UpsertListing(monitor[m].listing)
    /\ MonitorEnds(m)
    /\ UNCHANGED <<ebay, candidate, sync, bounds>>

MonitorStep(m) ==
    \/ MonitorBegin(m)
    \/ MonitorDecide(m)
    \/ MonitorAct(m)
    \/ MonitorRefused(m)
    \/ MonitorSaveCandidate(m)
    \/ MonitorSaveRow(m)

Next ==
    \/ Edit
    \/ \E s \in Syncs : SyncStep(s)
    \/ \E m \in Monitors : MonitorStep(m)

Spec == Init /\ [][Next]_vars

(* The scheduler runs both jobs again and again, and a pass goes on.       *)
Fairness ==
    /\ \A s \in Syncs : WF_vars(SyncStep(s))
    /\ \A m \in Monitors : WF_vars(MonitorStep(m))

FairSpec == Spec /\ Fairness

-----------------------------------------------------------------------------
(***************************************************************************)
(* A sync that has seen a listed product sold out does not put it on sale  *)
(* again, although the row's quantity says 1: monitoring never writes the  *)
(* quantity it sets at eBay to the row (rule of zero before rule of drift). *)
(***************************************************************************)
SoldOutKept ==
    [][\A s \in Syncs :
        sync'[s] # sync[s] /\ sync[s].item = 0 /\ item = 0 /\ item' # 0
        => sync[s].candidate.status # "listed"]_vars

(***************************************************************************)
(* A product that is on sale gets, or gets back, a row with its offer and  *)
(* its listing id, whatever was lost between its publication and the row   *)
(* and whatever monitoring writes back meanwhile.                          *)
(***************************************************************************)
LinkRecovered ==
    Live(offer) ~> (Live(offer) => listing # None /\ listing.offer_id /\ listing.listing_id)

(***************************************************************************)
(* The row's price and eBay's meet again and again while the product is on *)
(* sale, although either may be changed and each of them is written with   *)
(* the other by some rule.                                                 *)
(***************************************************************************)
PricesMeet ==
    []<>(Live(offer) => listing # None /\ listing.price = offer.price)

(***************************************************************************)
(* DOCUMENTED, AND NOT KEPT.  A sync that finds the offer of a listed      *)
(* product ended takes the candidate out of listed ("if it was listed but  *)
(* now unpublished, mark as paused").                                      *)
(***************************************************************************)
EndedIsNoticed ==
    [][\A s \in Syncs :
        sync[s].pc # "idle" /\ sync'[s].pc = "idle"
            /\ sync[s].offer # None /\ sync[s].offer.status = "UNPUBLISHED"
        => candidate'.status # "listed"]_vars
=============================================================================
