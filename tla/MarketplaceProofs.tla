------------------------- MODULE MarketplaceProofs -------------------------
(***************************************************************************)
(* What Marketplace guarantees for any number of syncs, monitorings and    *)
(* prices: its types, and that a sync does not put on sale what it has     *)
(* seen sold out.                                                          *)
(*                                                                         *)
(* The types alone are not inductive: what a step writes comes from what   *)
(* an earlier step of the same pass has read.  Holds says what a pass is   *)
(* sure to hold at each of its steps, and, for the last theorem, that the  *)
(* decision to reconcile was not taken on a sold-out product.              *)
(***************************************************************************)
EXTENDS Marketplace, TLAPS

(* What a sync holds at each step of its pass.                             *)
SyncHolds(t) ==
    /\ t.pc # "idle" => t.candidate \in Candidate
    /\ t.pc \in {"ids", "row", "candidate", "reconcile"} => t.offer \in Offer
    /\ t.pc \in {"row", "candidate", "reconcile"} => t.listing \in Listing
    /\ t.pc = "reconcile" => ~SoldOut(t)

MonitorHolds(t) == t.pc # "idle" => t.candidate \in Candidate /\ t.listing \in Listing

Holds ==
    /\ \A s \in Syncs : SyncHolds(sync[s])
    /\ \A m \in Monitors : MonitorHolds(monitor[m])

IInv == TypeOK /\ Holds

-----------------------------------------------------------------------------
(* Writing back what eBay showed gives a row.                              *)
LEMMA FromRemoteType ==
    ASSUME NEW l \in Listing, NEW o \in Offer
    PROVE  FromRemote(l, o) \in Listing
BY DEF FromRemote, Listing, Offer, OfferStatus, Live

(* The decision keeps what the pass has read, and finds a step that the    *)
(* pass is ready for.                                                      *)
LEMMA DecidedHolds ==
    ASSUME NEW t \in Sync, t.candidate \in Candidate
    PROVE  Decided(t) \in Sync /\ SyncHolds(Decided(t))
<1> DEFINE d == IF t.error /\ t.offer = None /\ t.item = None THEN "idle" ELSE Decision(t)
<1>1. Decided(t) = [t EXCEPT !.pc = d]
  BY DEF Decided
<1>2. d \in {"idle", "ids", "row", "reconcile", "review", "keep"}
  BY DEF Decision
<1>3. d \in {"ids", "row", "reconcile"} => t.offer \in Offer
  BY DEF Decision, Sync
<1>4. d \in {"row", "reconcile"} => t.listing \in Listing
  BY DEF Decision, Sync, Unlinked
<1>5. d = "reconcile" => ~SoldOut(t)
  BY DEF Decision
<1>6. Decided(t) \in Sync
  BY <1>1, <1>2 DEF Sync
<1>7. /\ Decided(t).pc = d
      /\ Decided(t).candidate = t.candidate
      /\ Decided(t).offer = t.offer
      /\ Decided(t).listing = t.listing
      /\ Decided(t).item = t.item
  BY <1>1 DEF Sync
<1>8. SyncHolds(Decided(t))
  BY <1>2, <1>3, <1>4, <1>5, <1>7 DEF SyncHolds, SoldOut
<1> QED BY <1>6, <1>8

(* What an upsert is about to write is a candidate.                        *)
LEMMA UpsertHolds ==
    ASSUME IInv, NEW s \in Syncs, NEW c \in Candidate, Upserts(s, c),
           UNCHANGED <<ebay, database, monitor, bounds>>
    PROVE  IInv'
<1> DEFINE u == [sync[s] EXCEPT !.pc = "save", !.candidate = Protected(c)]
<1>1. sync[s] \in Sync /\ Protected(c) \in Candidate
  BY DEF IInv, TypeOK, Protected, Candidate
<1>2. u \in Sync /\ SyncHolds(u)
  BY <1>1 DEF Sync, SyncHolds
<1>3. sync' = [sync EXCEPT ![s] = u]
  BY <1>1 DEF Upserts, IInv, TypeOK, Sync
<1>4. sync' \in [Syncs -> Sync] /\ \A r \in Syncs : SyncHolds(sync'[r])
  BY <1>2, <1>3 DEF IInv, TypeOK, Holds
<1> QED BY <1>4 DEF IInv, TypeOK, Holds, ebay, database, bounds

(* eBay's part of a step leaves an offer and a quantity.                   *)
LEMMA UpdateType ==
    ASSUME TypeOK, NEW p \in Prices \cup {None}, NEW q \in Quantity, Update(p, q)
    PROVE  offer' \in Offer \cup {None} /\ item' \in Quantity \cup {None}
BY DEF TypeOK, Update, Offer

(* A step of one sync: only its own pass changes, to one that holds.       *)
LEMMA OneSync ==
    ASSUME IInv, NEW s \in Syncs, NEW t \in Sync, SyncHolds(t),
           sync' = [sync EXCEPT ![s] = t]
    PROVE  sync' \in [Syncs -> Sync] /\ \A r \in Syncs : SyncHolds(sync'[r])
BY DEF IInv, TypeOK, Holds

LEMMA OneMonitor ==
    ASSUME IInv, NEW m \in Monitors, NEW t \in Monitor, MonitorHolds(t),
           monitor' = [monitor EXCEPT ![m] = t]
    PROVE  monitor' \in [Monitors -> Monitor] /\ \A r \in Monitors : MonitorHolds(monitor'[r])
BY DEF IInv, TypeOK, Holds

(* A pass that has ended, or not begun, holds nothing.                     *)
LEMMA NothingHeld ==
    /\ NoSync \in Sync /\ SyncHolds(NoSync)
    /\ NoMonitor \in Monitor /\ MonitorHolds(NoMonitor)
BY DEF NoSync, Sync, SyncHolds, NoMonitor, Monitor, MonitorHolds

-----------------------------------------------------------------------------
(* The initial states.                                                     *)
LEMMA InitHolds == Init => IInv
<1> SUFFICES ASSUME Init PROVE IInv
  OBVIOUS
<1>1. sync \in [Syncs -> Sync] /\ \A s \in Syncs : SyncHolds(sync[s])
  BY NothingHeld DEF Init
<1>2. monitor \in [Monitors -> Monitor] /\ \A m \in Monitors : MonitorHolds(monitor[m])
  BY NothingHeld DEF Init
<1>3. /\ offer \in Offer \cup {None} /\ item \in Quantity \cup {None}
      /\ candidate \in Candidate /\ listing \in Listing \cup {None}
  <2>1. ASSUME NEW price \in Prices, NEW known \in BOOLEAN,
               NEW status \in {"created", "PUBLISHED"}, Recorded(price, known, status)
        PROVE  /\ offer \in Offer /\ item \in Quantity
               /\ candidate \in Candidate /\ listing \in Listing
    BY <2>1 DEF Recorded, Offer, OfferStatus, Quantity, Candidate, Listing
  <2>2. CASE Unrecorded
    BY <2>2 DEF Unrecorded, Quantity, Candidate
  <2> QED BY <2>1, <2>2 DEF Init
<1>4. edits \in 0 .. MaxEdits /\ faults \in 0 .. MaxFaults
  BY MarketplaceAssumption DEF Init
<1> QED BY <1>1, <1>2, <1>3, <1>4 DEF IInv, TypeOK, Holds

(* The bounds stay within themselves.                                      *)
LEMMA FaultCounted ==
    ASSUME TypeOK, Fault PROVE faults' \in 0 .. MaxFaults
BY MarketplaceAssumption DEF TypeOK, Fault

(* A sync's step.                                                          *)
LEMMA SyncStepHolds ==
    ASSUME IInv, NEW s \in Syncs, SyncStep(s) PROVE IInv'
<1> DEFINE t == sync[s]
<1>1. t \in Sync /\ SyncHolds(t) /\ TypeOK
  BY DEF IInv, TypeOK, Holds
<1>2. CASE SyncBegin(s)
  <2> DEFINE u == [NoSync EXCEPT !.pc = "offer", !.candidate = candidate, !.listing = listing]
  <2>1. u \in Sync /\ SyncHolds(u)
    BY <1>1 DEF NoSync, Sync, SyncHolds, TypeOK
  <2>2. sync' = [sync EXCEPT ![s] = u]
    BY <1>2 DEF SyncBegin
  <2> QED BY <1>1, <1>2, <2>1, <2>2, OneSync
          DEF SyncBegin, IInv, TypeOK, Holds, ebay, database, bounds
<1>3. CASE ReadOffer(s)
  <2>1. PICK u \in Sync : SyncHolds(u) /\ sync' = [sync EXCEPT ![s] = u]
    <3>1. CASE sync' = [sync EXCEPT ![s].pc = "item", ![s].offer = offer]
      <4> DEFINE u == [t EXCEPT !.pc = "item", !.offer = offer]
      <4>1. u \in Sync /\ SyncHolds(u)
        BY <1>1, <1>3 DEF Sync, SyncHolds, TypeOK, ReadOffer
      <4>2. sync' = [sync EXCEPT ![s] = u]
        BY <1>1, <3>1 DEF IInv, TypeOK, Sync
      <4> QED BY <4>1, <4>2
    <3>2. CASE sync' = [sync EXCEPT ![s].pc = "item", ![s].error = TRUE]
      <4> DEFINE u == [t EXCEPT !.pc = "item", !.error = TRUE]
      <4>1. u \in Sync /\ SyncHolds(u)
        BY <1>1, <1>3 DEF Sync, SyncHolds, TypeOK, ReadOffer
      <4>2. sync' = [sync EXCEPT ![s] = u]
        BY <1>1, <3>2 DEF IInv, TypeOK, Sync
      <4> QED BY <4>1, <4>2
    <3> QED BY <1>3, <3>1, <3>2 DEF ReadOffer
  <2>2. faults' \in 0 .. MaxFaults
    BY <1>1, <1>3, FaultCounted DEF ReadOffer, TypeOK
  <2> QED BY <1>1, <1>3, <2>1, <2>2, OneSync DEF ReadOffer, IInv, TypeOK, Holds, ebay, database
<1>4. CASE ReadItem(s)
  <2>1. t.candidate \in Candidate
    BY <1>1, <1>4 DEF ReadItem, SyncHolds
  <2>2. PICK u \in Sync : u.candidate = t.candidate /\ sync' = [sync EXCEPT ![s] = Decided(u)]
    <3>1. [t EXCEPT !.item = item] \in Sync /\ [t EXCEPT !.error = TRUE] \in Sync
      BY <1>1 DEF Sync, TypeOK
    <3>2. /\ [t EXCEPT !.item = item].candidate = t.candidate
          /\ [t EXCEPT !.error = TRUE].candidate = t.candidate
      BY <1>1 DEF Sync
    <3> QED BY <1>4, <3>1, <3>2 DEF ReadItem
  <2>3. faults' \in 0 .. MaxFaults
    BY <1>1, <1>4, FaultCounted DEF ReadItem, TypeOK
  <2>4. Decided(u) \in Sync /\ SyncHolds(Decided(u))
    BY <2>1, <2>2, DecidedHolds
  <2> QED BY <1>1, <1>4, <2>2, <2>3, <2>4, OneSync
          DEF ReadItem, IInv, TypeOK, Holds, ebay, database
<1>5. CASE RepairIds(s)
  <2> DEFINE new == [offer_id |-> FALSE, listing_id |-> FALSE, offer_status |-> "created",
                     price |-> t.offer.price, quantity |-> 0]
             old == IF t.listing = None THEN new ELSE t.listing
  <2>1. t.offer \in Offer
    BY <1>1, <1>5 DEF RepairIds, SyncHolds
  <2>2. old \in Listing
    BY <1>1, <2>1 DEF Sync, Listing, Offer, Quantity
  <2>3. FromRemote(old, t.offer) \in Listing
    BY <2>1, <2>2, FromRemoteType
  <2>4. listing' \in Listing /\ sync' = [sync EXCEPT ![s] = NoSync]
    BY <1>5, <2>3 DEF RepairIds, UpsertListing, SyncEnds
  <2> QED BY <1>1, <1>5, <2>4, OneSync, NothingHeld
          DEF RepairIds, IInv, TypeOK, Holds, ebay, bounds
<1>6. CASE RepairRow(s)
  <2> DEFINE u == [t EXCEPT !.pc = "candidate"]
  <2>1. t.offer \in Offer /\ t.listing \in Listing /\ t.candidate \in Candidate
    BY <1>1, <1>6 DEF RepairRow, SyncHolds
  <2>2. listing' \in Listing
    BY <1>6, <2>1, FromRemoteType DEF RepairRow, UpsertListing
  <2>3. u \in Sync /\ SyncHolds(u)
    BY <1>1, <2>1 DEF Sync, SyncHolds
  <2>4. sync' = [sync EXCEPT ![s] = u]
    BY <1>1, <1>6 DEF RepairRow, IInv, TypeOK
  <2> QED BY <1>1, <1>6, <2>2, <2>3, <2>4, OneSync
          DEF RepairRow, IInv, TypeOK, Holds, ebay, bounds
<1>7. CASE RepairCandidate(s)
  <2> DEFINE c == IF Live(t.offer) THEN [t.candidate EXCEPT !.status = "listed"]
                  ELSE IF t.candidate.status = "listed"
                       THEN [t.candidate EXCEPT !.status = "paused"] ELSE t.candidate
  <2>1. t.candidate \in Candidate
    BY <1>1, <1>7 DEF RepairCandidate, SyncHolds
  <2>2. c \in Candidate
    BY <2>1 DEF Candidate
  <2>3. Upserts(s, c) /\ UNCHANGED <<ebay, database, monitor, bounds>>
    BY <1>7 DEF RepairCandidate
  <2> HIDE DEF c
  <2> QED BY <2>2, <2>3, UpsertHolds
<1>8. CASE Reconcile(s)
  <2>1. t.listing.price \in Prices /\ t.listing.quantity \in Quantity
    BY <1>1, <1>8 DEF Reconcile, SyncHolds, Listing
  <2>2. offer' \in Offer \cup {None} /\ item' \in Quantity \cup {None}
    BY <1>1, <1>8, <2>1, UpdateType DEF Reconcile, Refused, TypeOK, ebay
  <2>3. faults' \in 0 .. MaxFaults
    BY <1>1, <1>8, FaultCounted DEF Reconcile, Refused, TypeOK
  <2> QED BY <1>1, <1>8, <2>2, <2>3, OneSync, NothingHeld
          DEF Reconcile, SyncEnds, IInv, TypeOK, Holds, database
<1>9. CASE Review(s)
  <2>1. [status |-> "review_required", review |-> TRUE] \in Candidate
    BY DEF Candidate
  <2> QED BY <1>9, <2>1, UpsertHolds DEF Review
<1>10. CASE Keep(s)
  <2>1. listing' \in Listing \cup {None}
    BY <1>1, <1>10, FromRemoteType DEF Keep, UpsertListing, Sync, TypeOK
  <2> QED BY <1>1, <1>10, <2>1, OneSync, NothingHeld
          DEF Keep, SyncEnds, IInv, TypeOK, Holds, ebay, bounds
<1>11. CASE SaveCandidate(s)
  <2>1. candidate' \in Candidate
    BY <1>1, <1>11 DEF SaveCandidate, SyncHolds
  <2> QED BY <1>1, <1>11, <2>1, OneSync, NothingHeld
          DEF SaveCandidate, SyncEnds, IInv, TypeOK, Holds, ebay, bounds
<1> QED BY <1>2, <1>3, <1>4, <1>5, <1>6, <1>7, <1>8, <1>9, <1>10, <1>11 DEF SyncStep

(* A monitoring's step.                                                    *)
LEMMA MonitorStepHolds ==
    ASSUME IInv, NEW m \in Monitors, MonitorStep(m) PROVE IInv'
<1> DEFINE t == monitor[m]
<1>1. t \in Monitor /\ MonitorHolds(t) /\ TypeOK
  BY DEF IInv, TypeOK, Holds
<1>2. CASE MonitorBegin(m)
  <2> DEFINE u == [pc |-> "decide", candidate |-> candidate, listing |-> listing]
  <2>1. u \in Monitor /\ MonitorHolds(u)
    BY <1>1, <1>2 DEF MonitorBegin, Monitor, MonitorHolds, TypeOK
  <2>2. monitor' = [monitor EXCEPT ![m] = u]
    BY <1>2 DEF MonitorBegin
  <2> QED BY <1>1, <1>2, <2>1, <2>2, OneMonitor
          DEF MonitorBegin, IInv, TypeOK, Holds, ebay, database, bounds
<1>3. CASE MonitorDecide(m)
  <2>1. PICK pc \in {"zero", "withdraw", "candidate"} :
            monitor' = [monitor EXCEPT ![m].pc = pc]
    BY <1>3 DEF MonitorDecide, Revision
  <2> DEFINE u == [t EXCEPT !.pc = pc]
  <2>2. u \in Monitor /\ MonitorHolds(u)
    BY <1>1, <1>3, <2>1 DEF MonitorDecide, Monitor, MonitorHolds
  <2>3. monitor' = [monitor EXCEPT ![m] = u]
    BY <2>1 DEF IInv, TypeOK
  <2> QED BY <1>1, <1>3, <2>2, <2>3, OneMonitor
          DEF MonitorDecide, IInv, TypeOK, Holds, ebay, database, bounds
<1>4. CASE MonitorAct(m)
  <2> DEFINE u == [t EXCEPT !.pc = "candidate"]
  <2>1. offer' \in Offer \cup {None} /\ item' \in Quantity \cup {None}
    <3>1. CASE Update(None, 0)
      BY <1>1, <3>1, UpdateType DEF Quantity
    <3>2. CASE Withdraw
      BY <1>1, <3>2 DEF Withdraw, TypeOK, Offer, OfferStatus
    <3> QED BY <1>4, <3>1, <3>2 DEF MonitorAct
  <2>2. u \in Monitor /\ MonitorHolds(u)
    BY <1>1, <1>4 DEF MonitorAct, Monitor, MonitorHolds
  <2>3. \/ monitor' = [monitor EXCEPT ![m] = u]
        \/ monitor' = [monitor EXCEPT ![m] = NoMonitor]
    BY <1>1, <1>4 DEF MonitorAct, MonitorEnds, IInv, TypeOK
  <2> QED BY <1>1, <1>4, <2>1, <2>2, <2>3, OneMonitor, NothingHeld
          DEF MonitorAct, IInv, TypeOK, Holds, database, bounds
<1>5. CASE MonitorRefused(m)
  <2>1. faults' \in 0 .. MaxFaults
    BY <1>1, <1>5, FaultCounted DEF MonitorRefused, Refused, TypeOK
  <2> QED BY <1>1, <1>5, <2>1, OneMonitor, NothingHeld
          DEF MonitorRefused, Refused, MonitorEnds, IInv, TypeOK, Holds, ebay, database
<1>6. CASE MonitorSaveCandidate(m)
  <2> DEFINE u == [t EXCEPT !.pc = "row"]
  <2>1. candidate' \in Candidate
    BY <1>1, <1>6 DEF MonitorSaveCandidate, MonitorHolds
  <2>2. u \in Monitor /\ MonitorHolds(u)
    BY <1>1, <1>6 DEF MonitorSaveCandidate, Monitor, MonitorHolds
  <2>3. monitor' = [monitor EXCEPT ![m] = u]
    BY <1>1, <1>6 DEF MonitorSaveCandidate, IInv, TypeOK
  <2> QED BY <1>1, <1>6, <2>1, <2>2, <2>3, OneMonitor
          DEF MonitorSaveCandidate, IInv, TypeOK, Holds, ebay, bounds
<1>7. CASE MonitorSaveRow(m)
  <2>1. listing' \in Listing
    BY <1>1, <1>7 DEF MonitorSaveRow, UpsertListing, MonitorHolds
  <2> QED BY <1>1, <1>7, <2>1, OneMonitor, NothingHeld
          DEF MonitorSaveRow, MonitorEnds, IInv, TypeOK, Holds, ebay, bounds
<1> QED BY <1>2, <1>3, <1>4, <1>5, <1>6, <1>7 DEF MonitorStep

(* The seller's changes.                                                   *)
LEMMA EditHolds == ASSUME IInv, Edit PROVE IInv'
<1>1. offer' \in Offer \cup {None} /\ item' \in Quantity \cup {None}
  BY DEF Edit, IInv, TypeOK, Offer, OfferStatus, Live
<1>2. edits' \in 0 .. MaxEdits
  BY MarketplaceAssumption DEF Edit, IInv, TypeOK
<1> QED BY <1>1, <1>2 DEF Edit, IInv, TypeOK, Holds, database

(* The invariant is inductive.                                             *)
LEMMA Inductive == Spec => []IInv
<1>1. Init => IInv
  BY InitHolds
<1>2. IInv /\ [Next]_vars => IInv'
  <2> SUFFICES ASSUME IInv, [Next]_vars PROVE IInv'
    OBVIOUS
  <2>1. CASE Next
    BY <2>1, EditHolds, SyncStepHolds, MonitorStepHolds DEF Next
  <2>2. CASE UNCHANGED vars
    BY <2>2 DEF vars, IInv, TypeOK, Holds
  <2> QED BY <2>1, <2>2
<1> QED BY <1>1, <1>2, PTL DEF Spec

-----------------------------------------------------------------------------
(***************************************************************************)
(* Every row, pass and answer has its type, at every point of every pass.  *)
(***************************************************************************)
THEOREM TypeCorrect == Spec => []TypeOK
<1>1. IInv => TypeOK
  BY DEF IInv
<1> QED BY <1>1, Inductive, PTL

(***************************************************************************)
(* A sync never raises the quantity of a product that it has seen sold out *)
(* and knows as listed: it takes the decision for the row instead.         *)
(***************************************************************************)
THEOREM SoldOutStays == Spec => SoldOutKept
<1> DEFINE Raises(s) == sync'[s] # sync[s] /\ sync[s].item = 0 /\ item = 0 /\ item' # 0
<1>1. ASSUME IInv, Next, NEW s \in Syncs, Raises(s)
      PROVE  sync[s].candidate.status # "listed"
  <2>1. PICK r \in Syncs : SyncStep(r)
    BY <1>1 DEF Next, Edit, MonitorStep, MonitorBegin, MonitorDecide, MonitorAct,
               MonitorRefused, MonitorSaveCandidate, MonitorSaveRow
  <2>2. Reconcile(r)
    BY <1>1, <2>1
       DEF SyncStep, SyncBegin, ReadOffer, ReadItem, RepairIds, RepairRow, RepairCandidate,
           Review, SaveCandidate, Keep, ebay
  <2>3. r = s
    BY <1>1, <2>2 DEF Reconcile, SyncEnds, IInv, TypeOK
  <2>4. ~SoldOut(sync[s])
    BY <1>1, <2>2, <2>3 DEF Reconcile, IInv, Holds, SyncHolds
  <2> QED BY <1>1, <2>4 DEF SoldOut
<1>2. IInv /\ [Next]_vars
      => [\A s \in Syncs : Raises(s) => sync[s].candidate.status # "listed"]_vars
  BY <1>1
<1> QED BY <1>2, Inductive, PTL DEF Spec, SoldOutKept
=============================================================================
