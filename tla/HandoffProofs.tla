--------------------------- MODULE HandoffProofs ---------------------------
(***************************************************************************)
(* Proofs about the way of a candidate: Handoff's type invariant, and that *)
(* the runs of any number of operators, any of which may die, implement    *)
(* DispatchOnce; at the end, what Discovery, Readiness and Selection       *)
(* promise.                                                                *)
(*                                                                         *)
(* DispatchOnce needs three facts.  Unless they overlapped, there is one   *)
(* run at most (Solo).  Unless a row was lost, every acceptance is on      *)
(* record: its run has still to insert the row, or the newest row is at    *)
(* least as young (Recorded), which is why the limit on the rows read does *)
(* no harm.  And then a run that has passed the guards stays outside the   *)
(* window of the last acceptance until it dispatches (Clear).              *)
(***************************************************************************)
EXTENDS MCCandidates, FiniteSetTheorems, TLAPS

LEMMA TypeInit == Init => TypeOK
<1> SUFFICES ASSUME Init PROVE TypeOK
  OBVIOUS
<1>1. run \in [Operators -> Run]
  BY DEF Init, Run, Status, Unfinished
<1>2. overlapped \in BOOLEAN /\ lost \in BOOLEAN
  BY DEF Init
<1> QED  BY <1>1, <1>2 DEF Init, TypeOK

LEMMA GuardedType == Guarded \in Status /\ Answered \in Status
BY DEF Guarded, Answered, Status, Unfinished

LEMMA TypeStep == ASSUME TypeOK, [Next]_vars PROVE TypeOK'
<1> USE HandoffAssumption, GuardedType
<1>1. ASSUME NEW o \in Operators, Begin(o) PROVE TypeOK'
  BY <1>1 DEF TypeOK, Begin, Enter, Run
<1>2. ASSUME NEW o \in Operators, Dispatch(o) PROVE TypeOK'
  BY <1>2 DEF TypeOK, Dispatch, Enter, Run
<1>3. ASSUME NEW o \in Operators, DispatchRaises(o) PROVE TypeOK'
  BY <1>3 DEF TypeOK, DispatchRaises, Enter, Run, Status, Unfinished, history
<1>4. ASSUME NEW o \in Operators, Save(o) PROVE TypeOK'
  <2>1. [status |-> run[o].status, at |-> now] \in Handoff
    BY <1>4 DEF TypeOK, Run, Handoff
  <2>2. handoffs' \in Seq(Handoff)
    BY <2>1, <1>4 DEF TypeOK, Save
  <2> QED  BY <2>2, <1>4 DEF TypeOK, Save, Enter, Run, Status, Unfinished, history
<1>5. ASSUME NEW o \in Operators, Die(o) PROVE TypeOK'
  BY <1>5 DEF TypeOK, Die, Enter, Run, Status, Unfinished
<1>6. CASE Rank
  BY <1>6 DEF TypeOK, Rank, history
<1>7. CASE Tick
  BY <1>7 DEF TypeOK, Tick, history
<1>8. CASE UNCHANGED vars
  BY <1>8 DEF TypeOK, vars, history
<1> QED  BY <1>1, <1>2, <1>3, <1>4, <1>5, <1>6, <1>7, <1>8 DEF Next, Operator

(* Every row, run and decision has its type, for any number of operators.  *)
THEOREM TypeCorrect == Spec => []TypeOK
<1>1. Init => TypeOK
  BY TypeInit
<1>2. TypeOK /\ [Next]_vars => TypeOK'
  BY TypeStep
<1> QED  BY <1>1, <1>2, PTL DEF Spec

-----------------------------------------------------------------------------
(* The candidate was last accepted a window ago, or never.                 *)
Outside == dispatched = None \/ now - dispatched >= Window

Solo == overlapped \/ \A o, p \in Operators : run[o].pc # "idle" /\ run[p].pc # "idle" => o = p

Unsaved(o) == run[o].pc = "save" /\ run[o].status = "completed"

Recorded ==
    dispatched # None /\ ~lost =>
        \/ \E o \in Operators : Unsaved(o)
        \/ Len(handoffs) > 0 /\ handoffs[Len(handoffs)].at >= dispatched

Clear == ~overlapped /\ ~lost => \A o \in Operators : run[o].pc = "dispatch" => Outside

Past == dispatched # None => dispatched <= now

IInv == TypeOK /\ Past /\ Solo /\ Recorded /\ Clear

LEMMA InvInit == Init => IInv
<1> SUFFICES ASSUME Init PROVE IInv
  OBVIOUS
<1>1. TypeOK
  BY TypeInit
<1>2. Past /\ Solo /\ Recorded /\ Clear
  BY DEF Init, Past, Solo, Recorded, Clear
<1> QED  BY <1>1, <1>2 DEF IInv

(* A run that begins while nobody else is running, with no row lost, and   *)
(* passes the guards is outside the window: the newest row is read,        *)
(* whatever the limit hides, and it is as young as the last acceptance.    *)
LEMMA GuardsSee ==
    ASSUME IInv, Busy = {}, ~lost, Guarded = "validated"
    PROVE  Outside
<1> USE HandoffAssumption
<1> SUFFICES ASSUME dispatched # None PROVE now - dispatched >= Window
  BY DEF Outside
<1>1. Len(handoffs) > 0 /\ handoffs[Len(handoffs)].at >= dispatched
  BY DEF IInv, Recorded, Unsaved, Busy
<1>2. Len(handoffs) \in Newest
  BY <1>1 DEF Newest, IInv, TypeOK
<1>3. ~ Duplicate
  BY DEF Guarded
<1>4. ~ (now - handoffs[Len(handoffs)].at < Window)
  BY <1>2, <1>3 DEF Duplicate
<1>5. handoffs[Len(handoffs)] \in Handoff
  BY <1>1 DEF IInv, TypeOK
<1> QED  BY <1>1, <1>4, <1>5 DEF IInv, TypeOK, Handoff

LEMMA InvStep == ASSUME IInv, [Next]_vars PROVE IInv'
<1> USE HandoffAssumption
<1> DEFINE Kept == (Past /\ Solo /\ Recorded /\ Clear)'
<1>0. TypeOK'
  BY TypeStep DEF IInv
<1>1. ASSUME NEW o \in Operators, Begin(o) PROVE Kept
  <2> DEFINE pc == IF Guarded = "validated" THEN "dispatch" ELSE "save"
  <2>1. /\ run[o].pc = "idle" /\ overlapped' = (Busy # {})
        /\ UNCHANGED <<now, handoffs, dispatched, lost>>
    BY <1>1 DEF Begin
  <2>2. run' = [run EXCEPT ![o] = [pc |-> pc, status |-> Guarded]]
    BY <1>1 DEF Begin, Enter
  <2>3. Past'
    BY <2>1 DEF IInv, Past
  <2>4. Solo'
    BY <2>1, <2>2 DEF Solo, Busy, IInv, TypeOK
  <2>5. Recorded'
    BY <2>1, <2>2 DEF IInv, Recorded, Unsaved, TypeOK
  <2>6. Clear'
    <3> SUFFICES ASSUME Busy = {}, ~lost, NEW p \in Operators, run'[p].pc = "dispatch"
                 PROVE  Outside'
      BY <2>1 DEF Clear
    <3>1. p = o /\ Guarded = "validated"
      BY <2>2 DEF Busy, IInv, TypeOK
    <3> QED  BY <3>1, <2>1, GuardsSee DEF Outside
  <2> QED  BY <2>3, <2>4, <2>5, <2>6
<1>2. ASSUME NEW o \in Operators, Dispatch(o) PROVE Kept
  <2>1. /\ run' = [run EXCEPT ![o] = [pc |-> "save", status |-> Answered]]
        /\ run[o].pc = "dispatch" /\ UNCHANGED <<now, handoffs, overlapped>>
    BY <1>2 DEF Dispatch, Enter
  <2>2. \/ dispatched' = now /\ Answered = "completed"
        \/ dispatched' = dispatched /\ lost' = lost
    BY <1>2 DEF Dispatch, Answered
  <2>3. Past'
    BY <2>1, <2>2 DEF IInv, Past, TypeOK
  <2>4. Solo'
    BY <2>1 DEF IInv, Solo, TypeOK
  <2>5. Recorded'
    BY <2>1, <2>2 DEF IInv, Recorded, Unsaved, TypeOK
  <2>6. Clear'
    <3> SUFFICES ASSUME ~overlapped, NEW p \in Operators, run'[p].pc = "dispatch" PROVE FALSE
      BY <2>1 DEF Clear
    <3> QED  BY <2>1 DEF IInv, Solo, TypeOK
  <2> QED  BY <2>3, <2>4, <2>5, <2>6
<1>3. ASSUME NEW o \in Operators, DispatchRaises(o) \/ Die(o) PROVE Kept
  <2>1. /\ run' = [run EXCEPT ![o] = [pc |-> "idle", status |-> "pending"]]
        /\ UNCHANGED <<now, handoffs, dispatched, overlapped>>
    BY <1>3 DEF DispatchRaises, Die, Enter, history
  <2>2. /\ lost => lost'
        /\ Unsaved(o) => lost'
    <3>1. ASSUME Die(o) PROVE (lost => lost') /\ (run[o].status = "completed" => lost')
      BY <3>1 DEF Die
    <3>2. ASSUME DispatchRaises(o) PROVE (lost => lost') /\ run[o].pc # "save"
      BY <3>2 DEF DispatchRaises, history
    <3>3. CASE Die(o)
      BY <3>1, <3>3 DEF Unsaved
    <3>4. CASE DispatchRaises(o)
      BY <3>2, <3>4 DEF Unsaved
    <3> QED  BY <1>3, <3>3, <3>4
  <2>3. Past' /\ Solo'
    BY <2>1 DEF IInv, Past, Solo, TypeOK
  <2>4. Recorded'
    BY <2>1, <2>2 DEF IInv, Recorded, Unsaved, TypeOK
  <2>5. Clear'
    BY <2>1, <2>2 DEF IInv, Clear, Outside, TypeOK
  <2> QED  BY <2>3, <2>4, <2>5
<1>4. ASSUME NEW o \in Operators, Save(o) PROVE Kept
  <2>1. run' = [run EXCEPT ![o] = [pc |-> "idle", status |-> "pending"]]
    BY <1>4 DEF Save, Enter
  <2>2. /\ UNCHANGED <<now, dispatched, overlapped, lost>>
        /\ handoffs' = Append(handoffs, [status |-> run[o].status, at |-> now])
    BY <1>4 DEF Save, history
  <2>3. Len(handoffs') > 0 /\ handoffs'[Len(handoffs')].at = now
    BY <2>2 DEF IInv, TypeOK
  <2>4. Past' /\ Solo' /\ Clear'
    BY <2>1, <2>2 DEF IInv, Past, Solo, Clear, Outside, TypeOK
  <2>5. Recorded'
    BY <2>2, <2>3 DEF IInv, Past, Recorded, TypeOK
  <2> QED  BY <2>4, <2>5
<1>5. ASSUME Rank \/ UNCHANGED vars PROVE Kept
  BY <1>5 DEF Rank, vars, history, IInv, Past, Solo, Clear, Recorded, Unsaved, Outside
<1>6. ASSUME Tick PROVE Kept
  BY <1>6 DEF Tick, history, IInv, Past, Solo, Clear, Recorded, Unsaved, Outside, TypeOK
<1>7. Kept
  BY <1>1, <1>2, <1>3, <1>4, <1>5, <1>6 DEF Next, Operator
<1> QED  BY <1>0, <1>7 DEF IInv

-----------------------------------------------------------------------------
(* Every step of the runs is a step of DispatchOnce or leaves its clock,   *)
(* its last acceptance and its excuse alone: for any number of operators,  *)
(* any of which may die before the dispatch or the row, and for every      *)
(* window and limit, a second acceptance inside the window is of runs that *)
(* overlapped or follows a lost row.                                       *)
THEOREM Suppressed == Spec => AcceptedApart
<1> DEFINE excused == overlapped \/ lost
           Implements == [Suppression!Next]_(Suppression!vars)
<1>1. Init => IInv
  BY InvInit
<1>2. IInv /\ [Next]_vars => IInv'
  BY InvStep
<1>3. Init => Suppression!Init
  BY DEF Init, Suppression!Init
<1>4. IInv /\ [Next]_vars => Implements
  <2> SUFFICES ASSUME IInv, [Next]_vars PROVE Implements
    OBVIOUS
  <2>1. ASSUME NEW o \in Operators, Dispatch(o) PROVE Implements
    <3>1. CASE gateway = "accepts"
      <4>1. Outside \/ excused
        BY <2>1 DEF Dispatch, IInv, Clear
      <4>2. dispatched' = now /\ now' = now /\ excused' \in BOOLEAN
        BY <2>1, <3>1 DEF Dispatch
      <4> QED  BY <4>1, <4>2 DEF Outside, Suppression!Next, Suppression!Accept
    <3>2. CASE gateway # "accepts"
      BY <2>1, <3>2 DEF Dispatch, Suppression!vars
    <3> QED  BY <3>1, <3>2
  <2>2. CASE Tick
    BY <2>2 DEF Tick, history, Suppression!Next, Suppression!Tick
  <2>3. ASSUME UNCHANGED <<now, dispatched>> PROVE Implements
    <3>1. excused' = excused \/ excused' = ~excused
      OBVIOUS
    <3> QED  BY <3>1, <2>3 DEF Suppression!Next, Suppression!Excuse, Suppression!vars
  <2>4. ASSUME NEW o \in Operators, Begin(o) \/ DispatchRaises(o) \/ Save(o) \/ Die(o)
        PROVE  UNCHANGED <<now, dispatched>>
    BY <2>4 DEF Begin, DispatchRaises, Save, Die, history
  <2>5. CASE Rank \/ UNCHANGED vars
    BY <2>5, <2>3 DEF Rank, vars, history
  <2> QED  BY <2>1, <2>2, <2>3, <2>4, <2>5 DEF Next, Operator
<1> QED  BY <1>1, <1>2, <1>3, <1>4, PTL DEF Spec, AcceptedApart, Suppression!Spec

-----------------------------------------------------------------------------
(* Discovery: what the job will assign is never below what its matcher     *)
(* read, whoever changes the candidates meanwhile.                         *)
Raised ==
    pass # None =>
        /\ pass = [left |-> pass.left, found |-> pass.found, looks |-> pass.looks, cleared |-> pass.cleared]
        /\ \A c \in DOMAIN pass.looks : pass.looks[c].read => pass.looks[c].assigned

LEMMA RaisedStep == ASSUME Raised, [Dsc!Next]_(Dsc!vars) PROVE Raised'
<1>1. ASSUME NEW i \in Items, Dsc!Intake(i) PROVE Raised'
  BY <1>1 DEF Raised, Dsc!Intake
<1>2. ASSUME NEW i \in Items, Dsc!Refine(i) PROVE Raised'
  BY <1>2 DEF Raised, Dsc!Refine
<1>3. ASSUME NEW c \in DOMAIN candidates, Dsc!Console(c) PROVE Raised'
  BY <1>3 DEF Raised, Dsc!Console, Dsc!Cli, Dsc!Approve, Dsc!Reopen
<1>4. CASE Dsc!StartPass
  BY <1>4 DEF Raised, Dsc!StartPass
<1>5. CASE Dsc!Assign
  BY <1>5 DEF Raised, Dsc!Assign, Dsc!Refined
<1>6. CASE Dsc!Commit \/ Dsc!Rollback
  BY <1>6 DEF Raised, Dsc!Commit, Dsc!Rollback
<1>7. CASE UNCHANGED Dsc!vars
  BY <1>7 DEF Raised, Dsc!vars
<1> QED  BY <1>1, <1>2, <1>3, <1>4, <1>5, <1>6, <1>7 DEF Dsc!Next

(* The refinement job's write at the end of a pass takes no candidate out  *)
(* of the review queue that was in it when the job looked, for any items,  *)
(* any comparison of them, and any order of operators and looks.           *)
THEOREM FlagsKept == Dsc!Spec => FlagsSurvive
<1> DEFINE Kept ==
      \A c \in DOMAIN candidates :
        Dsc!Commit /\ candidates[c] /\ ~candidates'[c] => ~pass.looks[c].read
<1>1. Dsc!Init => Raised
  BY DEF Dsc!Init, Raised
<1>2. Raised /\ [Dsc!Next]_(Dsc!vars) => Raised'
  BY RaisedStep
<1>3. Raised /\ [Dsc!Next]_(Dsc!vars) => [Kept]_(Dsc!vars)
  <2> SUFFICES ASSUME Raised, NEW c \in DOMAIN candidates, Dsc!Commit, candidates[c], ~candidates'[c]
               PROVE  ~pass.looks[c].read
    OBVIOUS
  <2>1. c \in DOMAIN pass.looks /\ ~pass.looks[c].assigned
    BY DEF Dsc!Commit
  <2> QED  BY <2>1 DEF Raised, Dsc!Commit
<1> QED  BY <1>1, <1>2, <1>3, PTL DEF Dsc!Spec, FlagsSurvive, Dsc!FlagsSurvive

-----------------------------------------------------------------------------
(* Readiness: a row, stored or in a worker's hands, never says more than   *)
(* the item bears out or than its own brand and character do.              *)
Sellable ==
    /\ source.platform # "pbandai" /\ ~Rdy!Unsellable /\ source.images
    /\ 10 * Rdy!Profit >= Rdy!SalePrice

Complete(p) ==
    /\ p.publish => source.title = "pokemon" /\ p.brand
    /\ p.readiness = "ready" => p.character /\ p.blockers = {}

Told ==
    {p \in Rdy!Product : (p.status = "candidate" => Sellable) /\ Complete(p)}

Tasks == {None} \cup [write: {"insert", "upsert"}, row: Told]

Earned ==
    /\ source \in Sources
    /\ product \in {None} \cup Told
    /\ task \in [Workers -> Tasks]

LEMMA Amounts == ASSUME source \in Rdy!Source PROVE Rdy!SalePrice \in Int /\ Rdy!Profit \in Int
<1>1. source.price \in Int
  BY DEF Rdy!Source
<1>2. Rdy!SalePrice \in Int /\ Rdy!SalePrice \div 10 \in Int /\ (13 * Rdy!SalePrice) \div 100 \in Int
  BY <1>1 DEF Rdy!SalePrice
<1>3. Rdy!Landed \in Int /\ Rdy!SellingFee \in Int
  BY <1>1, <1>2 DEF Rdy!Landed, Rdy!SellingFee
<1>4. Rdy!PayoutFee \in Int
  BY <1>2, <1>3 DEF Rdy!PayoutFee
<1> QED  BY <1>2, <1>3, <1>4 DEF Rdy!Profit

LEMMA DecidedTold ==
    ASSUME source \in Rdy!Source, NEW profile, NEW strictness
    PROVE  Rdy!Decided(Rdy!Decision(profile, strictness)) \in Told
<1> DEFINE d == Rdy!Decision(profile, strictness)
<1>1. d \in {"candidate", "excluded", "review_required"}
  BY DEF Rdy!Decision
<1>2. d = "candidate" => Sellable
  BY Amounts DEF Rdy!Decision, Sellable
<1> HIDE DEF d
<1>3. Rdy!Decided(d) \in Rdy!Product
  BY <1>1 DEF Rdy!Decided, Rdy!Product
<1>4. Rdy!Decided(d).status = "candidate" => d = "candidate"
  BY <1>1 DEF Rdy!Decided
<1>5. Complete(Rdy!Decided(d))
  BY DEF Rdy!Decided, Complete
<1> QED  BY <1>2, <1>3, <1>4, <1>5 DEF Told, d

LEMMA JudgedTold ==
    ASSUME NEW p \in Told, NEW strictness, NEW defaults \in BOOLEAN
    PROVE  Rdy!Judged(p, strictness, defaults) \in Told
<1> DEFINE found == Rdy!Found(p, defaults)
           q == Rdy!Judged(p, strictness, defaults)
<1>1. found \subseteq Rdy!Blockers
  BY DEF Rdy!Found, Rdy!Content, Rdy!Policies, Rdy!Named, Rdy!Blockers
<1>2. found = {} => source.title = "pokemon" /\ p.brand
  BY DEF Rdy!Found, Rdy!Named, Rdy!Categorized, Rdy!AspectsComplete
<1> HIDE DEF found
<1>3. q \in Rdy!Product
  BY <1>1 DEF q, found, Rdy!Judged, Told, Rdy!Product, Rdy!Named, Rdy!Blockers
<1>4. Complete(q)
  BY <1>2 DEF q, found, Rdy!Judged, Complete, Told, Rdy!Product, Rdy!Named
<1>5. q.status = p.status
  BY DEF Rdy!Judged, Told, Rdy!Product
<1> QED  BY <1>3, <1>4, <1>5 DEF Told

LEMMA PrebanTold == ASSUME NEW p \in Told PROVE Rdy!Preban(p) \in Told
BY DEF Rdy!Preban, Told, Complete, Rdy!Product, Rdy!Blockers

LEMMA EnrichedTold ==
    ASSUME NEW p \in Told, NEW field \in {"brand", "character"}
    PROVE  [p EXCEPT ![field] = TRUE] \in Told
BY DEF Told, Complete, Rdy!Product

(* The item does not change, so that neither does what a row may say.      *)
LEMMA ToldStays == ASSUME source' = source PROVE Told' = Told
<1>1. Sellable' = Sellable
  BY DEF Sellable, Rdy!Unsellable, Rdy!Profit, Rdy!SalePrice, Rdy!Landed, Rdy!SellingFee, Rdy!PayoutFee
<1> QED  BY <1>1 DEF Told, Complete

LEMMA EarnedStep ==
    ASSUME Sources \subseteq Rdy!Source, Earned, [Rdy!Next]_(Rdy!vars)
    PROVE  Earned'
<1>1. source' = source
  BY DEF Rdy!Next, Rdy!Build, Rdy!Check, Rdy!Insert, Rdy!Upsert, Rdy!Fail, Rdy!Enrich, Rdy!vars
<1> DEFINE Moved == product' \in {None} \cup Told /\ task' \in [Workers -> Tasks]
<1>2. Moved
  <2>1. ASSUME NEW w \in Workers, NEW force \in BOOLEAN, Rdy!Build(w, force) PROVE Moved
    <3>1. PICK profile, strictness :
            task' = [task EXCEPT ![w] =
              [write |-> "insert", row |-> Rdy!Decided(Rdy!Decision(profile, strictness))]]
      BY <2>1 DEF Rdy!Build
    <3>2. Rdy!Decided(Rdy!Decision(profile, strictness)) \in Told
      BY DecidedTold DEF Earned
    <3> QED  BY <2>1, <3>1, <3>2 DEF Rdy!Build, Earned, Tasks
  <2>2. ASSUME NEW w \in Workers, NEW force \in BOOLEAN, Rdy!Check(w, force) PROVE Moved
    <3>1. product \in Told
      BY <2>2 DEF Rdy!Check, Earned
    <3>2. PICK row \in Told : task' = [task EXCEPT ![w] = [write |-> "upsert", row |-> row]]
      BY <2>2, <3>1, JudgedTold, PrebanTold DEF Rdy!Check
    <3> QED  BY <2>2, <3>2 DEF Rdy!Check, Earned, Tasks
  <2>3. ASSUME NEW w \in Workers, Rdy!Insert(w) \/ Rdy!Upsert(w) \/ Rdy!Fail(w) PROVE Moved
    <3>1. task[w] # None /\ product' \in {product, task[w].row} /\ task' = [task EXCEPT ![w] = None]
      BY <2>3 DEF Rdy!Insert, Rdy!Upsert, Rdy!Fail
    <3> QED  BY <3>1 DEF Earned, Tasks
  <2>4. CASE Rdy!Enrich
    BY <2>4, EnrichedTold DEF Rdy!Enrich, Earned
  <2>5. CASE UNCHANGED Rdy!vars
    BY <2>5 DEF Rdy!vars, Earned
  <2> QED  BY <2>1, <2>2, <2>3, <2>4, <2>5 DEF Rdy!Next
<1> QED  BY <1>1, <1>2, ToldStays DEF Earned, Tasks

(* Whoever forces or overlaps what, the guard lets no product through that *)
(* is not worth buying, for any items, workers and settings.               *)
THEOREM EarnedAlways ==
    ASSUME Sources \subseteq Rdy!Source PROVE Rdy!Spec => []AllowedEarned
<1>1. Rdy!Init => Earned
  BY DEF Rdy!Init, Earned, Tasks
<1>2. Earned /\ [Rdy!Next]_(Rdy!vars) => Earned'
  BY EarnedStep
<1>3. Earned => AllowedEarned
  BY DEF Earned, Told, Complete, Sellable, AllowedEarned, Rdy!AllowedEarned, Rdy!Allowed
<1> QED  BY <1>1, <1>2, <1>3, PTL DEF Rdy!Spec

-----------------------------------------------------------------------------
(* Selection: what a row of the evaluations says, and what a score that    *)
(* launches says of its own evaluation, stay true of them, because rows    *)
(* are only ever added.  First, that the median is a number: some price    *)
(* has half of the copies at or below it.                                  *)

(* A finite set has a member with nothing below it, whatever order below   *)
(* is: the sets of what is below have a smallest one, by inclusion.        *)
LEMMA Lowest ==
    ASSUME NEW K, IsFiniteSet(K), K # {}, NEW below \in [K -> SUBSET K],
           \A k \in K : k \notin below[k] /\ \A l \in below[k] : below[l] \subseteq below[k]
    PROVE  \E m \in K : below[m] = {}
<1> DEFINE T == {below[k] : k \in K}
           R == StrictSubsetOrdering(K)
<1>1. T # {} /\ T \subseteq FiniteSubsetsOf(K)
  BY FS_Subset DEF FiniteSubsetsOf
<1>2. PICK x \in T : \A y \in T : ~ (<<y, x>> \in R)
  <2> HIDE DEF T, R
  <2> QED  BY <1>1, WFMin, FS_StrictSubsetOrderingWellFounded DEF R
<1>3. PICK m \in K : x = below[m]
  OBVIOUS
<1>4. ASSUME NEW l \in below[m] PROVE FALSE
  <2>1. <<below[l], below[m]>> \in R
    BY <1>4 DEF StrictSubsetOrdering
  <2>2. below[l] \in T
    BY <1>4
  <2> QED  BY <1>2, <1>3, <2>1, <2>2
<1> QED  BY <1>4

(* Of some prices one is the lowest.                                       *)
LEMMA SmallestPrice ==
    ASSUME NEW S \in SUBSET Nat, S # {} PROVE \E m \in S : \A n \in S : m <= n
<1>1. PICK top \in S : TRUE
  OBVIOUS
<1> DEFINE K == {k \in S : k <= top}
           below == [k \in K |-> {l \in K : l < k}]
<1>2. IsFiniteSet(K)
  <2>1. K \in SUBSET (0 .. top)
    <3>1. top \in Nat /\ \A k \in K : k \in Nat /\ k <= top
      OBVIOUS
    <3> HIDE DEF K
    <3> QED  BY <3>1
  <2>2. IsFiniteSet(0 .. top)
    BY FS_Interval
  <2> HIDE DEF K
  <2> QED  BY <2>1, <2>2, FS_Subset
<1>3. K # {} /\ below \in [K -> SUBSET K]
      /\ \A k \in K : k \notin below[k] /\ \A l \in below[k] : below[l] \subseteq below[k]
  <2>1. \A k \in K : k \in Nat /\ below[k] = {l \in K : l < k}
    OBVIOUS
  <2>2. K # {} /\ below \in [K -> SUBSET K]
    OBVIOUS
  <2> HIDE DEF K, below
  <2> QED  BY <2>1, <2>2
<1>4. PICK m \in K : below[m] = {}
  <2> HIDE DEF K, below
  <2> QED  BY <1>2, <1>3, Lowest
<1> QED  BY <1>4

(* What a search of a market finds.                                        *)
Searches == [Listings -> Nat]

(* An instance of the standard module counts as the module does.           *)
LEMMA SameCardinality == \A S : Sel!Cardinality(S) = Cardinality(S)
BY DEF Sel!Cardinality, Cardinality

(* The copies that were found can be counted.                              *)
LEMMA FiniteCopies ==
    ASSUME IsFiniteSet(Listings), NEW found \in Searches, NEW kinds \in SUBSET Listings
    PROVE  IsFiniteSet(Sel!Copies(found, kinds)) /\ Sel!Number(found, kinds) \in Nat
<1> DEFINE T == {{l} \X (1 .. found[l]) : l \in kinds}
           f == [l \in kinds |-> {l} \X (1 .. found[l])]
<1>1. IsFiniteSet(kinds)
  BY FS_Subset
<1>2. f \in Surjection(kinds, T)
  BY DEF Surjection
<1>3. IsFiniteSet(T)
  <2> HIDE DEF T, f
  <2> QED  BY <1>1, <1>2, FS_Surjection
<1>4. ASSUME NEW t \in T PROVE IsFiniteSet(t)
  <2>1. PICK l \in kinds : t = {l} \X (1 .. found[l])
    BY <1>4
  <2>2. found[l] \in Int
    BY DEF Searches
  <2>3. IsFiniteSet({l}) /\ IsFiniteSet(1 .. found[l])
    <3>1. \A x : IsFiniteSet({x})
      BY FS_Singleton
    <3>2. \A n \in Int : IsFiniteSet(1 .. n)
      BY FS_Interval
    <3> QED  BY <2>2, <3>1, <3>2
  <2> QED  BY <2>1, <2>3, FS_Product
<1>5. IsFiniteSet(UNION T)
  <2> HIDE DEF T
  <2> QED  BY <1>3, <1>4, FS_UNION
<1>6. Sel!Copies(found, kinds) = UNION T
  BY DEF Sel!Copies
<1> HIDE DEF T
<1> QED  BY <1>5, <1>6, FS_CardinalityType, SameCardinality DEF Sel!Number

(* Of some kinds of listing one is the dearest.                            *)
LEMMA Dearest ==
    ASSUME IsFiniteSet(Listings), Listings \subseteq Sel!Listing,
           NEW K \in SUBSET Listings, K # {}
    PROVE  \E m \in K : \A k \in K : k.price <= m.price
<1> DEFINE dearer == [l \in K |-> {k \in K : k.price > l.price}]
<1>1. \A k \in K : k.price \in Nat
  BY DEF Sel!Listing
<1>2. /\ dearer \in [K -> SUBSET K]
      /\ \A k \in K : k \notin dearer[k] /\ \A l \in dearer[k] : dearer[l] \subseteq dearer[k]
  BY <1>1
<1>3. PICK m \in K : dearer[m] = {}
  <2>1. IsFiniteSet(K)
    BY FS_Subset
  <2> HIDE DEF dearer
  <2> QED  BY <1>2, <2>1, Lowest
<1> QED  BY <1>1, <1>3

(* The dearest kind that was found has all copies at or below its price.   *)
LEMMA AllUpToDearest ==
    ASSUME IsFiniteSet(Listings), Listings \subseteq Sel!Listing,
           NEW found \in Searches, NEW priced \in SUBSET Listings,
           Sel!Number(found, priced) # 0
    PROVE  \E m \in priced :
             /\ found[m] > 0
             /\ Sel!Number(found, {l \in priced : l.price <= m.price}) = Sel!Number(found, priced)
<1> DEFINE K == {l \in priced : found[l] > 0}
<1>1. Sel!Copies(found, priced) # {}
  <2> SUFFICES ASSUME Sel!Copies(found, priced) = {} PROVE Sel!Number(found, priced) = 0
    OBVIOUS
  <2> QED  BY FS_EmptySet, SameCardinality DEF Sel!Number
<1>2. K # {}
  <2>1. PICK l \in priced : (1 .. found[l]) # {}
    BY <1>1 DEF Sel!Copies
  <2> QED  BY <2>1 DEF Searches
<1>3. PICK m \in K : \A k \in K : k.price <= m.price
  <2> K \in SUBSET Listings
    OBVIOUS
  <2> HIDE DEF K
  <2> QED  BY <1>2, Dearest
<1> DEFINE up == {l \in priced : l.price <= m.price}
<1>4. ASSUME NEW c \in Sel!Copies(found, priced) PROVE c \in Sel!Copies(found, up)
  <2>1. PICK l \in priced : c \in {l} \X (1 .. found[l])
    BY DEF Sel!Copies
  <2>2. l \in K
    BY <2>1 DEF Searches
  <2>3. l \in up
    BY <1>3, <2>2
  <2> QED  BY <2>1, <2>3 DEF Sel!Copies
<1>5. Sel!Copies(found, up) = Sel!Copies(found, priced)
  BY <1>4 DEF Sel!Copies
<1> QED  BY <1>3, <1>5 DEF Sel!Number

(* The median of what was sold is a number, if anything was.               *)
LEMMA MedianType ==
    ASSUME IsFiniteSet(Listings), Listings \subseteq Sel!Listing, NEW found \in Searches
    PROVE  Sel!Median(found) \in Nat \cup {None}
<1> DEFINE priced == {l \in Sel!Comparables : l.sold /\ l.price > 0}
           total == Sel!Number(found, priced)
           UpTo(p) == Sel!Number(found, {l \in priced : l.price <= p})
           prices == {l.price : l \in {k \in priced : found[k] > 0}}
           lows == {p \in prices : 2 * UpTo(p) >= total}
           highs == {p \in prices : 2 * UpTo(p) > total}
<1>1. priced \in SUBSET Listings
  BY DEF Sel!Comparables
<1>2. prices \in SUBSET Nat
  BY <1>1 DEF Sel!Listing
<1>3. total \in Nat
  <2> HIDE DEF priced
  <2> QED  BY <1>1, FiniteCopies
<1> SUFFICES ASSUME total # 0
             PROVE  (Sel!Min(lows) + Sel!Min(highs)) \div 2 \in Nat
  BY DEF Sel!Median
<1>4. \E p \in prices : UpTo(p) = total
  <2>1. PICK m \in priced : found[m] > 0 /\ UpTo(m.price) = total
    <3> HIDE DEF priced
    <3> QED  BY <1>1, AllUpToDearest
  <2> QED  BY <2>1
<1>5. lows # {} /\ highs # {} /\ lows \in SUBSET Nat /\ highs \in SUBSET Nat
  <2>1. PICK p \in prices : UpTo(p) = total
    BY <1>4
  <2>2. 2 * UpTo(p) >= total /\ 2 * UpTo(p) > total
    <3> HIDE DEF UpTo, total, prices
    <3> QED  BY <1>3, <2>1
  <2>3. p \in lows /\ p \in highs
    <3> HIDE DEF UpTo, total, prices
    <3> QED  BY <2>1, <2>2
  <2> HIDE DEF UpTo, total, prices
  <2> QED  BY <1>2, <2>3
<1>6. Sel!Min(lows) \in lows /\ Sel!Min(highs) \in highs
  <2> HIDE DEF lows, highs
  <2>1. \E m \in lows : \A n \in lows : m <= n
    BY <1>5, SmallestPrice
  <2>2. \E m \in highs : \A n \in highs : m <= n
    BY <1>5, SmallestPrice
  <2> QED  BY <2>1, <2>2 DEF Sel!Min
<1>7. Sel!Min(lows) \in Nat /\ Sel!Min(highs) \in Nat
  <2> HIDE DEF lows, highs
  <2> QED  BY <1>5, <1>6
<1> HIDE DEF lows, highs
<1> QED  BY <1>7

-----------------------------------------------------------------------------
(* What a row of the evaluations says: one without a doubt was made of     *)
(* three comparables and, unless its confidence is below half, is safe.    *)
EvaluationInv(e) ==
    /\ e.confidence \in Int /\ e.count \in Nat /\ e.price \in Nat \cup {None} /\ e.at \in Nat
    /\ e.unsafe = {} => e.count >= 3
    /\ e.unsafe = {} /\ e.confidence >= 500 => e.status = "success"

(* The confidence is a number of thousandths.                              *)
LEMMA ConfidenceType ==
    ASSUME NEW found, NEW unsafe PROVE Sel!Confidence(found, unsafe) \in Int
<1> DEFINE Poor(Alignment(_)) ==
             Sel!MapThenSumSet(LAMBDA l : found[l] * Alignment(l), Sel!Comparables)
               < 70 * Sel!Number(found, Sel!Comparables)
           badly == Poor(Sel!CategoryAlignment)
           worn == Poor(Sel!ConditionAlignment)
           few == IF Sel!Number(found, Sel!Comparables) < 3 THEN 500 ELSE 1000
           category == IF badly THEN (few * 8) \div 10 ELSE few
<1>1. few \in Int
  OBVIOUS
<1>2. \A n \in Int : (n * 8) \div 10 \in Int
  OBVIOUS
<1>3. category \in Int
  <2> HIDE DEF few, badly
  <2> QED  BY <1>1, <1>2
<1>4. Sel!Confidence(found, unsafe) =
        IF unsafe \cap Sel!Failures # {} THEN 0
        ELSE IF worn THEN (category * 8) \div 10 ELSE category
  BY Zenon DEF Sel!Confidence
<1> HIDE DEF category, worn
<1> QED  BY <1>2, <1>3, <1>4

(* Every evaluation that is saved says so.                                 *)
LEMMA EvaluationMade ==
    ASSUME IsFiniteSet(Listings), Listings \subseteq Sel!Listing, elapsed \in Nat,
           NEW found \in Searches, NEW failure \in SUBSET Sel!Failures
    PROVE  EvaluationInv(Sel!EvaluationOf(found, failure))
<1> DEFINE n == Sel!Number(found, Sel!Comparables)
           unsafe == failure \cup (IF n < 3 THEN {"too_few_comparables"} ELSE {})
           confidence == Sel!Confidence(found, unsafe)
           price == Sel!Median(found)
<1>1. n \in Nat
  BY FiniteCopies DEF Sel!Comparables
<1>2. confidence \in Int
  BY ConfidenceType
<1>3. price \in Nat \cup {None}
  BY MedianType
<1>4. unsafe = {} => n >= 3
  <2> HIDE DEF n
  <2> QED  BY <1>1
<1>5. Sel!EvaluationOf(found, failure) =
        [status |-> Sel!Status(confidence, unsafe), confidence |-> confidence, count |-> n,
         price |-> price, unsafe |-> unsafe, at |-> elapsed]
  BY DEF Sel!EvaluationOf
<1> HIDE DEF n, unsafe, confidence, price
<1>6. unsafe = {} /\ confidence >= 500 => Sel!Status(confidence, unsafe) = "success"
  BY <1>2 DEF Sel!Status
<1> QED  BY <1>1, <1>2, <1>3, <1>4, <1>5, <1>6 DEF EvaluationInv

-----------------------------------------------------------------------------
(* What a launch needs of the evaluation that its score was computed from. *)
Earns(e) ==
    /\ e.status = "success" /\ e.count >= 3
    /\ (100 - Sel!CostRate) * e.price - Sel!FixedCost >= 3000

(* A profit is no less than what is left of it.                            *)
LEMMA Discounted ==
    ASSUME NEW net \in Int, NEW m \in 0 .. 1000, net * m >= 3000 * 1000 PROVE net >= 3000
<1>1. CASE net <= 0
  <2>1. net * m <= 0
    BY <1>1
  <2> QED  BY <2>1
<1>2. CASE net > 0
  <2>1. net * m <= net * 1000
    BY <1>2
  <2> QED  BY <2>1
<1> QED  BY <1>1, <1>2

(* Confidence only takes from a profit.                                    *)
LEMMA MultiplierBound ==
    ASSUME NEW e, EvaluationInv(e), e.unsafe = {} PROVE Sel!Multiplier(e) \in 0 .. 1000
<1>1. Cardinality({}) = 0
  BY FS_EmptySet
<1>2. Sel!Cardinality(e.unsafe) = 0
  BY <1>1, SameCardinality
<1>3. \A i, k \in Int : Sel!Min({i, k}) \in {i, k} /\ Sel!Min({i, k}) <= k
  <2> SUFFICES ASSUME NEW i \in Int, NEW k \in Int
               PROVE  Sel!Min({i, k}) \in {i, k} /\ Sel!Min({i, k}) <= k
    OBVIOUS
  <2>1. \E x \in {i, k} : \A y \in {i, k} : x <= y
    BY i <= k \/ k <= i
  <2>2. Sel!Min({i, k}) \in {i, k} /\ \A y \in {i, k} : Sel!Min({i, k}) <= y
    <3> DEFINE S == {i, k}
    <3> HIDE DEF S
    <3>1. Sel!Min(S) \in S /\ \A y \in S : Sel!Min(S) <= y
      BY <2>1 DEF Sel!Min, S
    <3> QED  BY <3>1 DEF S
  <2> QED  BY <2>2
<1>4. \A i, k \in Int : Sel!Max({i, k}) \in {i, k} /\ Sel!Max({i, k}) >= i
  <2> SUFFICES ASSUME NEW i \in Int, NEW k \in Int
               PROVE  Sel!Max({i, k}) \in {i, k} /\ Sel!Max({i, k}) >= i
    OBVIOUS
  <2>1. \E x \in {i, k} : \A y \in {i, k} : x >= y
    BY i >= k \/ k >= i
  <2>2. Sel!Max({i, k}) \in {i, k} /\ \A y \in {i, k} : Sel!Max({i, k}) >= y
    BY <2>1 DEF Sel!Max
  <2> QED  BY <2>2
<1>5. Sel!Min({e.count, 5}) \in Int /\ Sel!Min({0, 2}) \in Int
  <2>1. e.count \in Int /\ 5 \in Int /\ 0 \in Int /\ 2 \in Int
    BY DEF EvaluationInv
  <2>2. \A i, k \in Int : Sel!Min({i, k}) \in Int
    BY <1>3
  <2> QED  BY <2>1, <2>2, Zenon
<1> DEFINE raw == (55 * e.confidence) \div 100 + 300
                    + 20 * Sel!Min({e.count, 5})
                    - (IF candidate.review THEN 50 ELSE 0)
                    - 50 * Sel!Min({Sel!Cardinality(e.unsafe), 2})
<1>6. raw \in Int
  <2>1. (55 * e.confidence) \div 100 \in Int
    BY DEF EvaluationInv
  <2>2. Sel!Min({Sel!Cardinality(e.unsafe), 2}) \in Int
    BY <1>2, <1>5
  <2> QED  BY <1>5, <2>1, <2>2
<1>7. Sel!Multiplier(e) = Sel!Max({350, Sel!Min({raw, 1000})})
  BY DEF Sel!Multiplier
<1> HIDE DEF raw
<1>8. Sel!Min({raw, 1000}) \in Int /\ Sel!Min({raw, 1000}) <= 1000
  BY <1>3, <1>6
<1>9. 350 \in Int
  OBVIOUS
<1> DEFINE capped == Sel!Min({raw, 1000})
<1> HIDE DEF capped
<1>10. capped \in Int /\ capped <= 1000
  BY <1>8 DEF capped
<1>11. Sel!Max({350, capped}) \in {350, capped} /\ Sel!Max({350, capped}) >= 350
  BY <1>4, <1>9, <1>10, Zenon
<1>12. Sel!Max({350, capped}) = 350 \/ Sel!Max({350, capped}) = capped
  BY <1>11
<1>13. Sel!Max({350, capped}) \in 0 .. 1000
  BY <1>10, <1>11, <1>12
<1> QED  BY <1>7, <1>13 DEF capped

(* A score that launches has what it needs in its evaluation.              *)
LEMMA LaunchEarned ==
    ASSUME NEW e, EvaluationInv(e), e.price # None, Sel!ScoreOf(e).verdict = "launch_now"
    PROVE  Earns(e)
<1> DEFINE net == 100 * e.price - (Sel!CostRate + Sel!PenaltyRate(e)) * e.price - Sel!FixedCost
           adjusted == net * Sel!Multiplier(e)
           margin == net \div e.price
<1>1. Sel!Verdict(e, net, adjusted, margin) = "launch_now"
  BY DEF Sel!ScoreOf
<1>2. e.price \in Nat /\ e.count \in Nat /\ e.confidence \in Int
  BY DEF EvaluationInv
<1>3. Sel!PenaltyRate(e) \in 0 .. 20
  BY <1>2 DEF Sel!PenaltyRate
<1>4. net \in Int /\ net <= (100 - Sel!CostRate) * e.price - Sel!FixedCost
  <2>1. PICK r \in 0 .. 20 : r = Sel!PenaltyRate(e)
    BY <1>3
  <2>2. r * e.price >= 0
    BY <1>2
  <2> QED  BY <1>2, <2>1, <2>2 DEF Sel!CostRate, Sel!FixedCost, Sel!SourceCost
<1> HIDE DEF net
<1>5. e.unsafe = {} /\ adjusted >= 3000 * 1000 /\ e.confidence >= 750
  <2> HIDE DEF adjusted, margin
  <2> QED  BY <1>1 DEF Sel!Verdict, Sel!Launches
<1>6. net >= 3000
  BY <1>4, <1>5, MultiplierBound, Discounted
<1>7. e.status = "success" /\ e.count >= 3
  BY <1>2, <1>5 DEF EvaluationInv
<1>8. (100 - Sel!CostRate) * e.price - Sel!FixedCost \in Int
  BY <1>2 DEF Sel!CostRate, Sel!FixedCost, Sel!SourceCost
<1> QED  BY <1>4, <1>6, <1>7, <1>8 DEF Earns

-----------------------------------------------------------------------------
(* The rows a candidate has.  Those of a table are never changed, so that  *)
(* a number keeps meaning the same row.                                    *)
EvaluationsSound ==
    /\ DOMAIN evaluations = 1 .. Len(evaluations) /\ Len(evaluations) \in Nat
    /\ \A i \in 1 .. Len(evaluations) : EvaluationInv(evaluations[i])

ScoresSound ==
    /\ Len(scores) \in Nat
    /\ \A i \in 1 .. Len(scores) :
          /\ scores[i].at \in Nat
          /\ scores[i].verdict = "launch_now" =>
                /\ scores[i].evaluation \in 1 .. Len(evaluations)
                /\ Earns(evaluations[scores[i].evaluation])

DecisionSound ==
    decision # None /\ decision.class = "auto_launch" =>
        /\ decision.evaluation \in 1 .. Len(evaluations) /\ decision.score \in 1 .. Len(scores)
        /\ decision.at - evaluations[decision.evaluation].at <= 2
        /\ decision.at - scores[decision.score].at <= 2
        /\ evaluations[decision.evaluation].status = "success"
        /\ scores[decision.score].verdict = "launch_now"

SelectionInv ==
    /\ elapsed \in Nat /\ \E S, T : evaluations \in Seq(S) /\ scores \in Seq(T)
    /\ EvaluationsSound /\ ScoresSound /\ DecisionSound

(* A new evaluation leaves the numbers of the others as they were.         *)
LEMMA EvaluateStep ==
    ASSUME IsFiniteSet(Listings), Listings \subseteq Sel!Listing, Counts \subseteq Nat,
           SelectionInv, Sel!Evaluate
    PROVE  SelectionInv'
<1>1. PICK e : evaluations' = Append(evaluations, e) /\ EvaluationInv(e)
  <2>1. CASE \E found \in [Listings -> Counts] : Sel!SaveResult(Sel!EvaluationOf(found, {}))
    BY <2>1, EvaluationMade DEF Sel!SaveResult, SelectionInv, Searches
  <2>2. ASSUME NEW f \in Sel!Failures,
               Sel!SaveResult(Sel!EvaluationOf([l \in Listings |-> 0], {f}))
        PROVE  \E e : evaluations' = Append(evaluations, e) /\ EvaluationInv(e)
    <3>1. [l \in Listings |-> 0] \in Searches
      BY DEF Searches
    <3> QED  BY <2>2, <3>1, EvaluationMade DEF Sel!SaveResult, SelectionInv
  <2> QED  BY <2>1, <2>2 DEF Sel!Evaluate
<1>2. UNCHANGED <<elapsed, scores, decision>>
  BY DEF Sel!Evaluate
<1>3. PICK S, T : evaluations \in Seq(S) /\ scores \in Seq(T)
  BY DEF SelectionInv
<1>4. /\ evaluations' \in Seq(S \cup {e}) /\ Len(evaluations') = Len(evaluations) + 1
      /\ evaluations'[Len(evaluations')] = e
      /\ \A i \in 1 .. Len(evaluations) : evaluations'[i] = evaluations[i]
  <2>1. evaluations \in Seq(S \cup {e})
    BY <1>3
  <2> QED  BY <1>1, <2>1
<1>5. EvaluationsSound'
  <2>1. DOMAIN evaluations' = 1 .. Len(evaluations') /\ Len(evaluations') \in Nat
    BY <1>4
  <2>2. \A i \in 1 .. Len(evaluations') : i = Len(evaluations') \/ i \in 1 .. Len(evaluations)
    BY <1>4 DEF SelectionInv, EvaluationsSound
  <2>3. ASSUME NEW i \in 1 .. Len(evaluations') PROVE EvaluationInv(evaluations'[i])
    BY <1>1, <1>4, <2>2, <2>3 DEF SelectionInv, EvaluationsSound
  <2> QED  BY <2>1, <2>3 DEF EvaluationsSound, EvaluationInv
<1>6. ScoresSound'
  BY <1>2, <1>4 DEF SelectionInv, EvaluationsSound, ScoresSound, Earns, Sel!CostRate, Sel!FixedCost, Sel!SourceCost
<1>7. DecisionSound'
  BY <1>2, <1>4 DEF SelectionInv, EvaluationsSound, DecisionSound
<1> QED  BY <1>2, <1>3, <1>4, <1>5, <1>6, <1>7 DEF SelectionInv

(* A new score keeps the number of the evaluation it was computed from.    *)
LEMMA ScoringStep ==
    ASSUME SelectionInv, Sel!RunScoring PROVE SelectionInv'
<1> DEFINE e == IF evaluations = <<>> THEN None ELSE evaluations[Len(evaluations)]
           s == IF Sel!Complete(e) THEN Sel!ScoreOf(e) ELSE Sel!Incomplete
<1>1. scores' = Append(scores, s) /\ UNCHANGED <<elapsed, evaluations, decision>>
  BY DEF Sel!RunScoring, Sel!SaveScore, Sel!NewestEvaluation
<1>2. PICK S, T : evaluations \in Seq(S) /\ scores \in Seq(T)
  BY DEF SelectionInv
<1>3. s.at \in Nat
  BY DEF SelectionInv, Sel!ScoreOf, Sel!Incomplete
<1>4. s.verdict = "launch_now" =>
        s.evaluation \in 1 .. Len(evaluations) /\ Earns(evaluations[s.evaluation])
  <2> SUFFICES ASSUME s.verdict = "launch_now"
               PROVE  s.evaluation \in 1 .. Len(evaluations) /\ Earns(evaluations[s.evaluation])
    OBVIOUS
  <2>1. Sel!Complete(e) /\ s = Sel!ScoreOf(e)
    BY DEF Sel!Incomplete
  <2>2. e = evaluations[Len(evaluations)] /\ Len(evaluations) \in 1 .. Len(evaluations)
    BY <1>2, <2>1 DEF Sel!Complete
  <2>3. EvaluationInv(e) /\ e.price # None
    BY <2>1, <2>2 DEF SelectionInv, EvaluationsSound, Sel!Complete
  <2> HIDE DEF e
  <2>4. Earns(e)
    BY <2>1, <2>3, LaunchEarned
  <2>5. s.evaluation = Len(evaluations)
    BY <2>1 DEF Sel!ScoreOf, Sel!NewestEvaluation
  <2> QED  BY <2>2, <2>4, <2>5
<1> HIDE DEF s, e
<1>5. /\ scores' \in Seq(T \cup {s}) /\ Len(scores') = Len(scores) + 1 /\ Len(scores) \in Nat
      /\ scores'[Len(scores')] = s
      /\ \A i \in 1 .. Len(scores) : scores'[i] = scores[i]
  <2>1. scores \in Seq(T \cup {s})
    BY <1>2
  <2> QED  BY <1>1, <2>1
<1>6. EvaluationsSound'
  BY <1>1 DEF SelectionInv, EvaluationsSound, EvaluationInv
<1>7. ScoresSound'
  BY <1>1, <1>3, <1>4, <1>5 DEF SelectionInv, ScoresSound, Earns, Sel!CostRate, Sel!FixedCost, Sel!SourceCost
<1>8. DecisionSound'
  BY <1>1, <1>5 DEF SelectionInv, DecisionSound
<1> QED  BY <1>1, <1>2, <1>5, <1>6, <1>7, <1>8 DEF SelectionInv

(* The decision is about the newest rows, whichever they are.              *)
LEMMA RankingStep ==
    ASSUME SelectionInv, Sel!RunRanking PROVE SelectionInv'
<1> DEFINE e == IF evaluations = <<>> THEN None ELSE evaluations[Len(evaluations)]
           s == IF scores = <<>> THEN None ELSE scores[Len(scores)]
           d == Sel!DecisionOf(e, s)
<1>1. decision' = d /\ UNCHANGED <<elapsed, evaluations, scores>>
  BY DEF Sel!RunRanking, Sel!SaveDecision, Sel!NewestEvaluation, Sel!NewestScore
<1>2. PICK S, T : evaluations \in Seq(S) /\ scores \in Seq(T)
  BY DEF SelectionInv
<1>3. d.evaluation = Len(evaluations) /\ d.score = Len(scores) /\ d.at = elapsed
  BY DEF Sel!DecisionOf, Sel!NewestEvaluation, Sel!NewestScore
<1>4. ASSUME d.class = "auto_launch"
      PROVE  /\ e # None /\ e.status = "success" /\ s # None /\ s.verdict = "launch_now"
             /\ ~Sel!Stale(e, s)
  <2> HIDE DEF e, s
  <2>1. ~Sel!Rejected(e, s) /\ Sel!Class(e, s) = "auto_launch"
    BY <1>4 DEF Sel!DecisionOf
  <2> QED  BY <2>1 DEF Sel!Rejected, Sel!Class
<1>5. ASSUME d.class = "auto_launch"
      PROVE  /\ d.evaluation \in 1 .. Len(evaluations) /\ d.score \in 1 .. Len(scores)
             /\ d.at - evaluations[d.evaluation].at <= 2 /\ d.at - scores[d.score].at <= 2
             /\ evaluations[d.evaluation].status = "success"
             /\ scores[d.score].verdict = "launch_now"
  <2>1. e = evaluations[Len(evaluations)] /\ Len(evaluations) \in 1 .. Len(evaluations)
    BY <1>2, <1>4, <1>5
  <2>2. s = scores[Len(scores)] /\ Len(scores) \in 1 .. Len(scores)
    BY <1>2, <1>4, <1>5
  <2>3. e.at \in Nat /\ s.at \in Nat /\ elapsed \in Nat
    BY <2>1, <2>2 DEF SelectionInv, EvaluationsSound, EvaluationInv, ScoresSound
  <2>4. elapsed - e.at <= 2 /\ elapsed - s.at <= 2
    <3> HIDE DEF e, s
    <3> QED  BY <1>4, <1>5, <2>3 DEF Sel!Stale
  <2> HIDE DEF e, s, d
  <2> QED  BY <1>3, <1>4, <1>5, <2>1, <2>2, <2>4
<1> HIDE DEF d
<1>6. DecisionSound'
  BY <1>1, <1>5 DEF DecisionSound
<1>7. EvaluationsSound' /\ ScoresSound'
  BY <1>1 DEF SelectionInv, EvaluationsSound, EvaluationInv, ScoresSound, Earns, Sel!CostRate, Sel!FixedCost, Sel!SourceCost
<1> QED  BY <1>1, <1>6, <1>7 DEF SelectionInv

(* Reviews and time change no row.                                         *)
LEMMA SelectionStep ==
    ASSUME IsFiniteSet(Listings), Listings \subseteq Sel!Listing, Counts \subseteq Nat,
           SelectionInv, [Sel!Next]_(Sel!vars)
    PROVE  SelectionInv'
<1>1. CASE Sel!Review \/ Sel!Tick \/ UNCHANGED Sel!vars
  <2>1. UNCHANGED <<evaluations, scores, decision>> /\ elapsed' \in Nat
    BY <1>1 DEF Sel!Review, Sel!Tick, Sel!vars, SelectionInv
  <2> QED  BY <2>1 DEF SelectionInv, EvaluationsSound, EvaluationInv, ScoresSound, DecisionSound,
                       Earns, Sel!CostRate, Sel!FixedCost, Sel!SourceCost
<1> QED  BY <1>1, EvaluateStep, ScoringStep, RankingStep DEF Sel!Next

(* However evaluations, scores, rankings and reviews interleave, for any   *)
(* kinds of listings and any prices, a launch without an operator rests on *)
(* rows a day old at most and on a safe evaluation that leaves a profit.   *)
THEOREM LaunchesEarned ==
    ASSUME IsFiniteSet(Listings), Listings \subseteq Sel!Listing, Counts \subseteq Nat
    PROVE  Sel!Spec => []AutoLaunchEarned
<1>1. Sel!Init => SelectionInv
  <2> SUFFICES ASSUME Sel!Init PROVE SelectionInv
    OBVIOUS
  <2>1. evaluations = <<>> /\ scores = <<>> /\ decision = None /\ elapsed = 0
    BY DEF Sel!Init
  <2>2. evaluations \in Seq({}) /\ scores \in Seq({})
    BY <2>1
  <2> QED  BY <2>1, <2>2 DEF SelectionInv, EvaluationsSound, ScoresSound, DecisionSound
<1>2. SelectionInv /\ [Sel!Next]_(Sel!vars) => SelectionInv'
  BY SelectionStep
<1>3. SelectionInv => AutoLaunchEarned
  <2> SUFFICES ASSUME SelectionInv, decision # None, decision.class = "auto_launch"
               PROVE  AutoLaunchEarned
    BY DEF AutoLaunchEarned, Sel!AutoLaunchEarned
  <2> QED  BY DEF SelectionInv, ScoresSound, DecisionSound, Earns, AutoLaunchEarned, Sel!AutoLaunchEarned
<1> QED  BY <1>1, <1>2, <1>3, PTL DEF Sel!Spec
=============================================================================
