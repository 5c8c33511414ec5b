------------------------------ MODULE Handoff ------------------------------
(***************************************************************************)
(* The handoff of one candidate, of one seller and environment, from the   *)
(* ranking layer to the execution layer (HandoffOpsService.run_handoff).   *)
(* An operator's run reads the ranking decision and the newest rows of     *)
(* listing_handoffs, passes the guards, dispatches and only then inserts   *)
(* its own row, which is the only thing that later runs can see of it.     *)
(*                                                                         *)
(* At this commit the command cannot get that far: run_handoff looks the   *)
(* decision up with get_by_candidate_seller_env, which the ranking         *)
(* repository does not have, and always raises.  The lookup is modelled by *)
(* what its caller expects of it, the rest by what it does.  Reasons,      *)
(* explanations, transitions, which nobody saves, and the ids of rows are  *)
(* left out, and so are the cool-down, the limit per run and the retries   *)
(* of an existing handoff: run_handoff passes no last execution, a count   *)
(* of 0 and no handoff id.                                                 *)
(***************************************************************************)
EXTENDS Integers, Sequences, FiniteSets

CONSTANTS
    Operators,      \* processes that run the command for this candidate
    Crashes,        \* the steps before which a process may die
    Window,         \* duplicate_suppression_window_seconds
    Recent,         \* the limit of find_recent_by_candidate
    MaxPerSeller,   \* max_per_seller
    None,           \* nothing
    MaxNow,         \* bound on the clock
    MaxRows         \* bound on the table

VARIABLES
    now,            \* the clock
    ranking,        \* the candidate's row of listing_decisions
    gateway,        \* how the execution layer takes this candidate
    handoffs,       \* listing_handoffs, the oldest first
    run,            \* where each operator's run is
    dispatched,     \* when the execution layer last accepted the candidate
    overlapped,     \* whether runs overlapped since nobody was running
    lost            \* whether a row was lost since the last acceptance

history == <<dispatched, overlapped, lost>>

vars == <<now, ranking, gateway, handoffs, run, history>>

ASSUME HandoffAssumption ==
    /\ Crashes \subseteq {"dispatch", "save"}
    /\ Window \in Nat /\ Recent \in Nat \ {0} /\ MaxPerSeller \in Nat \ {0}
    /\ MaxNow \in Nat /\ MaxRows \in Nat
    /\ None \notin Int

-----------------------------------------------------------------------------
(* A decision is held by execution_blocked, stale_flag or recheck_required. *)
Ranking == [auto_launch: BOOLEAN, held: BOOLEAN]
Unfinished == {"pending", "claimed", "validated", "dispatched", "accepted"}
Status == Unfinished \cup {"rejected", "failed", "deferred", "cancelled", "completed"}
Handoff == [status: Status, at: Nat]
Run == [pc: {"idle", "dispatch", "save"}, status: Status]

(* How the gateway answers: the mock by a pattern in the candidate's id;   *)
(* the live one raises NotImplementedError.                                *)
Gateway == {"accepts", "transient", "fatal", "live"}

TypeOK ==
    /\ now \in Nat
    /\ ranking \in Ranking \cup {None}
    /\ gateway \in Gateway
    /\ handoffs \in Seq(Handoff)
    /\ run \in [Operators -> Run]
    /\ dispatched \in Nat \cup {None}
    /\ overlapped \in BOOLEAN /\ lost \in BOOLEAN

Init ==
    /\ now = 0
    /\ ranking \in Ranking \cup {None}
    /\ gateway \in Gateway
    /\ handoffs = <<>>
    /\ run = [o \in Operators |-> [pc |-> "idle", status |-> "pending"]]
    /\ dispatched = None /\ overlapped = FALSE /\ lost = FALSE

-----------------------------------------------------------------------------
(* The guards                                                              *)

(* Of a decision of another class the validator asks the text that was     *)
(* stored for its enumeration's value, and raises: see Begin.              *)
Eligible(r) == ~r.held

(* Mutated form: the order is the oldest first.                            *)
Oldest == {i \in DOMAIN handoffs : i <= Recent}

(* The rows that find_recent_by_candidate returns, as positions.           *)
Newest == {i \in DOMAIN handoffs : i > Len(handoffs) - Recent}

(* An unfinished handoff, a deferred one, or any one inside the window.    *)
Duplicate ==
    \E i \in Newest :
        \/ handoffs[i].status \in Unfinished \cup {"deferred"}
        \/ now - handoffs[i].at < Window

SellerFull ==
    Cardinality({i \in DOMAIN handoffs : handoffs[i].status \in Unfinished}) >= MaxPerSeller

(* The status in which the guards leave a handoff.                         *)
Guarded ==
    IF ~Eligible(ranking) \/ Duplicate THEN "rejected"
    ELSE IF SellerFull THEN "deferred"
    ELSE "validated"

(* The status after the gateway's answer; the first attempt is never the   *)
(* last one.                                                               *)
Answered ==
    CASE gateway = "accepts" -> "completed"
      [] gateway = "transient" -> "deferred"
      [] OTHER -> "rejected"

-----------------------------------------------------------------------------
Busy == {o \in Operators : run[o].pc # "idle"}

Enter(o, pc, status) == run' = [run EXCEPT ![o] = [pc |-> pc, status |-> status]]

(* The reads of run_handoff and the guards of process_handoff.             *)
Begin(o) ==
    /\ run[o].pc = "idle"
    /\ ranking # None /\ ranking.auto_launch
    /\ Len(handoffs) < MaxRows
    /\ Enter(o, IF Guarded = "validated" THEN "dispatch" ELSE "save", Guarded)
    /\ overlapped' = (Busy # {})
    /\ UNCHANGED <<now, ranking, gateway, handoffs, dispatched, lost>>

(* The gateway, and what becomes of the handoff.                           *)
Dispatch(o) ==
    /\ run[o].pc = "dispatch"
    /\ gateway # "live"
    /\ Enter(o, "save", Answered)
    /\ IF gateway = "accepts" THEN dispatched' = now /\ lost' = FALSE
                              ELSE UNCHANGED <<dispatched, lost>>
    /\ UNCHANGED <<now, ranking, gateway, handoffs, overlapped>>

(* The live gateway's exception ends the command without a row.            *)
DispatchRaises(o) ==
    /\ run[o].pc = "dispatch"
    /\ gateway = "live"
    /\ Enter(o, "idle", "pending")
    /\ UNCHANGED <<now, ranking, gateway, handoffs, history>>

(* upsert_handoff: the id is new, so that a row is inserted, and created_at *)
(* is the time of the insert.                                              *)
Save(o) ==
    /\ run[o].pc = "save"
    /\ handoffs' = Append(handoffs, [status |-> run[o].status, at |-> now])
    /\ Enter(o, "idle", "pending")
    /\ UNCHANGED <<now, ranking, gateway, history>>

(* The process dies, or its insert fails.                                  *)
Die(o) ==
    /\ run[o].pc \in Crashes
    /\ Enter(o, "idle", "pending")
    /\ lost' = (lost \/ run[o].status = "completed")
    /\ UNCHANGED <<now, ranking, gateway, handoffs, dispatched, overlapped>>

(* The ranking layer decides about the candidate again.                    *)
Rank ==
    /\ ranking' \in Ranking
    /\ UNCHANGED <<now, gateway, handoffs, run, history>>

Tick ==
    /\ now < MaxNow
    /\ now' = now + 1
    /\ UNCHANGED <<ranking, gateway, handoffs, run, history>>

Operator(o) == Begin(o) \/ Dispatch(o) \/ DispatchRaises(o) \/ Save(o) \/ Die(o)

Next == Tick \/ Rank \/ \E o \in Operators : Operator(o)

Spec == Init /\ [][Next]_vars

-----------------------------------------------------------------------------
Suppression == INSTANCE DispatchOnce WITH last <- dispatched, excused <- overlapped \/ lost

(* However runs, deaths, the ranking layer and the clock interleave, and   *)
(* whichever of its rows the limit hides, the execution layer accepts the  *)
(* candidate a second time inside the suppression window only of runs that *)
(* overlapped, or after a run that it accepted lost its row: the runs      *)
(* implement DispatchOnce.  In both cases it does.                         *)
AcceptedApart == Suppression!Spec
=============================================================================
