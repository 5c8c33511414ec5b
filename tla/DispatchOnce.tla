---------------------------- MODULE DispatchOnce ----------------------------
(***************************************************************************)
(* What duplicate suppression gives the execution layer: of one candidate  *)
(* it accepts at most one handoff in any Window of time, unless those who  *)
(* ask are excused: nothing keeps their runs apart, nor their dispatch and *)
(* its row together.  Handoff implements this.                             *)
(***************************************************************************)
EXTENDS Integers

CONSTANTS
    Window,     \* the suppression window
    MaxNow,     \* bound on the clock
    None        \* nothing

VARIABLES
    now,        \* the clock
    last,       \* when the execution layer last accepted the candidate
    excused     \* whether runs overlap, or the last acceptance left no row

vars == <<now, last, excused>>

Init == now = 0 /\ last = None /\ excused = FALSE

Tick == now < MaxNow /\ now' = now + 1 /\ UNCHANGED <<last, excused>>

Accept ==
    /\ last = None \/ now - last >= Window \/ excused
    /\ last' = now
    /\ excused' \in BOOLEAN
    /\ UNCHANGED now

Excuse == excused' = ~excused /\ UNCHANGED <<now, last>>

Next == Tick \/ Accept \/ Excuse

Spec == Init /\ [][Next]_vars
=============================================================================
