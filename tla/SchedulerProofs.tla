-------------------------- MODULE SchedulerProofs ---------------------------
(***************************************************************************)
(* Mutual exclusion of jobs, for any registry, any order of execution, any *)
(* lock keys and any number of threads; then the limit of a trigger with   *)
(* one operator, and the order of a cycle.                                 *)
(*                                                                         *)
(* In mutual exclusion the order plays no part: the proof follows only the *)
(* threads that hold a lock, for which job, and what the table of locks    *)
(* says.                                                                   *)
(* MutualExclusion alone is not inductive, because a thread that takes a   *)
(* key looks at the table and not at the other threads; LocksHeld ties the *)
(* two together, and in turn needs MutualExclusion when a key is given     *)
(* back, which must not be the key of another thread too.                  *)
(***************************************************************************)
EXTENDS Scheduler, TLAPS

Key(t) == LockKey[Head(cycle[t].todo)]

(* The fields of a cycle that matter exist, whatever else it holds. *)
Shape ==
    /\ DOMAIN cycle = Threads
    /\ \A t \in Threads : {"pc", "todo"} \subseteq DOMAIN cycle[t]

-----------------------------------------------------------------------------
(* The same invariant, thread by thread. *)
Locked ==
    /\ \A t \in Threads : Holds(t) => Key(t) \in locks
    /\ \A k \in locks : \E t \in Threads : Holds(t) /\ Key(t) = k
    /\ \A t, u \in Threads : Holds(t) /\ Holds(u) /\ Key(t) = Key(u) => t = u

LEMMA SameLocked ==
    Locked <=> MutualExclusion /\ LocksHeld
  BY DEF Locked, MutualExclusion, LocksHeld, Key

(* The four ways a step can treat the one thread it is a step of. *)

Others(t) == \A u \in Threads \ {t} : Holds(u)' = Holds(u) /\ Key(u)' = Key(u)

LEMMA NeitherHolds ==
    ASSUME Locked, NEW t \in Threads, Others(t),
           ~Holds(t), ~Holds(t)', locks' = locks
    PROVE  Locked'
  BY DEF Locked, Others

LEMMA Takes ==
    ASSUME Locked, NEW t \in Threads, Others(t),
           ~Holds(t), Key(t)' \notin locks, Holds(t)', locks' = locks \cup {Key(t)'}
    PROVE  Locked'
  BY DEF Locked, Others

LEMMA Keeps ==
    ASSUME Locked, NEW t \in Threads, Others(t),
           Holds(t), Holds(t)', Key(t)' = Key(t), locks' = locks
    PROVE  Locked'
  BY DEF Locked, Others

LEMMA GivesBack ==
    ASSUME Locked, NEW t \in Threads, Others(t),
           Holds(t), ~Holds(t)', locks' = locks \ {Key(t)}
    PROVE  Locked'
  BY DEF Locked, Others

-----------------------------------------------------------------------------
(* A step that replaces the cycle of thread t by c. *)
LEMMA Replaces ==
    ASSUME Shape, NEW t \in Threads, NEW c, {"pc", "todo"} \subseteq DOMAIN c,
           cycle' = [cycle EXCEPT ![t] = c]
    PROVE  /\ Shape'
           /\ Others(t)
           /\ Holds(t)' <=> c.pc \in {"running", "ran"}
           /\ Key(t)' = LockKey[Head(c.todo)]
  <1>1. /\ DOMAIN cycle' = Threads
        /\ cycle'[t] = c
        /\ \A u \in Threads \ {t} : cycle'[u] = cycle[u]
    BY DEF Shape
  <1>2. Shape'
    BY <1>1 DEF Shape
  <1>3. Others(t)
    BY <1>1 DEF Others, Holds, Key
  <1> QED
    BY <1>1, <1>2, <1>3 DEF Holds, Key

(* The inductive invariant. *)
IInv == Shape /\ Locked

LEMMA InitIInv == Init => IInv
  BY DEF Init, IInv, Shape, Locked, Holds, Key, Idle

LEMMA Entering ==
    ASSUME IInv, NEW t \in Threads, NEW chosen, NEW trigger, NEW limit,
           cycle[t].pc = "idle", Enter(t, chosen, trigger, limit), locks' = locks
    PROVE  IInv'
  <1> DEFINE c == [pc |-> "next", todo |-> ExecutionOrder(chosen),
                   status |-> NoStatus, trigger |-> trigger, limit |-> limit]
  <1>1. cycle' = [cycle EXCEPT ![t] = c] /\ {"pc", "todo"} \subseteq DOMAIN c /\ c.pc = "next"
    BY DEF Enter
  <1> HIDE DEF c
  <1>2. Shape' /\ Others(t) /\ ~Holds(t)'
    BY <1>1, Replaces DEF IInv
  <1> QED
    BY <1>2, NeitherHolds DEF IInv, Holds

-----------------------------------------------------------------------------
(* The steps of a thread inside a cycle. *)

LEMMA EndCycleIInv ==
    ASSUME IInv, NEW t \in Threads, EndCycle(t)
    PROVE  IInv'
  <1>1. Shape' /\ Others(t) /\ ~Holds(t)'
    BY Replaces DEF IInv, EndCycle, Idle
  <1> QED
    BY <1>1, NeitherHolds DEF IInv, EndCycle, Holds

LEMMA SkipIInv ==
    ASSUME IInv, NEW t \in Threads, Skip(t)
    PROVE  IInv'
  <1>1. PICK j \in Jobs : Upcoming(t, j) /\ cycle' = [cycle EXCEPT ![t] = Decide(t, j, "skipped")]
    BY DEF Skip
  <1>2. {"pc", "todo"} \subseteq DOMAIN Decide(t, j, "skipped") /\ Decide(t, j, "skipped").pc = "next"
    BY DEF IInv, Shape, Decide
  <1>3. Shape' /\ Others(t) /\ ~Holds(t)'
    BY <1>1, <1>2, Replaces DEF IInv
  <1> QED
    BY <1>1, <1>3, NeitherHolds DEF IInv, Skip, Upcoming, Holds

LEMMA AcquireIInv ==
    ASSUME IInv, NEW t \in Threads, Acquire(t)
    PROVE  IInv'
  <1>1. PICK j \in Jobs : Upcoming(t, j) /\ LockKey[j] \notin locks /\ locks' = locks \cup {LockKey[j]}
    BY DEF Acquire
  <1> DEFINE c == [cycle[t] EXCEPT !.pc = "running"]
  <1>2. {"pc", "todo"} \subseteq DOMAIN c /\ c.pc = "running" /\ c.todo = cycle[t].todo
    BY DEF IInv, Shape
  <1>3. cycle' = [cycle EXCEPT ![t] = c]
    BY DEF Acquire
  <1> HIDE DEF c
  <1>4. Shape' /\ Others(t) /\ Holds(t)' /\ Key(t)' = LockKey[j]
    BY <1>1, <1>2, <1>3, Replaces DEF IInv, Upcoming
  <1> QED
    BY <1>1, <1>4, Takes DEF IInv, Upcoming, Holds

LEMMA JobEndsIInv ==
    ASSUME IInv, NEW t \in Threads, NEW status, JobEnds(t, status)
    PROVE  IInv'
  <1> DEFINE j == Head(cycle[t].todo)
             c == [cycle[t] EXCEPT !.pc = "ran", !.status[j] = status]
  <1>1. {"pc", "todo"} \subseteq DOMAIN c /\ c.pc = "ran" /\ c.todo = cycle[t].todo
    BY DEF IInv, Shape
  <1>2. cycle' = [cycle EXCEPT ![t] = c]
    BY DEF JobEnds
  <1> HIDE DEF c
  <1>3. Shape' /\ Others(t) /\ Holds(t)' /\ Key(t)' = LockKey[Head(c.todo)]
    BY <1>1, <1>2, Replaces DEF IInv
  <1>4. LockKey[Head(c.todo)] = Key(t)
    BY <1>1 DEF Key
  <1> QED
    BY <1>3, <1>4, Keeps DEF IInv, JobEnds, Holds

LEMMA ReleaseIInv ==
    ASSUME IInv, NEW t \in Threads, Release(t)
    PROVE  IInv'
  <1> DEFINE c == [cycle[t] EXCEPT !.pc = "next", !.todo = Tail(@)]
  <1>1. {"pc", "todo"} \subseteq DOMAIN c /\ c.pc = "next"
    BY DEF IInv, Shape
  <1>2. cycle' = [cycle EXCEPT ![t] = c]
    BY DEF Release
  <1> HIDE DEF c
  <1>3. Shape' /\ Others(t) /\ ~Holds(t)'
    BY <1>1, <1>2, Replaces DEF IInv
  <1> QED
    BY <1>3, GivesBack DEF IInv, Release, Holds, Key

LEMMA RaisesIInv ==
    ASSUME IInv, NEW t \in Threads, Raises(t)
    PROVE  IInv'
  <1>1. Shape' /\ Others(t) /\ ~Holds(t)'
    BY Replaces DEF IInv, Raises, Idle
  <1> QED
    BY <1>1, GivesBack DEF IInv, Raises, Holds, Key

LEMMA RestartIInv ==
    ASSUME IInv, Restart
    PROVE  IInv'
  BY DEF Restart, IInv, Shape, Locked, Holds, Key, Idle

-----------------------------------------------------------------------------
LEMMA NextIInv ==
    ASSUME IInv, [Next]_vars
    PROVE  IInv'
  <1>1. ASSUME UNCHANGED <<cycle, locks>> PROVE IInv'
    BY <1>1 DEF IInv, Shape, Locked, Holds, Key
  <1>2. CASE UNCHANGED vars
    BY <1>1, <1>2 DEF vars
  <1>3. CASE Tick \/ Start \/ Stop \/ LoopEnds
    BY <1>1, <1>3 DEF Tick, Start, Stop, LoopEnds
  <1>4. CASE Poll
    BY <1>4, Entering DEF Poll, Threads
  <1>5. ASSUME NEW o \in Operators, RunOnce(o) PROVE IInv'
    BY <1>5, Entering DEF RunOnce, Threads
  <1>6. ASSUME NEW o \in Operators, NEW j \in Jobs, NEW limit, NEW kwargs, Trigger(o, j, limit, kwargs)
        PROVE  IInv'
    BY <1>6, Entering DEF Trigger, Threads
  <1>7. ASSUME NEW t \in Threads, CycleStep(t) \/ Fails(t) \/ Raises(t) PROVE IInv'
    BY <1>7, EndCycleIInv, SkipIInv, AcquireIInv, JobEndsIInv, ReleaseIInv, RaisesIInv
    DEF CycleStep, Completes, Fails
  <1>8. CASE Restart
    BY <1>8, RestartIInv
  <1> QED
    BY <1>2, <1>3, <1>4, <1>5, <1>6, <1>7, <1>8 DEF Next

LEMMA Invariant == Spec => []IInv
  BY InitIInv, NextIInv, PTL DEF Spec

(***************************************************************************)
(* Two threads of a process never run jobs with one lock key at the same   *)
(* time (engine.py's acquire, run and release around a job).               *)
(***************************************************************************)
THEOREM NeverTogether == Spec => []MutualExclusion
  <1>1. IInv => MutualExclusion
    BY SameLocked DEF IInv
  <1> QED
    BY <1>1, Invariant, PTL

(***************************************************************************)
(* The keys in the lock manager are those of the running jobs, whatever    *)
(* ended the others: completion, failure, an exception or a restart.       *)
(***************************************************************************)
THEOREM NoKeyLeftBehind == Spec => []LocksHeld
  <1>1. IInv => LocksHeld
    BY SameLocked DEF IInv
  <1> QED
    BY <1>1, Invariant, PTL

-----------------------------------------------------------------------------
(* The limit of a definition.  With one operator, a limit is overridden    *)
(* only while no other override is in force, so that what its cycle will   *)
(* put back is no limit, whichever way the cycle ends.                     *)
Alone == \A o, u \in Operators : o = u

Fields == {"pc", "todo", "trigger", "limit"}

LimitInv ==
    /\ DOMAIN cycle = Threads /\ \A t \in Threads : Fields \subseteq DOMAIN cycle[t]
    /\ DOMAIN params = Jobs /\ \A j \in Jobs : "limit" \in DOMAIN params[j]
    /\ \A t \in Threads : cycle[t].trigger # None =>
           t \in Operators /\ cycle[t].pc # "idle" /\ cycle[t].limit = None
    /\ LimitRestored

LEMMA InitLimit == Init => LimitInv
  BY DEF Init, LimitInv, LimitRestored, Idle, Defaults, Fields

(* A step of a cycle that keeps what the cycle was triggered for.          *)
LEMMA GoesOn ==
    ASSUME LimitInv, NEW t \in Threads, NEW c, cycle' = [cycle EXCEPT ![t] = c], params' = params,
           Fields \subseteq DOMAIN c, c.pc # "idle",
           c.trigger = cycle[t].trigger, c.limit = cycle[t].limit
    PROVE  LimitInv'
  <1>1. DOMAIN cycle' = Threads /\ cycle'[t] = c /\ \A u \in Threads : u # t => cycle'[u] = cycle[u]
    BY DEF LimitInv
  <1> QED
    BY <1>1 DEF LimitInv, LimitRestored, Threads

(* A cycle for the due jobs.                                               *)
LEMMA EntersDue ==
    ASSUME LimitInv, NEW t \in Threads, NEW chosen, cycle[t].pc = "idle",
           Enter(t, chosen, None, None), params' = params
    PROVE  LimitInv'
  <1> DEFINE c == [pc |-> "next", todo |-> ExecutionOrder(chosen),
                   status |-> NoStatus, trigger |-> None, limit |-> None]
  <1>1. /\ cycle' = [cycle EXCEPT ![t] = c]
        /\ Fields \subseteq DOMAIN c /\ c.pc = "next" /\ c.trigger = None
    BY DEF Enter, Fields
  <1> HIDE DEF c
  <1>2. DOMAIN cycle' = Threads /\ cycle'[t] = c /\ \A u \in Threads : u # t => cycle'[u] = cycle[u]
    BY <1>1 DEF LimitInv
  <1>3. cycle[t].trigger = None
    BY DEF LimitInv
  <1> QED
    BY <1>1, <1>2, <1>3 DEF LimitInv, LimitRestored, Threads

LEMMA TriggerLimit ==
    ASSUME Alone, LimitInv, NEW o \in Operators, NEW j \in Jobs, NEW limit, NEW kwargs,
           Trigger(o, j, limit, kwargs)
    PROVE  LimitInv'
  <1> DEFINE c == [pc |-> "next", todo |-> ExecutionOrder(Chosen({j})),
                   status |-> NoStatus, trigger |-> j, limit |-> params[j].limit]
             p == [limit |-> IF limit # None THEN limit ELSE params[j].limit,
                   kwargs |-> IF kwargs # None THEN kwargs ELSE params[j].kwargs]
  <1>1. /\ cycle' = [cycle EXCEPT ![o] = c]
        /\ Fields \subseteq DOMAIN c /\ c.pc = "next" /\ c.trigger = j /\ c.limit = params[j].limit
    BY DEF Trigger, Enter, Fields
  <1>2. params' = [params EXCEPT ![j] = p] /\ "limit" \in DOMAIN p
    BY DEF Trigger
  <1> HIDE DEF c, p
  <1>3. o \in Threads /\ j # None
    BY SchedulerAssumption DEF Threads
  <1>4. \A k \in Jobs : params[k].limit = None
    <2>1. cycle[o].trigger = None
      BY <1>3 DEF LimitInv, Trigger
    <2>2. \A u \in Operators, k \in Jobs : cycle[u].trigger # k
      BY <2>1, SchedulerAssumption DEF Alone
    <2> QED
      BY <2>2 DEF LimitInv, LimitRestored
  <1>5. DOMAIN cycle' = Threads /\ cycle'[o] = c /\ \A u \in Threads : u # o => cycle'[u] = cycle[u]
    BY <1>1, <1>3 DEF LimitInv
  <1>6. DOMAIN params' = Jobs /\ \A k \in Jobs : "limit" \in DOMAIN params'[k]
    BY <1>2 DEF LimitInv
  <1>7. LimitRestored'
    BY <1>1, <1>2, <1>4, <1>5 DEF LimitInv, LimitRestored
  <1> QED
    BY <1>1, <1>3, <1>4, <1>5, <1>6, <1>7 DEF LimitInv

(* However a cycle ends, its definition has no limit then.                 *)
LEMMA EndsLimit ==
    ASSUME Alone, LimitInv, NEW t \in Threads, cycle' = [cycle EXCEPT ![t] = Idle],
           params' = Restored(t)
    PROVE  LimitInv'
  <1>1. DOMAIN cycle' = Threads /\ cycle'[t] = Idle /\ \A u \in Threads : u # t => cycle'[u] = cycle[u]
    BY DEF LimitInv
  <1>2. Fields \subseteq DOMAIN Idle /\ Idle.pc = "idle" /\ Idle.trigger = None
    BY DEF Idle, Fields
  <1>3. DOMAIN params' = Jobs /\ \A j \in Jobs : "limit" \in DOMAIN params'[j]
    BY DEF LimitInv, Restored
  <1>4. LimitRestored'
    <2>1. CASE cycle[t].trigger = None
      BY <1>1, <1>2, <2>1 DEF LimitInv, LimitRestored, Restored, Threads
    <2>2. CASE cycle[t].trigger # None
      <3>1. t \in Operators /\ cycle[t].limit = None
        BY <2>2 DEF LimitInv
      <3>2. ASSUME NEW j \in Jobs PROVE params'[j].limit = None
        <4>1. CASE j = cycle[t].trigger
          BY <2>2, <3>1, <4>1 DEF LimitInv, Restored
        <4>2. CASE j # cycle[t].trigger
          <5>1. \A u \in Operators : cycle[u].trigger # j
            BY <3>1, <4>2 DEF Alone
          <5>2. params'[j] = params[j]
            BY <2>2, <4>2 DEF LimitInv, Restored
          <5> QED
            BY <5>1, <5>2 DEF LimitInv, LimitRestored
        <4> QED
          BY <4>1, <4>2
      <3> QED
        BY <3>2 DEF LimitRestored
    <2> QED
      BY <2>1, <2>2
  <1> QED
    BY <1>1, <1>2, <1>3, <1>4 DEF LimitInv

LEMMA NextLimit ==
    ASSUME Alone, LimitInv, [Next]_vars
    PROVE  LimitInv'
  <1>1. ASSUME UNCHANGED <<cycle, params>> PROVE LimitInv'
    BY <1>1 DEF LimitInv, LimitRestored
  <1>2. CASE UNCHANGED vars \/ Tick \/ Start \/ Stop \/ LoopEnds
    BY <1>1, <1>2 DEF vars, Tick, Start, Stop, LoopEnds
  <1>3. CASE Poll \/ \E o \in Operators : RunOnce(o)
    BY <1>3, EntersDue DEF Poll, RunOnce, Threads
  <1>4. ASSUME NEW o \in Operators, NEW j \in Jobs, NEW limit, NEW kwargs, Trigger(o, j, limit, kwargs)
        PROVE  LimitInv'
    BY <1>4, TriggerLimit
  <1>5. ASSUME NEW t \in Threads, EndCycle(t) \/ Raises(t) PROVE LimitInv'
    BY <1>5, EndsLimit DEF EndCycle, Raises
  <1>6. ASSUME NEW t \in Threads, Skip(t) \/ Acquire(t) \/ Completes(t) \/ Fails(t) \/ Release(t)
        PROVE  LimitInv'
    <2>1. Fields \subseteq DOMAIN cycle[t]
      BY DEF LimitInv
    <2>2. ASSUME NEW j, cycle' = [cycle EXCEPT ![t] = Decide(t, j, "skipped")], params' = params
          PROVE  LimitInv'
      <3> DEFINE c == Decide(t, j, "skipped")
      <3>1. /\ Fields \subseteq DOMAIN c /\ c.pc = "next"
            /\ c.trigger = cycle[t].trigger /\ c.limit = cycle[t].limit
        BY <2>1 DEF Decide, Fields
      <3> HIDE DEF c
      <3>2. cycle' = [cycle EXCEPT ![t] = c]
        BY <2>2 DEF c
      <3> QED
        BY <2>2, <3>1, <3>2, GoesOn
    <2>3. CASE Skip(t)
      BY <2>2, <2>3 DEF Skip
    <2>4. CASE Acquire(t)
      <3> DEFINE c == [cycle[t] EXCEPT !.pc = "running"]
      <3>1. cycle' = [cycle EXCEPT ![t] = c] /\ params' = params
        BY <2>4 DEF Acquire
      <3>2. /\ Fields \subseteq DOMAIN c /\ c.pc = "running"
            /\ c.trigger = cycle[t].trigger /\ c.limit = cycle[t].limit
        BY <2>1 DEF Fields
      <3> HIDE DEF c
      <3> QED
        BY <3>1, <3>2, GoesOn
    <2>5. ASSUME NEW status, JobEnds(t, status) PROVE LimitInv'
      <3> DEFINE c == [cycle[t] EXCEPT !.pc = "ran", !.status[Head(cycle[t].todo)] = status]
      <3>1. cycle' = [cycle EXCEPT ![t] = c] /\ params' = params
        BY <2>5 DEF JobEnds
      <3>2. /\ Fields \subseteq DOMAIN c /\ c.pc = "ran"
            /\ c.trigger = cycle[t].trigger /\ c.limit = cycle[t].limit
        BY <2>1 DEF Fields
      <3> HIDE DEF c
      <3> QED
        BY <3>1, <3>2, GoesOn
    <2>6. CASE Release(t)
      <3> DEFINE c == [cycle[t] EXCEPT !.pc = "next", !.todo = Tail(@)]
      <3>1. cycle' = [cycle EXCEPT ![t] = c] /\ params' = params
        BY <2>6 DEF Release
      <3>2. /\ Fields \subseteq DOMAIN c /\ c.pc = "next"
            /\ c.trigger = cycle[t].trigger /\ c.limit = cycle[t].limit
        BY <2>1 DEF Fields
      <3> HIDE DEF c
      <3> QED
        BY <3>1, <3>2, GoesOn
    <2> QED
      BY <1>6, <2>3, <2>4, <2>5, <2>6 DEF Completes, Fails
  <1>7. CASE Restart
    BY <1>7 DEF Restart, LimitInv, LimitRestored, Idle, Defaults, Fields
  <1> QED
    BY <1>2, <1>3, <1>4, <1>5, <1>6, <1>7 DEF Next, CycleStep

(***************************************************************************)
(* With one operator, no limit outlasts its trigger (manual_trigger.py's   *)
(* finally clause): whether the cycle ended, raised or was restarted, for  *)
(* any jobs and any order of execution.                                    *)
(***************************************************************************)
THEOREM LimitPutBack == ASSUME Alone PROVE Spec => []LimitRestored
  <1>1. LimitInv => LimitRestored
    BY DEF LimitInv
  <1>2. LimitInv /\ [Next]_vars => LimitInv'
    BY NextLimit
  <1> QED
    BY InitLimit, <1>1, <1>2, PTL DEF Spec
-----------------------------------------------------------------------------
(* The order of a cycle.  That the resolver answers in order is what the   *)
(* proof takes from it; the rest is what the engine makes of its answer,   *)
(* one job at a time, while other threads do the same.                     *)
Resolver == ResolvesInOrder /\ RaisesOfCircles

CycleHolds(c) ==
    /\ c \in Cycle
    /\ c.pc # "idle" => Orderly(c.todo)
    /\ c.pc \in {"running", "ran"} => c.todo # <<>> /\ CanRun(Head(c.todo), c.status)

OrderInv ==
    /\ TypeOK
    /\ \A t \in Threads : CycleHolds(cycle[t])

LEMMA HeadFirst ==
    ASSUME NEW order, Orderly(order), order # <<>>
    PROVE  /\ Head(order) \in Jobs
           /\ \A d \in ToSet(DependsOn[Head(order)]) : d \notin ToSet(order)
  <1>1. order \in Seq(Jobs) /\ 1 \in DOMAIN order /\ Head(order) = order[1]
        /\ \A k \in DOMAIN order : 1 <= k
    BY DEF Orderly
  <1>2. \A k \in DOMAIN order : order[k] \notin ToSet(DependsOn[Head(order)])
    BY <1>1 DEF Orderly
  <1> QED
    BY <1>1, <1>2 DEF ToSet

LEMMA TailOrderly ==
    ASSUME NEW order, Orderly(order), order # <<>>
    PROVE  Orderly(Tail(order))
  <1> DEFINE rest == Tail(order)
  <1>1. /\ order \in Seq(Jobs) /\ rest \in Seq(Jobs)
        /\ \A i \in DOMAIN rest : i \in Nat /\ i + 1 \in DOMAIN order /\ rest[i] = order[i + 1]
    BY DEF Orderly
  <1>2. ASSUME NEW i \in DOMAIN rest, NEW k \in DOMAIN rest, i <= k
        PROVE  rest[k] \notin ToSet(DependsOn[rest[i]])
    <2>1. i + 1 <= k + 1
      BY <1>1, <1>2
    <2> QED
      BY <1>1, <2>1 DEF Orderly
  <1> HIDE DEF rest
  <1> QED
    BY <1>1, <1>2 DEF Orderly

LEMMA OrderOfChosen ==
    ASSUME Resolver, NEW S \in SUBSET Jobs, ~Circular(Chosen(S))
    PROVE  Orderly(ExecutionOrder(Chosen(S)))
  BY DEF Resolver, ResolvesInOrder

(* The registry refuses a job that depends on itself.                      *)
LEMMA OneJobIsNoCircle ==
    ASSUME Resolver, NEW j \in Jobs
    PROVE  ~Circular(Chosen({j}))
  <1> SUFFICES ASSUME NEW C \in (SUBSET ({j} \cap ToSet(Registered))) \ {{}},
                      \A k \in C : \E d \in C : d \in ToSet(DependsOn[k])
               PROVE  FALSE
    BY DEF Resolver, RaisesOfCircles
  <1>1. C \subseteq {j} /\ C # {}
    OBVIOUS
  <1>2. PICK k \in C : \E d \in C : d \in ToSet(DependsOn[k])
    BY <1>1
  <1>3. j \in ToSet(DependsOn[j])
    BY <1>1, <1>2
  <1> QED
    BY <1>3, SchedulerAssumption

LEMMA IdleHolds == CycleHolds(Idle)
  BY DEF CycleHolds, Idle, Cycle, NoStatus, Status, Maybe

(* A step that replaces the cycle of t.                                    *)
LEMMA OneCycle ==
    ASSUME OrderInv, NEW t \in Threads, NEW c, CycleHolds(c), cycle' = [cycle EXCEPT ![t] = c]
    PROVE  cycle' \in [Threads -> Cycle] /\ \A u \in Threads : CycleHolds(cycle'[u])
  BY DEF OrderInv, TypeOK, CycleHolds

LEMMA InitOrder == Init => OrderInv
  <1> SUFFICES ASSUME Init PROVE OrderInv
    OBVIOUS
  <1>1. \A t \in Threads : CycleHolds(cycle[t])
    BY IdleHolds DEF Init
  <1>2. cycle \in [Threads -> Cycle]
    BY IdleHolds DEF Init, CycleHolds
  <1>3. Defaults \in Params
    BY DEF Defaults, Params, Maybe
  <1>4. locks \subseteq {LockKey[j] : j \in Jobs} /\ params \in [Jobs -> Params]
    BY <1>3 DEF Init
  <1>5. now \in Time /\ triggers \in 0 .. MaxTriggers /\ faults \in 0 .. MaxFaults
    BY SchedulerAssumption DEF Init, Time
  <1>6. lastRun \in [Jobs -> Maybe(Int)] /\ stopping \in BOOLEAN /\ looping \in BOOLEAN
    BY DEF Init, Maybe
  <1> QED
    BY <1>1, <1>2, <1>4, <1>5, <1>6 DEF OrderInv, TypeOK

LEMMA EntersInOrder ==
    ASSUME Resolver, OrderInv, NEW t \in Threads, NEW S \in SUBSET Jobs,
           NEW trigger \in Maybe(Jobs), NEW limit \in Maybe(Overrides),
           ~Circular(Chosen(S)), Enter(t, Chosen(S), trigger, limit)
    PROVE  cycle' \in [Threads -> Cycle] /\ \A u \in Threads : CycleHolds(cycle'[u])
  <1> DEFINE order == ExecutionOrder(Chosen(S))
             c == [pc |-> "next", todo |-> order, status |-> NoStatus,
                   trigger |-> trigger, limit |-> limit]
  <1>1. Orderly(order)
    BY OrderOfChosen
  <1>2. cycle' = [cycle EXCEPT ![t] = c]
    BY DEF Enter
  <1> HIDE DEF order
  <1>3. order \in Seq(Jobs) /\ NoStatus \in [Jobs -> Status]
    BY <1>1 DEF Orderly, NoStatus, Status
  <1>4. c \in Cycle /\ c.pc = "next" /\ c.todo = order
    BY <1>3 DEF Cycle
  <1> HIDE DEF c
  <1>5. CycleHolds(c)
    BY <1>1, <1>4 DEF CycleHolds
  <1> QED
    BY <1>2, <1>5, OneCycle

(* The cycle of a thread that is inside one, and what a step makes of it.  *)
LEMMA CycleFacts ==
    ASSUME OrderInv, NEW t \in Threads
    PROVE  /\ cycle[t] \in Cycle
           /\ cycle[t].todo \in Seq(Jobs) /\ cycle[t].status \in [Jobs -> Status]
           /\ cycle[t].trigger \in Maybe(Jobs) /\ cycle[t].limit \in Maybe(Overrides)
           /\ cycle[t].pc # "idle" => Orderly(cycle[t].todo)
           /\ Holds(t) =>
                 /\ cycle[t].todo # <<>>
                 /\ Head(cycle[t].todo) \in Jobs
                 /\ CanRun(Head(cycle[t].todo), cycle[t].status)
  BY DEF OrderInv, CycleHolds, Cycle, Holds

LEMMA RestoredType ==
    ASSUME OrderInv, NEW t \in Threads
    PROVE  Restored(t) \in [Jobs -> Params]
  <1>1. params \in [Jobs -> Params] /\ cycle[t].trigger \in Maybe(Jobs)
        /\ cycle[t].limit \in Maybe(Overrides)
    BY CycleFacts DEF OrderInv, TypeOK
  <1>2. CASE cycle[t].trigger = None
    BY <1>1, <1>2 DEF Restored
  <1>3. CASE cycle[t].trigger # None
    <2> DEFINE j == cycle[t].trigger
               p == [params[j] EXCEPT !.limit = cycle[t].limit]
    <2>1. j \in Jobs
      BY <1>1, <1>3 DEF Maybe
    <2>2. p \in Params
      BY <1>1, <2>1 DEF Params
    <2>3. Restored(t) = [params EXCEPT ![j] = p]
      BY <1>3 DEF Restored
    <2> HIDE DEF p
    <2> QED
      BY <1>1, <2>2, <2>3
  <1> QED
    BY <1>2, <1>3

LEMMA PollOrder == ASSUME Resolver, OrderInv, Poll PROVE OrderInv'
  <1> DEFINE S == {j \in Jobs : Due(j, now)}
  <1>1. S \in SUBSET Jobs /\ DueJobs(now) = Chosen(S)
    BY DEF DueJobs
  <1> HIDE DEF S
  <1>2. Loop \in Threads /\ None \in Maybe(Jobs) /\ None \in Maybe(Overrides)
    BY DEF Threads, Maybe
  <1>3. cycle' \in [Threads -> Cycle] /\ \A u \in Threads : CycleHolds(cycle'[u])
    BY <1>1, <1>2, EntersInOrder DEF Poll, Starts
  <1> QED
    BY <1>3 DEF Poll, OrderInv, TypeOK

LEMMA RunOnceOrder ==
    ASSUME Resolver, OrderInv, NEW o \in Operators, RunOnce(o) PROVE OrderInv'
  <1> DEFINE S == {j \in Jobs : Due(j, now)}
  <1>1. S \in SUBSET Jobs /\ DueJobs(now) = Chosen(S)
    BY DEF DueJobs
  <1> HIDE DEF S
  <1>2. o \in Threads /\ None \in Maybe(Jobs) /\ None \in Maybe(Overrides)
    BY DEF Threads, Maybe
  <1>3. cycle' \in [Threads -> Cycle] /\ \A u \in Threads : CycleHolds(cycle'[u])
    BY <1>1, <1>2, EntersInOrder DEF RunOnce, Starts
  <1>4. triggers' \in 0 .. MaxTriggers
    BY SchedulerAssumption DEF RunOnce, OrderInv, TypeOK
  <1> QED
    BY <1>3, <1>4 DEF RunOnce, OrderInv, TypeOK

LEMMA TriggerOrder ==
    ASSUME Resolver, OrderInv, NEW o \in Operators, NEW j \in Jobs,
           NEW limit \in Maybe(Overrides), NEW kwargs \in Maybe(Overrides),
           Trigger(o, j, limit, kwargs)
    PROVE  OrderInv'
  <1> DEFINE p == [limit |-> IF limit # None THEN limit ELSE params[j].limit,
                   kwargs |-> IF kwargs # None THEN kwargs ELSE params[j].kwargs]
  <1>1. params \in [Jobs -> Params] /\ params[j].limit \in Maybe(Overrides)
        /\ params[j].kwargs \in Maybe(Overrides)
    BY DEF OrderInv, TypeOK, Params
  <1>2. p \in Params
    BY <1>1 DEF Params
  <1>3. params' = [params EXCEPT ![j] = p]
    BY DEF Trigger
  <1> HIDE DEF p
  <1>4. params' \in [Jobs -> Params]
    BY <1>1, <1>2, <1>3
  <1>5. o \in Threads /\ j \in Maybe(Jobs) /\ {j} \in SUBSET Jobs
    BY DEF Threads, Maybe
  <1>6. cycle' \in [Threads -> Cycle] /\ \A u \in Threads : CycleHolds(cycle'[u])
    BY <1>1, <1>5, OneJobIsNoCircle, EntersInOrder DEF Trigger
  <1>7. triggers' \in 0 .. MaxTriggers
    BY SchedulerAssumption DEF Trigger, OrderInv, TypeOK
  <1> QED
    BY <1>4, <1>6, <1>7 DEF Trigger, OrderInv, TypeOK

LEMMA EndCycleOrder == ASSUME OrderInv, NEW t \in Threads, EndCycle(t) PROVE OrderInv'
  <1>1. cycle' \in [Threads -> Cycle] /\ \A u \in Threads : CycleHolds(cycle'[u])
    BY IdleHolds, OneCycle DEF EndCycle
  <1>2. params' \in [Jobs -> Params]
    BY RestoredType DEF EndCycle
  <1> QED
    BY <1>1, <1>2 DEF EndCycle, OrderInv, TypeOK

LEMMA SkipOrder == ASSUME OrderInv, NEW t \in Threads, Skip(t) PROVE OrderInv'
  <1>1. PICK j \in Jobs : Upcoming(t, j) /\ cycle' = [cycle EXCEPT ![t] = Decide(t, j, "skipped")]
    BY DEF Skip
  <1> DEFINE c == Decide(t, j, "skipped")
  <1>2. Orderly(cycle[t].todo) /\ cycle[t].todo # <<>> /\ cycle[t] \in Cycle
    BY <1>1, CycleFacts DEF Upcoming
  <1>3. Orderly(Tail(cycle[t].todo)) /\ Tail(cycle[t].todo) \in Seq(Jobs)
    BY <1>2, TailOrderly DEF Orderly
  <1>4. c \in Cycle /\ c.pc = "next" /\ c.todo = Tail(cycle[t].todo)
    BY <1>2, <1>3 DEF Decide, Cycle, Status
  <1>5. cycle' = [cycle EXCEPT ![t] = c]
    BY <1>1
  <1> HIDE DEF c
  <1>6. CycleHolds(c)
    BY <1>3, <1>4 DEF CycleHolds
  <1>7. cycle' \in [Threads -> Cycle] /\ \A u \in Threads : CycleHolds(cycle'[u])
    BY <1>5, <1>6, OneCycle
  <1> QED
    BY <1>7 DEF Skip, OrderInv, TypeOK

LEMMA AcquireOrder == ASSUME OrderInv, NEW t \in Threads, Acquire(t) PROVE OrderInv'
  <1>1. PICK j \in Jobs : /\ Upcoming(t, j) /\ CanRun(j, cycle[t].status)
                          /\ locks' = locks \cup {LockKey[j]}
    BY DEF Acquire
  <1> DEFINE c == [cycle[t] EXCEPT !.pc = "running"]
  <1>2. Orderly(cycle[t].todo) /\ cycle[t].todo # <<>> /\ cycle[t] \in Cycle
        /\ j = Head(cycle[t].todo)
    BY <1>1, CycleFacts DEF Upcoming
  <1>3. /\ c \in Cycle /\ c.pc = "running" /\ c.todo = cycle[t].todo
        /\ c.status = cycle[t].status
    BY <1>2 DEF Cycle
  <1>4. cycle' = [cycle EXCEPT ![t] = c]
    BY DEF Acquire
  <1> HIDE DEF c
  <1>5. CycleHolds(c)
    BY <1>1, <1>2, <1>3 DEF CycleHolds
  <1>6. cycle' \in [Threads -> Cycle] /\ \A u \in Threads : CycleHolds(cycle'[u])
    BY <1>4, <1>5, OneCycle
  <1>7. locks' \subseteq {LockKey[k] : k \in Jobs}
    BY <1>1 DEF OrderInv, TypeOK
  <1> QED
    BY <1>6, <1>7 DEF Acquire, OrderInv, TypeOK

(* What a job depends on are jobs.                                         *)
LEMMA DependenciesAreJobs == ASSUME NEW j \in Jobs PROVE ToSet(DependsOn[j]) \subseteq Jobs
  <1>1. DependsOn[j] \in Seq(Jobs)
    BY SchedulerAssumption
  <1>2. \A i \in DOMAIN DependsOn[j] : DependsOn[j][i] \in Jobs
    BY <1>1
  <1> QED
    BY <1>2 DEF ToSet

(* A job's own end is not news to what it depends on.                      *)
LEMMA JobEndsOrder ==
    ASSUME OrderInv, NEW t \in Threads, NEW status \in {"completed", "failed"},
           JobEnds(t, status), faults' \in 0 .. MaxFaults
    PROVE  OrderInv'
  <1> DEFINE j == Head(cycle[t].todo)
             c == [cycle[t] EXCEPT !.pc = "ran", !.status[j] = status]
  <1>1. /\ cycle[t] \in Cycle /\ Orderly(cycle[t].todo) /\ cycle[t].todo # <<>>
        /\ j \in Jobs /\ CanRun(j, cycle[t].status)
        /\ cycle[t].status \in [Jobs -> Status]
    BY CycleFacts DEF JobEnds, Holds
  <1>2. \A d \in ToSet(DependsOn[j]) : d # j
    <2>1. j \in ToSet(cycle[t].todo)
      BY <1>1 DEF Orderly, ToSet
    <2> QED
      BY <1>1, <2>1, HeadFirst
  <1>3. cycle' = [cycle EXCEPT ![t] = c] /\ lastRun' = [lastRun EXCEPT ![j] = now]
    BY DEF JobEnds
  <1>4. lastRun' \in [Jobs -> Maybe(Int)]
    <2>1. now \in Maybe(Int)
      BY SchedulerAssumption DEF OrderInv, TypeOK, Time, Maybe
    <2> HIDE DEF j
    <2> QED
      BY <1>1, <1>3, <2>1 DEF OrderInv, TypeOK
  <1>5. /\ c.pc = "ran" /\ c.todo = cycle[t].todo
        /\ c.status = [cycle[t].status EXCEPT ![j] = status]
        /\ c.trigger = cycle[t].trigger /\ c.limit = cycle[t].limit
        /\ c \in Cycle
    <2>1. [cycle[t].status EXCEPT ![j] = status] \in [Jobs -> Status]
      BY <1>1 DEF Status
    <2> HIDE DEF j
    <2> QED
      BY <1>1, <2>1 DEF Cycle
  <1> HIDE DEF c
  <1>6. CanRun(j, c.status)
    <2>1. \A d \in Jobs : d # j => c.status[d] = cycle[t].status[d]
      BY <1>1, <1>5
    <2>2. ToSet(DependsOn[j]) \subseteq Jobs
      BY <1>1, DependenciesAreJobs
    <2> QED
      BY <1>1, <1>2, <2>1, <2>2 DEF CanRun
  <1>7. CycleHolds(c)
    BY <1>1, <1>5, <1>6 DEF CycleHolds
  <1>8. cycle' \in [Threads -> Cycle] /\ \A u \in Threads : CycleHolds(cycle'[u])
    BY <1>3, <1>7, OneCycle
  <1> QED
    BY <1>4, <1>8 DEF JobEnds, OrderInv, TypeOK

LEMMA ReleaseOrder == ASSUME OrderInv, NEW t \in Threads, Release(t) PROVE OrderInv'
  <1> DEFINE c == [cycle[t] EXCEPT !.pc = "next", !.todo = Tail(@)]
  <1>1. cycle[t] \in Cycle /\ Orderly(cycle[t].todo) /\ cycle[t].todo # <<>>
    BY CycleFacts DEF Release, Holds
  <1>2. Orderly(Tail(cycle[t].todo)) /\ Tail(cycle[t].todo) \in Seq(Jobs)
    BY <1>1, TailOrderly DEF Orderly
  <1>3. c \in Cycle /\ c.pc = "next" /\ c.todo = Tail(cycle[t].todo)
    BY <1>1, <1>2 DEF Cycle
  <1>4. cycle' = [cycle EXCEPT ![t] = c]
    BY DEF Release
  <1> HIDE DEF c
  <1>5. CycleHolds(c)
    BY <1>2, <1>3 DEF CycleHolds
  <1>6. cycle' \in [Threads -> Cycle] /\ \A u \in Threads : CycleHolds(cycle'[u])
    BY <1>4, <1>5, OneCycle
  <1> QED
    BY <1>6 DEF Release, OrderInv, TypeOK

LEMMA RaisesOrder == ASSUME OrderInv, NEW t \in Threads, Raises(t) PROVE OrderInv'
  <1>1. cycle' \in [Threads -> Cycle] /\ \A u \in Threads : CycleHolds(cycle'[u])
    BY IdleHolds, OneCycle DEF Raises
  <1>2. params' \in [Jobs -> Params]
    BY RestoredType DEF Raises
  <1>3. faults' \in 0 .. MaxFaults
    BY SchedulerAssumption DEF Raises, OrderInv, TypeOK
  <1> QED
    BY <1>1, <1>2, <1>3 DEF Raises, OrderInv, TypeOK

LEMMA RestartOrder == ASSUME OrderInv, Restart PROVE OrderInv'
  <1>1. cycle' \in [Threads -> Cycle] /\ \A u \in Threads : CycleHolds(cycle'[u])
    BY IdleHolds DEF Restart, CycleHolds
  <1>2. Defaults \in Params
    BY DEF Defaults, Params, Maybe
  <1>3. faults' \in 0 .. MaxFaults
    BY SchedulerAssumption DEF Restart, OrderInv, TypeOK
  <1> QED
    BY <1>1, <1>2, <1>3 DEF Restart, OrderInv, TypeOK, Maybe

LEMMA NextOrder ==
    ASSUME Resolver, OrderInv, [Next]_vars
    PROVE  OrderInv'
  <1>1. CASE UNCHANGED vars \/ Start \/ Stop \/ LoopEnds
    BY <1>1 DEF OrderInv, TypeOK, vars, Start, Stop, LoopEnds
  <1>2. CASE Tick
    BY <1>2, SchedulerAssumption DEF OrderInv, TypeOK, Tick, Time
  <1>3. CASE Poll
    BY <1>3, PollOrder
  <1>4. ASSUME NEW o \in Operators, RunOnce(o) PROVE OrderInv'
    BY <1>4, RunOnceOrder
  <1>5. ASSUME NEW o \in Operators, NEW j \in Jobs, NEW limit \in Maybe(Overrides),
               NEW kwargs \in Maybe(Overrides), Trigger(o, j, limit, kwargs)
        PROVE  OrderInv'
    BY <1>5, TriggerOrder
  <1>6. ASSUME NEW t \in Threads, Completes(t) PROVE OrderInv'
    <2>1. faults' \in 0 .. MaxFaults
      BY <1>6 DEF Completes, OrderInv, TypeOK
    <2> QED
      BY <1>6, <2>1, JobEndsOrder DEF Completes
  <1>7. ASSUME NEW t \in Threads, Fails(t) PROVE OrderInv'
    <2>1. faults' \in 0 .. MaxFaults
      BY <1>7, SchedulerAssumption DEF Fails, OrderInv, TypeOK
    <2> QED
      BY <1>7, <2>1, JobEndsOrder DEF Fails
  <1>8. ASSUME NEW t \in Threads, CycleStep(t) \/ Raises(t) PROVE OrderInv'
    BY <1>6, <1>8, EndCycleOrder, SkipOrder, AcquireOrder, ReleaseOrder, RaisesOrder DEF CycleStep
  <1>9. CASE Restart
    BY <1>9, RestartOrder
  <1> QED
    BY <1>1, <1>2, <1>3, <1>4, <1>5, <1>7, <1>8, <1>9 DEF Next

LEMMA OrderInvariant == ASSUME Resolver PROVE Spec => []OrderInv
  <1>1. OrderInv /\ [Next]_vars => OrderInv'
    BY NextOrder
  <1> QED
    BY InitOrder, <1>1, PTL DEF Spec

(***************************************************************************)
(* With a resolver that answers in order, the clock, the table of locks,   *)
(* the definitions and the cycles keep their types.                        *)
(***************************************************************************)
THEOREM TypeCorrect == ASSUME Resolver PROVE Spec => []TypeOK
  <1>1. OrderInv => TypeOK
    BY DEF OrderInv
  <1> QED
    BY <1>1, OrderInvariant, PTL

(***************************************************************************)
(* With such a resolver, a running job waits for nothing that its cycle    *)
(* has still to run, and nothing it depends on has failed or was skipped   *)
(* (engine.py's loop over the resolved order), whatever other threads run, *)
(* override, fail or restart meanwhile.                                    *)
(***************************************************************************)
THEOREM DependenciesRunFirst == ASSUME Resolver PROVE Spec => []DependenciesFirst
  <1>1. OrderInv => DependenciesFirst
    <2> SUFFICES ASSUME OrderInv, NEW t \in Threads, Holds(t),
                        NEW d \in ToSet(DependsOn[Head(cycle[t].todo)])
                 PROVE  /\ d \notin ToSet(cycle[t].todo)
                        /\ cycle[t].status[d] \in {"undecided", "completed"}
      BY DEF DependenciesFirst, Holding
    <2>1. Orderly(cycle[t].todo) /\ cycle[t].todo # <<>>
          /\ CanRun(Head(cycle[t].todo), cycle[t].status)
      BY CycleFacts DEF Holds
    <2> QED
      BY <2>1, HeadFirst DEF CanRun
  <1> QED
    BY <1>1, OrderInvariant, PTL
=============================================================================
