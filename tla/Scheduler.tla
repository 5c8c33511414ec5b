----------------------------- MODULE Scheduler ------------------------------
(***************************************************************************)
(* The orchestrator of one process: a registry of jobs with dependencies,  *)
(* an engine that runs the due jobs of a cycle in dependency order, the    *)
(* in-memory locks, the polling loop that starts a cycle now and then, and *)
(* the threads of operators that trigger a job by hand meanwhile.  The     *)
(* loop and the triggers share the last run times, the locks and the job   *)
(* definitions.                                                            *)
(***************************************************************************)
EXTENDS Integers, Sequences, SequencesExt, DependencyResolver

(* Jobs, Registered and DependsOn, of the enabled jobs, are the resolver's. *)
CONSTANTS
    LockKey,       \* lock_key of each job
    Schedule,      \* schedule_type of each job
    Interval,      \* interval_seconds of each job
    Loop,          \* the thread of the polling loop
    Operators,     \* threads that trigger jobs
    Overrides,     \* values of an override, for the limit and the arguments
    None,          \* no value
    MaxTime,       \* bound on the clock
    MaxTriggers,   \* bound on the triggers
    MaxFaults      \* bound on failed jobs, escaping exceptions and restarts

VARIABLES
    now,       \* datetime.now()
    lastRun,   \* last_run_times
    locks,     \* the keys held in the lock manager
    params,    \* default_limit and default_kwargs of each definition
    cycle,     \* the cycle each thread is in
    stopping,  \* the stop event of the loop
    looping,   \* the loop's thread is alive
    triggers,  \* triggers so far
    faults     \* faults so far

vars == <<now, lastRun, locks, params, cycle, stopping, looping, triggers, faults>>

-----------------------------------------------------------------------------
Threads == {Loop} \cup Operators
Time == 0 .. MaxTime
Maybe(S) == S \cup {None}

ASSUME SchedulerAssumption ==
    /\ MaxTime \in Nat /\ MaxTriggers \in Nat /\ MaxFaults \in Nat
    /\ None \notin Int \cup Jobs \cup Overrides
    /\ Loop \notin Operators
    /\ Registered \in Seq(Jobs) /\ ToSet(Registered) = Jobs
    /\ DependsOn \in [Jobs -> Seq(Jobs)] /\ \A j \in Jobs : j \notin ToSet(DependsOn[j])
    /\ Schedule \in [Jobs -> {"interval", "manual_only", "startup_once"}]
    /\ Interval \in [Jobs -> Nat]

(* get_standard_job_definitions: name, minutes between two runs, and what  *)
(* it depends on, in the order in which bootstrap registers them.  All are *)
(* interval jobs, each with a lock key of its own.                         *)
StandardJobs ==
    << [job |-> "source_collect",         minutes |-> 360,  after |-> {}],
       [job |-> "source_normalization",   minutes |-> 60,   after |-> {"source_collect"}],
       [job |-> "review_queue_refresh",   minutes |-> 120,  after |-> {"source_normalization"}],
       [job |-> "alias_reprocess",        minutes |-> 1440, after |-> {}],
       [job |-> "market_evaluation",      minutes |-> 120,  after |-> {"source_normalization"}],
       [job |-> "profitability_scoring",  minutes |-> 120,  after |-> {"market_evaluation"}],
       [job |-> "ranking_decision",       minutes |-> 120,  after |-> {"profitability_scoring"}],
       [job |-> "handoff_control",        minutes |-> 120,  after |-> {"ranking_decision"}],
       [job |-> "research_candidate",     minutes |-> 60,   after |-> {"source_collect"}],
       [job |-> "listing_readiness",      minutes |-> 60,   after |-> {"research_candidate"}],
       [job |-> "listing_execution",      minutes |-> 120,  after |-> {"listing_readiness"}],
       [job |-> "monitoring_revise",      minutes |-> 240,  after |-> {}],
       [job |-> "listing_sync_recovery",  minutes |-> 720,  after |-> {}],
       [job |-> "housekeeping",           minutes |-> 1440, after |-> {}],
       [job |-> "escalation_reminder",    minutes |-> 5,    after |-> {}] >>

(* They depend on jobs registered before them: no cycle, nothing missing.  *)
ASSUME StandardJobsOrdered ==
    \A i \in DOMAIN StandardJobs :
        StandardJobs[i].after \subseteq {StandardJobs[j].job : j \in 1 .. i - 1}

Defaults == [limit |-> None, kwargs |-> None]
Params == [limit: Maybe(Overrides), kwargs: Maybe(Overrides)]

Status == {"undecided", "completed", "failed", "skipped"}

(* A thread inside run_cycle: the jobs it has still to look at, in order,  *)
(* what became of the others, and for a trigger the job and the limit it   *)
(* will put back.                                                          *)
Cycle ==
    [pc: {"idle", "next", "running", "ran"},
     todo: Seq(Jobs), status: [Jobs -> Status],
     trigger: Maybe(Jobs), limit: Maybe(Overrides)]

NoStatus == [j \in Jobs |-> "undecided"]
Idle == [pc |-> "idle", todo |-> <<>>, status |-> NoStatus, trigger |-> None, limit |-> None]

TypeOK ==
    /\ now \in Time
    /\ lastRun \in [Jobs -> Maybe(Int)]
    /\ locks \subseteq {LockKey[j] : j \in Jobs}
    /\ params \in [Jobs -> Params]
    /\ cycle \in [Threads -> Cycle]
    /\ stopping \in BOOLEAN
    /\ looping \in BOOLEAN
    /\ triggers \in 0 .. MaxTriggers
    /\ faults \in 0 .. MaxFaults

Init ==
    /\ now = 0
    /\ lastRun = [j \in Jobs |-> None]
    /\ locks = {}
    /\ params = [j \in Jobs |-> Defaults]
    /\ cycle = [t \in Threads |-> Idle]
    /\ stopping = FALSE
    /\ looping = FALSE
    /\ triggers = 0
    /\ faults = 0

-----------------------------------------------------------------------------
(* Which jobs run, and in which order. *)

(* _identify_due_jobs; a run at startup and a first run are the same. *)
Due(j, t) ==
    /\ Schedule[j] # "manual_only"
    /\ \/ lastRun[j] = None
       \/ Schedule[j] = "interval" /\ Interval[j] > 0 /\ t >= lastRun[j] + Interval[j]

DueJobs(t) == Chosen({j \in Jobs : Due(j, t)})

(* A cycle without due jobs returns at once, one with a circle raises.     *)
Starts(chosen) == chosen # <<>> /\ ~Circular(chosen)

(* _can_run: what it depends on and this cycle decided has completed. *)
CanRun(j, status) == \A d \in ToSet(DependsOn[j]) : status[d] \in {"undecided", "completed"}

-----------------------------------------------------------------------------
(* The clock, the loop and the triggers. *)

Tick ==
    /\ now < MaxTime
    /\ now' = now + 1
    /\ UNCHANGED <<lastRun, locks, params, cycle, stopping, looping, triggers, faults>>

(* start() does nothing while the old thread is alive, even if it is on    *)
(* its way out.                                                            *)
Start ==
    /\ ~looping
    /\ looping' = TRUE
    /\ stopping' = FALSE
    /\ UNCHANGED <<now, lastRun, locks, params, cycle, triggers, faults>>

Stop ==
    /\ looping
    /\ ~stopping
    /\ stopping' = TRUE
    /\ UNCHANGED <<now, lastRun, locks, params, cycle, looping, triggers, faults>>

LoopEnds ==
    /\ looping /\ stopping
    /\ cycle[Loop].pc = "idle"
    /\ looping' = FALSE
    /\ UNCHANGED <<now, lastRun, locks, params, cycle, stopping, triggers, faults>>

(* Mutated form: the jobs of a cycle stay in the order of registration.    *)
EnterAsRegistered(t, chosen, trigger, limit) ==
    cycle' = [cycle EXCEPT ![t] = [pc |-> "next", todo |-> chosen,
                                   status |-> NoStatus, trigger |-> trigger, limit |-> limit]]

Enter(t, chosen, trigger, limit) ==
    cycle' = [cycle EXCEPT ![t] = [pc |-> "next", todo |-> ExecutionOrder(chosen),
                                   status |-> NoStatus, trigger |-> trigger, limit |-> limit]]

(* The loop starts a cycle; one that does not start changes nothing. *)
Poll ==
    /\ looping /\ ~stopping
    /\ cycle[Loop].pc = "idle"
    /\ Starts(DueJobs(now))
    /\ Enter(Loop, DueJobs(now), None, None)
    /\ UNCHANGED <<now, lastRun, locks, params, stopping, looping, triggers, faults>>

(* run_once: a cycle of the due jobs in another thread than the loop's. *)
RunOnce(o) ==
    /\ triggers < MaxTriggers
    /\ triggers' = triggers + 1
    /\ cycle[o].pc = "idle"
    /\ Starts(DueJobs(now))
    /\ Enter(o, DueJobs(now), None, None)
    /\ UNCHANGED <<now, lastRun, locks, params, stopping, looping, faults>>

(* ManualTrigger.trigger overrides the definition, for every thread, and   *)
(* runs a cycle that is forced to this job.                                *)
Trigger(o, j, limit, kwargs) ==
    /\ triggers < MaxTriggers
    /\ triggers' = triggers + 1
    /\ cycle[o].pc = "idle"
    /\ params' = [params EXCEPT ![j] =
                    [limit |-> IF limit # None THEN limit ELSE @.limit,
                     kwargs |-> IF kwargs # None THEN kwargs ELSE @.kwargs]]
    /\ Enter(o, Chosen({j}), j, params[j].limit)
    /\ UNCHANGED <<now, lastRun, locks, stopping, looping, faults>>

(* Mutated form: the limit is not put back either. *)
RestoredNothing(t) == params

(* The finally clause of a trigger puts the limit back; the arguments were *)
(* updated in place, and putting the same object back changes nothing.     *)
Restored(t) ==
    IF cycle[t].trigger = None THEN params
    ELSE [params EXCEPT ![cycle[t].trigger].limit = cycle[t].limit]

EndCycle(t) ==
    /\ cycle[t].pc = "next"
    /\ cycle[t].todo = <<>>
    /\ cycle' = [cycle EXCEPT ![t] = Idle]
    /\ params' = Restored(t)
    /\ UNCHANGED <<now, lastRun, locks, stopping, looping, triggers, faults>>

-----------------------------------------------------------------------------
(* One job of a cycle. *)

Upcoming(t, j) ==
    /\ cycle[t].pc = "next"
    /\ cycle[t].todo # <<>>
    /\ j = Head(cycle[t].todo)

Decide(t, j, status) ==
    [cycle[t] EXCEPT !.pc = "next", !.todo = Tail(@), !.status[j] = status]

(* A dependency did not complete, or the lock is held by another thread. *)
Skip(t) ==
    /\ \E j \in Jobs :
        /\ Upcoming(t, j)
        /\ ~CanRun(j, cycle[t].status) \/ LockKey[j] \in locks
        /\ cycle' = [cycle EXCEPT ![t] = Decide(t, j, "skipped")]
    /\ UNCHANGED <<now, lastRun, locks, params, stopping, looping, triggers, faults>>

(* Mutated form: the result of acquire is ignored. *)
AcquireAnyway(t) ==
    /\ \E j \in Jobs :
        /\ Upcoming(t, j)
        /\ CanRun(j, cycle[t].status)
        /\ locks' = locks \cup {LockKey[j]}
    /\ cycle' = [cycle EXCEPT ![t].pc = "running"]
    /\ UNCHANGED <<now, lastRun, params, stopping, looping, triggers, faults>>

Acquire(t) ==
    /\ \E j \in Jobs :
        /\ Upcoming(t, j)
        /\ CanRun(j, cycle[t].status)
        /\ LockKey[j] \notin locks
        /\ locks' = locks \cup {LockKey[j]}
    /\ cycle' = [cycle EXCEPT ![t].pc = "running"]
    /\ UNCHANGED <<now, lastRun, params, stopping, looping, triggers, faults>>

(* The runner returned or raised: its status and the time are recorded. *)
JobEnds(t, status) ==
    /\ cycle[t].pc = "running"
    /\ LET j == Head(cycle[t].todo) IN
        /\ cycle' = [cycle EXCEPT ![t] = [cycle[t] EXCEPT !.pc = "ran", !.status[j] = status]]
        /\ lastRun' = [lastRun EXCEPT ![j] = now]
    /\ UNCHANGED <<now, locks, params, stopping, looping, triggers>>

Completes(t) == JobEnds(t, "completed") /\ UNCHANGED faults
Fails(t) == JobEnds(t, "failed") /\ faults < MaxFaults /\ faults' = faults + 1

Release(t) ==
    /\ cycle[t].pc = "ran"
    /\ locks' = locks \ {LockKey[Head(cycle[t].todo)]}
    /\ cycle' = [cycle EXCEPT ![t].pc = "next", ![t].todo = Tail(@)]
    /\ UNCHANGED <<now, lastRun, params, stopping, looping, triggers, faults>>

(* Mutated form: the lock is not released on the way out. *)
RaisesKeepingLock(t) ==
    /\ cycle[t].pc = "running"
    /\ faults < MaxFaults
    /\ faults' = faults + 1
    /\ cycle' = [cycle EXCEPT ![t] = Idle]
    /\ params' = Restored(t)
    /\ UNCHANGED <<now, lastRun, locks, stopping, looping, triggers>>

(* The job failed and notifying of it raised again: the exception leaves   *)
(* run_cycle through the finally clause, no time is recorded, and the rest *)
(* of the cycle is lost.                                                   *)
Raises(t) ==
    /\ cycle[t].pc = "running"
    /\ faults < MaxFaults
    /\ faults' = faults + 1
    /\ locks' = locks \ {LockKey[Head(cycle[t].todo)]}
    /\ cycle' = [cycle EXCEPT ![t] = Idle]
    /\ params' = Restored(t)
    /\ UNCHANGED <<now, lastRun, stopping, looping, triggers>>

(* Locks, times and definitions live in memory. *)
Restart ==
    /\ faults < MaxFaults
    /\ faults' = faults + 1
    /\ lastRun' = [j \in Jobs |-> None]
    /\ locks' = {}
    /\ params' = [j \in Jobs |-> Defaults]
    /\ cycle' = [t \in Threads |-> Idle]
    /\ stopping' = FALSE
    /\ looping' = FALSE
    /\ UNCHANGED <<now, triggers>>

CycleStep(t) ==
    \/ EndCycle(t)
    \/ Skip(t)
    \/ Acquire(t)
    \/ Completes(t)
    \/ Release(t)

-----------------------------------------------------------------------------
Next ==
    \/ Tick \/ Start \/ Stop \/ LoopEnds \/ Poll
    \/ \E o \in Operators : RunOnce(o)
    \/ \E o \in Operators, j \in Jobs, limit, kwargs \in Maybe(Overrides) :
          Trigger(o, j, limit, kwargs)
    \/ \E t \in Threads : CycleStep(t) \/ Fails(t) \/ Raises(t)
    \/ Restart

Spec == Init /\ [][Next]_vars

(* The loop polls and the threads go on; runners return.  Nothing obliges  *)
(* anybody to trigger or to fail.                                          *)
FairSpec ==
    /\ Spec
    /\ WF_vars(Poll)
    /\ \A t \in Threads : WF_vars(CycleStep(t))
-----------------------------------------------------------------------------
(* PROPERTIES *)

Holds(t) == cycle[t].pc \in {"running", "ran"}
Holding(t, j) == Holds(t) /\ j = Head(cycle[t].todo)

(***************************************************************************)
(* Jobs with the same lock key never run in two threads of a process at    *)
(* the same time, whether the loop or an operator started them.            *)
(***************************************************************************)
MutualExclusion ==
    \A t, u \in Threads :
        t # u /\ Holds(t) /\ Holds(u) =>
            LockKey[Head(cycle[t].todo)] # LockKey[Head(cycle[u].todo)]

(***************************************************************************)
(* The keys held are exactly those of the jobs that are running: no way    *)
(* out of a cycle, an escaping exception included, leaves a key behind.    *)
(***************************************************************************)
LocksHeld == locks = {LockKey[Head(cycle[t].todo)] : t \in {u \in Threads : Holds(u)}}

(***************************************************************************)
(* A job runs only after every job of the same cycle it depends on has     *)
(* completed, in whatever order the jobs were registered.                  *)
(***************************************************************************)
DependenciesFirst ==
    \A t \in Threads, j \in Jobs :
        Holding(t, j) =>
            \A d \in ToSet(DependsOn[j]) :
                /\ d \notin ToSet(cycle[t].todo)
                /\ cycle[t].status[d] \in {"undecided", "completed"}

(***************************************************************************)
(* An operator's limit lasts as long as the trigger: with one operator,    *)
(* no other way out of the cycle leaves it in the shared definition.       *)
(***************************************************************************)
LimitRestored ==
    \A j \in Jobs :
        (\A o \in Operators : cycle[o].trigger # j) => params[j].limit = None

(***************************************************************************)
(* While the loop is on, a job that is due runs, although its key may be   *)
(* held, a dependency may fail and an exception may cut the cycle short.   *)
(***************************************************************************)
DueJobRuns ==
    \A j \in Jobs :
        (looping /\ ~stopping /\ Due(j, now)) ~>
            ((\E t \in Threads : Holding(t, j)) \/ stopping \/ ~looping)

(***************************************************************************)
(* DOCUMENTED, AND NOT KEPT.  A trigger overrides the definition of its    *)
(* job only while it runs ("Temporarily override").                        *)
(***************************************************************************)
OverridesTemporary ==
    (\A t \in Threads : cycle[t].pc = "idle") => \A j \in Jobs : params[j] = Defaults
=============================================================================
