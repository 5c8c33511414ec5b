---------------------------- MODULE MCScheduler -----------------------------
(***************************************************************************)
(* A small registry for TLC: a collecting job, a research job that depends *)
(* on it, and a listing job that depends on both, registered before them.  *)
(***************************************************************************)
EXTENDS Scheduler

CONSTANTS collect, research, listing

MCJobs == {collect, research, listing}
MCRegistered == <<listing, collect, research>>
MCDependsOn ==
    [j \in MCJobs |-> CASE j = listing -> <<research, collect>>
                        [] j = research -> <<collect>>
                        [] OTHER -> <<>>]
MCLockKey == [j \in MCJobs |-> j]
MCSchedule == [j \in MCJobs |-> "interval"]
MCInterval == [j \in MCJobs |-> 1]

-----------------------------------------------------------------------------
(* Every registry of these jobs that register() can be given: each name    *)
(* once, none that depends on itself; a dependency may be unknown, and a   *)
(* circle of two or three is accepted.                                     *)
Registries ==
    SetToAllKPermutations(MCJobs) \X
        {d \in [MCJobs -> SetToAllKPermutations(MCJobs)] : \A j \in MCJobs : j \notin ToSet(d[j])}

Resolver(registered, dependsOn) ==
    INSTANCE DependencyResolver
        WITH Jobs <- MCJobs, Registered <- registered, DependsOn <- dependsOn

(* Of each of them, and whatever jobs are due, the resolver orders the due *)
(* jobs after what they depend on, or raises, and only of a circle.        *)
ASSUME ResolverSound ==
    \A r \in Registries :
        Resolver(r[1], r[2])!ResolvesInOrder /\ Resolver(r[1], r[2])!RaisesOfCircles
=============================================================================
