------------------------- MODULE DependencyResolver -------------------------
(***************************************************************************)
(* In which order the chosen jobs of a registry run: the depth-first       *)
(* search of JobDependencyResolver, which puts a job after those it        *)
(* depends on and raises when it comes back to a job it has not finished.  *)
(***************************************************************************)
EXTENDS Naturals, Sequences, SequencesExt

CONSTANTS
    Jobs,        \* names of jobs
    Registered,  \* the jobs in the order of their registration
    DependsOn    \* depends_on of each job, a sequence

(* The registered jobs of a set, in the order of their registration.       *)
Chosen(S) == SelectSeq(Registered, LAMBDA j : j \in S)

Found == [order: Seq(Jobs), circular: BOOLEAN]
Nothing == [order |-> <<>>, circular |-> FALSE]

(* What j depends on among the chosen jobs; the others are taken as done.  *)
Needed(j, chosen) == SelectSeq(DependsOn[j], LAMBDA d : d \in ToSet(chosen))

(* resolve_execution_order: the order's jobs are those with a permanent    *)
(* mark, the open ones those with a temporary mark.  Nothing is visited    *)
(* after the exception.                                                    *)
Resolution(chosen) ==
    LET visit[j \in Jobs, open \in SUBSET Jobs, f \in Found] ==
            IF f.circular \/ j \in ToSet(f.order) THEN f
            ELSE IF j \in open THEN [f EXCEPT !.circular = TRUE]
            ELSE LET g == FoldLeft(LAMBDA h, d : visit[d, open \cup {j}, h], f, Needed(j, chosen))
                 IN IF g.circular THEN g ELSE [g EXCEPT !.order = Append(@, j)]
    IN FoldLeft(LAMBDA f, j : visit[j, {}, f], Nothing, chosen)

ExecutionOrder(chosen) == Resolution(chosen).order
Circular(chosen) == Resolution(chosen).circular

-----------------------------------------------------------------------------
(* Nobody comes before what it depends on.                                 *)
Orderly(order) ==
    /\ order \in Seq(Jobs)
    /\ \A i, k \in DOMAIN order : i <= k => order[k] \notin ToSet(DependsOn[order[i]])

(***************************************************************************)
(* Whatever jobs are due, the resolver raises or answers with all of them, *)
(* each once and after those it depends on.                                *)
(***************************************************************************)
ResolvesInOrder ==
    \A S \in SUBSET Jobs :
        LET chosen == Chosen(S)
            order == ExecutionOrder(chosen) IN
        ~Circular(chosen) =>
            /\ Orderly(order)
            /\ ToSet(order) = S \cap ToSet(Registered) /\ Len(order) = Len(chosen)

(***************************************************************************)
(* It raises of a circle only: among the due jobs there are some that all  *)
(* wait for one another.  Two ways to the same dependency are not one.     *)
(***************************************************************************)
RaisesOfCircles ==
    \A S \in SUBSET Jobs :
        Circular(Chosen(S)) <=>
            \E C \in (SUBSET (S \cap ToSet(Registered))) \ {{}} :
                \A j \in C : \E d \in C : d \in ToSet(DependsOn[j])
=============================================================================
