----------------------------- MODULE Discovery -----------------------------
(***************************************************************************)
(* Source items, the canonical candidates they are matched to, and who     *)
(* raises and lowers a candidate's review flag: the normalizer when an     *)
(* item arrives, the refinement job (run_refinement_job), which looks at   *)
(* the items under review again, and the operators of the review queue.    *)
(*                                                                         *)
(* An item is its normalized title, a set of words, and its identifiers; a *)
(* candidate is named by the item it was made from, whose title and        *)
(* identifiers it keeps.  Capacity stands for the variations that exclude  *)
(* each other (edition and region are compared alike).  A title is found   *)
(* in another one when its words are among the other's.  The job reads     *)
(* through two sessions: the matcher's, which sees what is committed, and  *)
(* its own, whose rows stay as it first loaded them once it has changed    *)
(* them, and which writes at the end what then differs.  Nobody in src/    *)
(* calls process; its caller is taken to save with the repositories, which *)
(* only insert.  Audit rows, evidence rows and the alias dictionary, which *)
(* nothing reads, are left out.                                            *)
(***************************************************************************)
EXTENDS Integers, FiniteSets, Functions, TLC

CONSTANTS
    Items,          \* the items that may arrive
    Capacities,     \* the words that are a capacity
    Colors,         \* the words that are a colour
    None            \* nothing

VARIABLES
    candidates,     \* which candidates exist, and whether each is under review
    items,          \* the stored items, and whether each is under review
    pass            \* the refinement job in progress

vars == <<candidates, items, pass>>

Marks == {"set", "lot", "with_accessories", "sole_item"}

(* What one look at a candidate leaves in the job: the flag as its matcher *)
(* read it, as its own session loaded it, and as it will be written.       *)
Look == [read: BOOLEAN, loaded: BOOLEAN, assigned: BOOLEAN]

TypeOK ==
    /\ DOMAIN candidates \subseteq Items /\ Range(candidates) \subseteq BOOLEAN
    /\ DOMAIN items \subseteq Items /\ Range(items) \subseteq BOOLEAN
    /\ pass = None \/
        /\ pass.left \subseteq DOMAIN items
        /\ pass.found \in {None} \cup ((DOMAIN candidates) \X BOOLEAN \X BOOLEAN)
        /\ Range(pass.looks) \subseteq Look

Init == candidates = <<>> /\ items = <<>> /\ pass = None

-----------------------------------------------------------------------------
(* How an item compares with a candidate; penalties and scores in percent. *)

Found(words, title) == IF words \cap title = {} THEN None ELSE CHOOSE w \in words \cap title : TRUE

VariationPenalty(i, c) ==
    LET a == Found(Capacities, i.title)  b == Found(Capacities, c.title)
        x == Found(Colors, i.title)      y == Found(Colors, c.title)
    IN  CASE a # b /\ None \notin {a, b} -> 100
          [] a # b \/ (x # y /\ None \notin {x, y}) -> 40
          [] a = b /\ x # y /\ None \in {x, y} -> 10
          [] OTHER -> 0

BundlePenalty(i, c) ==
    LET s == Marks \cap i.title  t == Marks \cap c.title
        Single(m) == m \cap {"set", "lot"} = {}
        Against(m, n) == "sole_item" \in m /\ "with_accessories" \in n
    IN  CASE Single(s) # Single(t) \/ Against(s, t) \/ Against(t, s) -> 100
          [] ("with_accessories" \in s) # ("with_accessories" \in t) -> 50
          [] OTHER -> 0

SameGtin(i, c) == i.gtin # None /\ i.gtin = c.gtin
OtherGtin(i, c) == None \notin {i.gtin, c.gtin} /\ i.gtin # c.gtin
SameModel(i, c) == None \notin {i.brand, i.mpn} /\ i.brand = c.brand /\ i.mpn = c.mpn

(* Jaccard's similarity of the titles, in percent.                         *)
Similarity(i, c) ==
    IF i.title = {} \/ c.title = {} THEN 0
    ELSE (100 * Cardinality(i.title \cap c.title)) \div Cardinality(i.title \cup c.title)

SoftMatch(i, c) ==
    /\ ~SameGtin(i, c) /\ ~SameModel(i, c)
    /\ 5 * Cardinality(i.title \cap c.title) > 3 * Cardinality(i.title \cup c.title)

Confidence(i, c) ==
    LET base == CASE SameGtin(i, c) -> 100
                  [] ~SameGtin(i, c) /\ SameModel(i, c) -> 90
                  [] SoftMatch(i, c) -> 60 + (3 * Similarity(i, c)) \div 10
                  [] OTHER -> 0
        score == base - VariationPenalty(i, c) - BundlePenalty(i, c)
    IN  IF score < 0 THEN 0 ELSE score

(* The review flagger: is the match to be looked at by an operator?        *)
Flagged(i, c) ==
    \/ OtherGtin(i, c) \/ SoftMatch(i, c)
    \/ VariationPenalty(i, c) >= 40
    \/ BundlePenalty(i, c) >= 50
    \/ ~SameGtin(i, c) /\ ~SameModel(i, c)

(* The candidates the matcher may answer with: one of the same brand and   *)
(* part number if there is one, else the best of the similar titles.       *)
Matches(i) ==
    LET named == {c \in DOMAIN candidates : SameModel(i, c)}
        alike == {c \in DOMAIN candidates : i.title # {} /\ i.title \subseteq c.title}
        best == {c \in alike : \A d \in alike : Confidence(i, d) <= Confidence(i, c)}
    IN  IF named # {} THEN named ELSE best

Accepted(i, c) == Confidence(i, c) >= 60

-----------------------------------------------------------------------------
(* An item arrives: it joins a candidate, which is not stored again, or    *)
(* founds one, under review unless it has an identifier.                   *)
Intake(i) ==
    /\ i \notin DOMAIN items
    /\ \/ \E c \in Matches(i) :
            /\ Accepted(i, c)
            /\ items' = (i :> Flagged(i, c)) @@ items
            /\ UNCHANGED <<candidates, pass>>
       \/ /\ Matches(i) = {} \/ \E c \in Matches(i) : ~Accepted(i, c)
          /\ LET review == i.gtin = None /\ None \in {i.brand, i.mpn} IN
                /\ items' = (i :> review) @@ items
                /\ candidates' = (i :> review) @@ candidates
          /\ UNCHANGED pass

(* The operator's decisions that change a row; rejecting and holding a     *)
(* candidate leave it as it is.                                            *)
Queue == {c \in DOMAIN candidates : candidates[c]}

Approve(c) == c \in Queue /\ candidates' = [candidates EXCEPT ![c] = FALSE] /\ UNCHANGED <<items, pass>>
Reopen(c) == c \notin Queue /\ candidates' = [candidates EXCEPT ![c] = TRUE] /\ UNCHANGED <<items, pass>>

(* The CLI approves once it is confirmed; the console, which asks for no   *)
(* confirmation, also reopens.                                             *)
Cli(c) == Approve(c)
Console(c) == Cli(c) \/ Reopen(c)

(* The refinement job selects the items under review.                      *)
StartPass ==
    /\ pass = None
    /\ \E i \in DOMAIN items : items[i]
    /\ pass' = [left |-> {i \in DOMAIN items : items[i]}, found |-> None,
                looks |-> <<>>, cleared |-> {}]
    /\ UNCHANGED <<candidates, items>>

(* refine: the matcher reads the candidates as they are committed.         *)
Refine(i) ==
    /\ pass # None /\ pass.found = None /\ i \in pass.left
    /\ \/ \E c \in Matches(i) :
            /\ Accepted(i, c)
            /\ pass' = [pass EXCEPT
                    !.left = @ \ {i},
                    !.found = <<c, candidates[c], Flagged(i, c)>>,
                    !.cleared = IF Flagged(i, c) THEN @ ELSE @ \cup {i}]
       \/ /\ Matches(i) = {} \/ \E c \in Matches(i) : ~Accepted(i, c)
          /\ pass' = [pass EXCEPT !.left = @ \ {i}, !.cleared = @ \cup {i}]
    /\ UNCHANGED <<candidates, items>>

(* Mutated form: refine starts from an unflagged candidate.                *)
Fresh(read, flagged) == flagged

(* The review flag that refine leaves on a candidate.                      *)
Refined(read, flagged) == read \/ flagged

(* The job loads the row, unless it holds it already, and assigns the flag. *)
Assign ==
    /\ pass # None /\ pass.found # None
    /\ LET c == pass.found[1]
           held == c \in DOMAIN pass.looks
           look == [read |-> pass.found[2],
                    loaded |-> IF held THEN pass.looks[c].loaded ELSE candidates[c],
                    assigned |-> Refined(pass.found[2], pass.found[3])]
       IN  pass' = [pass EXCEPT
                !.found = None,
                !.looks = [d \in {c} \cup DOMAIN @ |-> IF d = c THEN look ELSE @[d]]]
    /\ UNCHANGED <<candidates, items>>

(* The commit at the end writes what differs from what was loaded.         *)
Commit ==
    /\ pass # None /\ pass.left = {} /\ pass.found = None
    /\ candidates' = [c \in DOMAIN candidates |->
            IF c \in DOMAIN pass.looks /\ pass.looks[c].assigned # pass.looks[c].loaded
            THEN pass.looks[c].assigned ELSE candidates[c]]
    /\ items' = [i \in DOMAIN items |-> items[i] /\ i \notin pass.cleared]
    /\ pass' = None

(* An exception rolls the whole pass back.                                 *)
Rollback == pass # None /\ pass' = None /\ UNCHANGED <<candidates, items>>

Next ==
    \/ \E i \in Items : Intake(i) \/ Refine(i)
    \/ \E c \in DOMAIN candidates : Console(c)
    \/ StartPass \/ Assign \/ Commit \/ Rollback

Spec == Init /\ [][Next]_vars

-----------------------------------------------------------------------------
(* A pass of the refinement job takes no candidate out of the review queue *)
(* that was in it when the job last looked: whatever it clears, an         *)
(* operator put there since.                                               *)
FlagsSurvive ==
    [][\A c \in DOMAIN candidates :
        Commit /\ candidates[c] /\ ~candidates'[c] => ~pass.looks[c].read]_vars
=============================================================================
