------------------------- MODULE MCListingExecution -------------------------
(***************************************************************************)
(* Small instances of ListingExecution for TLC: every attempt is for the   *)
(* same listing.                                                           *)
(***************************************************************************)
EXTENDS ListingExecution, Sequences, SequencesExt

CONSTANTS item, published_item, missing, blank, text, nan

(* The payloads' listing id, and eBay's. *)
TwoIds == {item, published_item}
SameListing == [a \in Attempts |-> item]
SamePublished == [a \in Attempts |-> published_item]

LiveRun == [live |-> TRUE, dry |-> FALSE]
LiveDryRun == [live |-> TRUE, dry |-> TRUE]
MockRun == [live |-> FALSE, dry |-> FALSE]

(* Both entry points; dry runs of the live one only. *)
Ordinary == {LiveRun, LiveDryRun, MockRun}
LiveOnly == {LiveRun}

(***************************************************************************)
(* The files the requests come from, over every file of three rows.        *)
(***************************************************************************)
Intake == INSTANCE ListingIntake
              WITH Missing <- missing, Blank <- blank, Text <- text, NaN <- nan, MaxImages <- 2

Cells(sku, price, quantity, brand) ==
    [sku |-> sku, title |-> "t", description |-> blank, price |-> price,
     quantity |-> quantity, condition |-> "used", brand |-> brand, mpn |-> blank]

(* The last cell of a row is the one that a short row lacks.               *)
SomeRows == {Cells(sku, price, quantity, brand) :
                 sku \in {"x", "y", blank}, price \in {0, 1, text, nan},
                 quantity \in {0, 1}, brand \in {blank, missing}}

ThreeRows == {<<first, second, third>> : first, second, third \in
                 {row \in SomeRows : row.sku # blank \/ row.price = 1}}

Loaded(table) == Intake!Load(Intake!File(TRUE, Intake!Required, table, FALSE))

Short(row) == \E column \in Intake!Optional : row[column] = missing

(* Whatever the file, no SKU is listed twice and every listed row is valid *)
(* and whole, and every row that was not listed is accounted for.          *)
ASSUME EachSkuLoadedOnce ==
    \A table \in ThreeRows :
        LET result == Loaded(table)
        IN  /\ \A i, j \in DOMAIN result.rows :
                   i # j => result.rows[i].sku # result.rows[j].sku
            /\ \A i \in DOMAIN result.rows :
                   Intake!Valid(result.rows[i]) /\ ~Short(result.rows[i])
            /\ Len(result.rows) + result.errors + result.warnings = Len(table)

(* Without short rows the first valid row of a SKU is the one listed.      *)
ASSUME FirstValidRowWins ==
    \A table \in ThreeRows :
        (\A i \in DOMAIN table : ~Short(table[i]))
            => LET first == {i \in DOMAIN table :
                                /\ Intake!Valid(table[i])
                                /\ \A j \in 1..(i - 1) :
                                      Intake!Valid(table[j]) => table[j].sku # table[i].sku}
               IN  ToSet(Loaded(table).rows) = {table[i] : i \in first}

(* A row that is too short is an error, but it has taken its SKU: the good *)
(* row that follows is passed over as a duplicate.                         *)
ASSUME ShortRowHides ==
    \E table \in ThreeRows :
        /\ \E i \in DOMAIN table : Intake!Valid(table[i]) /\ ~Short(table[i]) /\ table[i].sku = "x"
        /\ \A i \in DOMAIN Loaded(table).rows : Loaded(table).rows[i].sku # "x"

SomeImages == [name : 1..4, image : BOOLEAN, readable : BOOLEAN]

(* The directories of at most three files with names of their own.         *)
SomePlaces ==
    {Intake!Place("directory", files) :
        files \in {some \in kSubset(3, SomeImages) \union kSubset(1, SomeImages) :
                      \A f, g \in some : f.name = g.name => f = g}}

(* A payload has at least one image and no more than eBay takes, each one  *)
(* readable, in the order of the names; a file left out has a later name.  *)
ASSUME ImagesWithinLimit ==
    \A place \in SomePlaces :
        LET result == Intake!Resolve("x", place)
            usable == {f.name : f \in {g \in place.files : g.image /\ g.readable}}
        IN  /\ result.valid <=> usable # {}
            /\ ToSet(result.paths) \subseteq usable
            /\ Len(result.paths) \in (IF result.valid THEN 1..2 ELSE {0})
            /\ \A i \in DOMAIN result.paths : \A left \in usable \ ToSet(result.paths) :
                   result.paths[i] < left
            /\ Intake!ForUpload("x", place).errors > 0 <=> ~result.valid

(* Payloads of one SKU built more than a second apart are two attempts; in *)
(* one second they are the same one, which is executed once.               *)
ASSUME AttemptsBySecond ==
    LET one == Cells("x", 1, 1, blank)
        place == Intake!Place("directory", {[name |-> 1, image |-> TRUE, readable |-> TRUE]})
        Built(now) == Intake!BuildByDefault(one, place, now)
    IN  /\ \A s, t \in 0..40 : t > s + 10 => Built(s).attempt # Built(t).attempt
        /\ \E s, t \in 0..40 : t = s + 9 /\ Built(s).attempt = Built(t).attempt
        /\ \A t \in 0..40 : Built(t).dry /\ Built(t).environment = "sandbox"
=============================================================================
