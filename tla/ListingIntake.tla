--------------------------- MODULE ListingIntake ---------------------------
(***************************************************************************)
(* How the listing execution gets its requests from files: the rows of a   *)
(* CSV file are read and checked one by one, the images of a SKU are taken *)
(* from its directory, and a row with its images becomes a payload.  A     *)
(* cell is Missing where the row is shorter than the header, Blank, Text   *)
(* that is no number, NaN, or a value.                                     *)
(***************************************************************************)
EXTENDS Integers, Sequences, FiniteSets, SequencesExt, FiniteSetsExt

CONSTANTS Missing, Blank, Text, NaN, None,
          MaxImages           \* the limit of eBay

(***************************************************************************)
(* The rows of the file.                                                   *)
(***************************************************************************)
Required == {"sku", "title", "description", "price", "quantity", "condition"}
Optional == {"brand", "mpn"}

(* The first rows of a file can be read; then it ends, or reading raises.  *)
File(exists, columns, rows, breaks) ==
    [exists |-> exists, columns |-> columns, rows |-> rows, breaks |-> breaks]

(* NaN is a price that is not less than or equal to zero.                  *)
Valid(row) ==
    /\ \A column \in Required : row[column] # Missing
    /\ \A column \in Required \ {"description"} : row[column] # Blank
    /\ row.price # Text /\ (row.price = NaN \/ row.price > 0)
    /\ row.quantity \notin {Text, NaN} /\ row.quantity >= 1

Nothing == [rows |-> <<>>, seen |-> {}, errors |-> 0, warnings |-> 0]

(* The SKU is taken before the optional cells are read.                    *)
Take(result, row) ==
    IF ~Valid(row) THEN [result EXCEPT !.errors = @ + 1]
    ELSE IF row.sku \in result.seen THEN [result EXCEPT !.warnings = @ + 1]
    ELSE IF \E column \in Optional : row[column] = Missing
    THEN [result EXCEPT !.seen = @ \union {row.sku}, !.errors = @ + 1]
    ELSE [result EXCEPT !.seen = @ \union {row.sku}, !.rows = Append(@, row)]

(* What was read before the file broke is kept.                            *)
Load(file) ==
    IF ~file.exists \/ file.columns = {} THEN [Nothing EXCEPT !.errors = 1]
    ELSE IF ~(Required \subseteq file.columns)
    THEN [Nothing EXCEPT !.errors = Cardinality(Required \ file.columns)]
    ELSE LET read == FoldLeft(Take, Nothing, file.rows)
         IN  IF file.breaks THEN [read EXCEPT !.errors = @ + 1] ELSE read

(***************************************************************************)
(* The images of a SKU.  A file of its directory has a name, which is a    *)
(* number here, may have the extension of an image, and can be read.       *)
(***************************************************************************)
Place(kind, files) == [kind |-> kind, files |-> files]

Kinds == {"absent", "not_a_directory", "unreadable", "directory"}

Resolve(sku, place) ==
    LET images == {f \in place.files : f.image}
        good == SetToSortSeq({f.name : f \in {i \in images : i.readable}}, <)
        bad == Cardinality({i \in images : ~i.readable})
    IN  IF sku = Blank \/ place.kind # "directory"
        THEN [valid |-> FALSE, paths |-> <<>>, errors |-> 1, warnings |-> 0]
        ELSE IF good = <<>>
        THEN [valid |-> FALSE, paths |-> <<>>, errors |-> bad + 1, warnings |-> 0]
        ELSE [valid |-> TRUE, errors |-> bad,
              paths |-> SubSeq(good, 1, Min({MaxImages, Len(good)})),
              warnings |-> IF Len(good) > MaxImages THEN 1 ELSE 0]

(* The shorter call forgets the errors of a directory with a good image.   *)
ForUpload(sku, place) ==
    LET result == Resolve(sku, place)
    IN  [paths |-> result.paths, errors |-> IF result.valid THEN 0 ELSE result.errors]

(***************************************************************************)
(* The payload.                                                            *)
(***************************************************************************)
(* Tenths of a second are rounded to a second, a half to the even one.     *)
Rounded(tenths) ==
    LET up == (tenths + 5) \div 10
    IN  IF tenths % 10 = 5 /\ up % 2 = 1 THEN up - 1 ELSE up

Build(row, place, environment, dry, now) ==
    LET images == Resolve(row.sku, place)
    IN  IF ~images.valid THEN None
        ELSE [attempt |-> <<Rounded(now), row.sku>>, sku |-> row.sku, price |-> row.price,
              quantity |-> row.quantity, images |-> images.paths,
              environment |-> environment, dry |-> dry]

(* A caller that says nothing else gets a dry run in the sandbox.          *)
BuildByDefault(row, place, now) == Build(row, place, "sandbox", TRUE, now)
=============================================================================
