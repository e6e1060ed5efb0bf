----------------------------- MODULE CatalogImport -----------------------------
(***************************************************************************)
(* The import of manufacturers' catalogs (ProductImporter with its         *)
(* deduplicator, and the script that runs it).  A run of the script is a   *)
(* request; two may be under way, each may die anywhere and be started     *)
(* again, and any part may fail at any statement: its error is recorded    *)
(* and the run goes on with the next part.                                 *)
(***************************************************************************)
EXTENDS Requests, ManufacturerCatalogs, SequencesExt

CONSTANTS
    Delivered,   \* per manufacturer, the parts its extractor delivers
    Letter,      \* of which part numbers are written
    Text         \* part numbers that may be compared

ImportOp == {"IMPORT", "COMPARE"}
Manufacturer == DOMAIN Curated
Parts == UNION {Range(Delivered[m]) : m \in Manufacturer}

ASSUME ImportAssumption ==
    /\ \A m \in Manufacturer : Delivered[m] \in Seq(Range(Curated[m]))
    /\ <<>> \in Text /\ Text \subseteq Seq(Letter)
    /\ \A r \in Request : r.op \in ImportOp =>
          r \in [op: ImportOp, source: Manufacturer, by: Nat]

\* What the catalogs are: no two parts share a number.
ASSUME CatalogsAssumption ==
    \A m, n \in Manufacturer : \A p \in Range(Curated[m]), q \in Range(Curated[n]) :
        p # q => p.others \cap q.others = {}

VARIABLES
    product,    \* per part, how far its product has come
    number,     \* the alternate part numbers on record, each of one product
    names,      \* data sources, brands and categories created
    skipped,    \* parts that were left out as duplicates
    compared    \* the last two numbers compared and what their distance was found to be

catalog == <<product, number, names, skipped, compared>>

ImportTypeOK ==
    /\ \A p \in DOMAIN product : product[p] \in {"none", "bare", "fitted", "full"}
    /\ number \subseteq UNION {p.others : p \in DOMAIN product}
    /\ names \subseteq Manufacturer \cup {MapCategory(p.category) : p \in DOMAIN product}
    /\ skipped \subseteq DOMAIN product
    /\ compared \in [left: Text, right: Text, distance: Nat]

ImportInit ==
    /\ product = [p \in Parts |-> "none"] /\ number = {} /\ names = {} /\ skipped = {}
    /\ compared = [left |-> <<>>, right |-> <<>>, distance |-> 0]

-----------------------------------------------------------------------------
(* One part after the other.  `saw` holds those left, the current one first.*)

Current(w) == Head(saw[w])
Source(w) == job[w].source

NextPart(w) == IF Len(saw[w]) = 1 THEN Answer(w) ELSE See(w, Tail(saw[w]), "check")

\* importProducts: the extractor delivers, the data source is looked up or
\* created.
BeginImport(w) ==
    /\ At(w, "IMPORT", "read")
    /\ names' = names \cup {Source(w)}
    /\ IF Delivered[Source(w)] = <<>> THEN Answer(w) ELSE See(w, Delivered[Source(w)], "check")
    /\ UNCHANGED <<product, number, skipped, compared>>

Skip(w) == skipped' = skipped \cup {Current(w)} /\ NextPart(w) /\ UNCHANGED <<product, number, names, compared>>
GoOn(w, step) == Goto(w, step) /\ UNCHANGED catalog

\* Any product of the brand is taken for the part.
MatchesByBrand(w) ==
    \/ /\ At(w, "IMPORT", "check")
       /\ IF \E p \in Range(Delivered[Source(w)]) : product[p] # "none"
          THEN Skip(w) ELSE GoOn(w, "ask")
    \/ At(w, "IMPORT", "ask") /\ (IF Current(w).others \cap number # {} THEN Skip(w) ELSE GoOn(w, "write"))

\* findExistingProduct: a product of the brand whose name contains the number,
\* then one that has one of the alternate numbers.
FindExistingProduct(w) ==
    LET p == Current(w) IN
    \/ /\ At(w, "IMPORT", "check")
       /\ IF p.number \notin Unspoken /\ product[p] # "none" THEN Skip(w) ELSE GoOn(w, "ask")
    \/ /\ At(w, "IMPORT", "ask")
       /\ IF p.others \cap number # {} THEN Skip(w) ELSE GoOn(w, "write")

\* Brand, category and the plan's limit; then the product, whose name is
\* unique.
CreateProduct(w) ==
    LET p == Current(w) IN
    \/ /\ At(w, "IMPORT", "write")
       /\ names' = names \cup {Source(w), MapCategory(p.category)}
       /\ Goto(w, "commit")
       /\ UNCHANGED <<product, number, skipped, compared>>
    \/ /\ At(w, "IMPORT", "commit")
       /\ product[p] = "none"
       /\ product' = [product EXCEPT ![p] = "bare"]
       /\ Goto(w, "next")
       /\ UNCHANGED <<number, names, skipped, compared>>

\* One by one; the error of each is swallowed (as of a number another product
\* has already), so any of them may be missing in the end.
CreateAlternatePartNumbers(w) ==
    /\ At(w, "IMPORT", "next")
    /\ \E created \in SUBSET Current(w).others : number' = number \cup created
    /\ Goto(w, "then")
    /\ UNCHANGED <<product, names, skipped, compared>>

\* The vehicles it fits, and where it comes from.
CreateFitments(w) ==
    /\ At(w, "IMPORT", "then")
    /\ product' = [product EXCEPT ![Current(w)] = "fitted"]
    /\ Goto(w, "finish")
    /\ UNCHANGED <<number, names, skipped, compared>>

CreateSource(w) ==
    /\ At(w, "IMPORT", "finish")
    /\ product' = [product EXCEPT ![Current(w)] = "full"]
    /\ NextPart(w)
    /\ UNCHANGED <<number, names, skipped, compared>>

\* The error of a part is caught; the run goes on.
PartFails(w) ==
    /\ pc[w] \notin {"idle", "read"} /\ job[w].op = "IMPORT"
    /\ NextPart(w)
    /\ UNCHANGED catalog

\* The process dies; a part it was at stays as it is.
ImportDies(w) ==
    /\ pc[w] # "idle" /\ job[w].op \in ImportOp
    /\ Answer(w)
    /\ UNCHANGED catalog

-----------------------------------------------------------------------------
(* How far apart two part numbers are.                                     *)

\* levenshteinDistance fills a matrix row by row: the cell of two prefixes
\* from the cells before it.
LevenshteinDistance(one, two) ==
    LET cell[c \in (0..Len(two)) \X (0..Len(one))] ==
            LET i == c[1]
                j == c[2] IN
            IF i = 0 THEN j ELSE IF j = 0 THEN i
            ELSE IF two[i] = one[j] THEN cell[<<i - 1, j - 1>>]
            ELSE 1 + Min({cell[<<i - 1, j - 1>>], cell[<<i, j - 1>>], cell[<<i - 1, j>>]}) IN
    cell[<<Len(two), Len(one)>>]

CalculateSimilarity(w) ==
    /\ At(w, "COMPARE", "read")
    /\ \E one, two \in Text :
          compared' = [left |-> one, right |-> two, distance |-> LevenshteinDistance(one, two)]
    /\ Answer(w)
    /\ UNCHANGED <<product, number, names, skipped>>

ImportStep(w) ==
    \/ BeginImport(w) \/ FindExistingProduct(w) \/ CreateProduct(w) \/ CreateAlternatePartNumbers(w)
    \/ CreateFitments(w) \/ CreateSource(w) \/ PartFails(w) \/ ImportDies(w)
    \/ CalculateSimilarity(w)

-----------------------------------------------------------------------------
\* A part is left out of an import only because a product of that very part
\* is there, whatever else was imported, by whom and how far it came.
SkippedOnlyIfThere == \A p \in skipped : product[p] # "none"

\* The strings one edit away.
Edits(s) ==
    {RemoveAt(s, i) : i \in DOMAIN s}
    \cup {ReplaceAt(s, i, c) : i \in DOMAIN s, c \in Letter}
    \cup {InsertAt(s, i, c) : i \in 1..Len(s) + 1, c \in Letter}

\* The distance found for two numbers is the least number of characters to
\* put in, take out or change that makes one of the other.
DistanceIsLeastEdits ==
    LET within[n \in Nat] == IF n = 0 THEN {compared.left} ELSE within[n - 1] \cup UNION {Edits(s) : s \in within[n - 1]} IN
    /\ compared.right \in within[compared.distance]
    /\ compared.distance > 0 => compared.right \notin within[compared.distance - 1]

\* The import tells parts apart: by what it has on record, and by how far two
\* numbers are from each other.
ImportTellsPartsApart == SkippedOnlyIfThere /\ DistanceIsLeastEdits
=============================================================================
