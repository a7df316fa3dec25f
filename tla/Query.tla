------------------------------- MODULE Query -------------------------------
(***************************************************************************)
(* The query objects a statement runs: the classes of src/query and the    *)
(* DocumentDbCursor and DocumentDbRow a data query reads its rows through. *)
(*                                                                         *)
(* A query object is a record.  Its virtual methods are operators that map *)
(* a query to the set of outcomes the call may have; the choice among them *)
(* is made by what lies outside the driver (the JDBC driver's SQL-to-MQL   *)
(* service, the MongoDB cursor, the conversion of one value).              *)
(***************************************************************************)
EXTENDS Integers, Odbc

CONSTANTS
    MaxRows,   \* bound: the most rows a result set has
    NumCols    \* the columns of a result set, numbered 1..NumCols

ASSUME QueryAssumption == MaxRows \in Nat /\ NumCols \in Nat

(* QueryType::Type, without STREAMING, which no class of the driver has;   *)
(* NONE is a null currentQuery.                                            *)
CatalogTypes == {"TABLE_METADATA", "COLUMN_METADATA", "FOREIGN_KEYS", "PRIMARY_KEYS"}

QueryTypes ==
    CatalogTypes \cup {"NONE", "DATA", "BATCH", "SPECIAL_COLUMNS", "TYPE_INFO", "INTERNAL"}

(* type       the class of the query object                                *)
(* executed   the member of that name; for a data query, cursor_ is set    *)
(* fetched    the member of that name; for a data query, !isFirstRow_      *)
(* rows       the rows of the result: documents behind cursor_, or the     *)
(*            size of meta / binaryTypes                                   *)
(* pos        iterator_ or cursor as an index from 0; rows is end()        *)
(* row        the row number currentRow_ shows, 0 when it is null          *)
(* columns    columns_ of currentRow_: the row number each column holds a  *)
(*            view of, 0 for a column not discovered yet                   *)
(* metaSet    resultMetaAvailable_                                         *)
Queries ==
    [type : QueryTypes, executed : BOOLEAN, fetched : BOOLEAN,
     rows : 0..MaxRows, pos : 0..MaxRows, row : 0..MaxRows,
     columns : [1..NumCols -> 0..MaxRows], metaSet : BOOLEAN]

Undiscovered == [c \in 1..NumCols |-> 0]

(* The constructors. *)
NewQuery(type) ==
    [type |-> type, executed |-> FALSE, fetched |-> FALSE, rows |-> 0,
     pos |-> 0, row |-> 0, columns |-> Undiscovered, metaSet |-> FALSE]

NoQuery == NewQuery("NONE")

Outcome(q, result, records) == [query |-> q, result |-> result, records |-> records]

(***************************************************************************)
(* DocumentDbRow.                                                          *)
(***************************************************************************)

(* DocumentDbRow::Update: every discovered column moves to the new         *)
(* document.                                                               *)
UpdateColumnsStale(columns, rowNumber) == columns   \* mutant: columns keep their document

UpdateColumns(columns, rowNumber) ==
    [c \in 1..NumCols |-> IF columns[c] = 0 THEN 0 ELSE rowNumber]

(* DocumentDbRow::EnsureColumnDiscovered: columns are created in order, up *)
(* to the one asked for, each from the row's current document.             *)
EnsureColumnDiscovered(q, column) ==
    [q EXCEPT !.columns =
        [c \in 1..NumCols |->
            IF c <= column /\ q.columns[c] = 0 THEN q.row ELSE q.columns[c]]]

(***************************************************************************)
(* DocumentDbCursor.                                                       *)
(***************************************************************************)

HasData(q) == q.pos # q.rows

(* Mutant: isFirstRow_ is not looked at. *)
IncrementSkipsFirst(q) ==
    LET pos == q.pos + 1
    IN  [q EXCEPT !.fetched = TRUE, !.pos = pos,
                  !.row = IF pos # q.rows THEN pos + 1 ELSE 0,
                  !.columns = IF pos # q.rows THEN UpdateColumns(@, pos + 1)
                                              ELSE Undiscovered]

(* DocumentDbCursor::Increment, called when HasData: the first call stays  *)
(* on the first document, the later ones move on; the row follows.         *)
Increment(q) ==
    LET pos == IF q.fetched THEN q.pos + 1 ELSE q.pos
    IN  [q EXCEPT !.fetched = TRUE,
                  !.pos = pos,
                  !.row = IF pos # q.rows THEN pos + 1 ELSE 0,
                  !.columns = IF pos # q.rows THEN UpdateColumns(@, pos + 1)
                                              ELSE Undiscovered]

(***************************************************************************)
(* Query::Execute.                                                         *)
(***************************************************************************)

(* Mutant: the old cursor stays until there is a new one. *)
DataExecuteKeepsCursor(q) ==
    {Outcome(q, "ERROR", {"HY000"})}
    \cup {Outcome([NewQuery("DATA") EXCEPT !.executed = TRUE, !.rows = n,
                                           !.metaSet = q.metaSet], "SUCCESS", {}) :
            n \in 0..MaxRows}

(* DataQuery::Execute: the old cursor goes first; the SQL is mapped to an  *)
(* aggregation, whose answer also gives the result's columns, and the      *)
(* aggregation is run.  A mapping service that fails to hand over one of   *)
(* its lists leaves a null context behind a success, which is then         *)
(* dereferenced.                                                           *)
DataExecute(q) ==
    LET closed == [NewQuery("DATA") EXCEPT !.metaSet = q.metaSet]
        mapped == [closed EXCEPT !.metaSet = @ \/ NumCols > 0]
    IN  {Outcome(closed, "ERROR", {"HYC00", "HY000"}),
         Outcome(closed, "ERROR", {"HY000"}),
         Outcome(closed, "TERMINATED", {}),
         Outcome(mapped, "ERROR", {"HY000"})}
        \cup {Outcome([mapped EXCEPT !.executed = TRUE, !.rows = n], "SUCCESS", {}) :
                n \in 0..MaxRows}

(* The catalogue queries: close if executed, ask the JDBC metadata, and    *)
(* put the cursor on the first row.  A failed request leaves the object    *)
(* as it is after the close.                                               *)
CatalogClose(q) ==
    [q EXCEPT !.rows = 0, !.executed = FALSE,
              !.fetched = @ /\ q.type \notin {"FOREIGN_KEYS", "PRIMARY_KEYS"}]

CatalogExecute(q) ==
    LET closed == IF q.executed THEN CatalogClose(q) ELSE q
    IN  {Outcome(closed, "ERROR", {"HY000"})}
        \cup {Outcome([closed EXCEPT !.executed = TRUE, !.fetched = FALSE,
                                     !.rows = n, !.pos = 0], "SUCCESS", {}) :
                n \in 0..MaxRows}

(* TypeInfoQuery::Execute asks only when it has no types yet, and ignores  *)
(* what the request returns: a request that fails has added its record and *)
(* may have added types before it failed.                                  *)
TypeInfoExecute(q) ==
    LET open(n) == [q EXCEPT !.executed = TRUE, !.fetched = FALSE,
                             !.rows = n, !.pos = 0]
    IN  IF q.rows # 0
        THEN {Outcome(open(q.rows), "SUCCESS", {})}
        ELSE {Outcome(open(n), "SUCCESS", {}) : n \in 0..MaxRows}
             \cup {Outcome(open(n), "SUCCESS", {"HY000"}) : n \in 0..MaxRows}

(* BatchQuery::Execute: the request is answered by the default response,   *)
(* whose status is UNKNOWN_ERROR, so the first page ends it; executed is   *)
(* not set.  SpecialColumnsQuery::Execute always succeeds and              *)
(* InternalQuery::Execute never does.                                      *)
ExecuteOutcomes(q) ==
    CASE q.type = "DATA"            -> DataExecute(q)
      [] q.type \in CatalogTypes    -> CatalogExecute(q)
      [] q.type = "TYPE_INFO"       -> TypeInfoExecute(q)
      [] q.type = "SPECIAL_COLUMNS" ->
            {Outcome([q EXCEPT !.executed = TRUE], "SUCCESS", {})}
      [] OTHER                      -> {Outcome(q, "ERROR", {"HY000"})}

(***************************************************************************)
(* Query::Close and Query::NextResultSet.                                  *)
(***************************************************************************)

(* A data query drops its cursor; a catalogue query clears its rows and    *)
(* leaves the cursor behind; a type query keeps its rows and moves to the  *)
(* end.                                                                    *)
CloseQuery(q) ==
    CASE q.type = "DATA"         -> [NewQuery("DATA") EXCEPT !.metaSet = q.metaSet]
      [] q.type \in CatalogTypes -> CatalogClose(q)
      [] q.type = "TYPE_INFO"    -> [q EXCEPT !.executed = FALSE, !.pos = q.rows]
      [] OTHER                   -> [q EXCEPT !.executed = FALSE]

NextResultSet(q) == IF q.type \in {"DATA", "BATCH"} THEN CloseQuery(q) ELSE q

(***************************************************************************)
(* Query::GetColumn.                                                       *)
(***************************************************************************)

(* DataQuery::GetColumn through DocumentDbRow::ReadColumnToBuffer: an      *)
(* index out of range is a conversion failure.                             *)
DataGetColumn(q, column) ==
    IF ~q.executed THEN {Outcome(q, "ERROR", {"HY010"})}
    ELSE IF q.row = 0 THEN {Outcome(q, "ERROR", {"24000"})}
    ELSE {Outcome(IF column \in 1..NumCols THEN EnsureColumnDiscovered(q, column) ELSE q,
                  ProcessConversionResult(conv), ConversionRecords(conv)) :
            conv \in IF column \in 1..NumCols THEN ConversionResults ELSE {"FAILURE"}}

(* The catalogue and type queries: past the end, tables, columns and types *)
(* report an invalid cursor state and keys report no data; only the column *)
(* query checks the index.                                                 *)
CatalogGetColumn(q, column) ==
    CASE ~q.executed -> {Outcome(q, "ERROR", {"HY010"})}
      [] q.executed /\ q.pos = q.rows ->
            IF q.type \in {"FOREIGN_KEYS", "PRIMARY_KEYS"}
            THEN {Outcome(q, "NO_DATA", {})} ELSE {Outcome(q, "ERROR", {"24000"})}
      [] OTHER ->
            IF q.type = "COLUMN_METADATA" /\ column \notin 1..NumCols
            THEN {Outcome(q, "ERROR", {"07009"})} ELSE {Outcome(q, "SUCCESS", {})}

GetColumnOutcomes(q, column) ==
    CASE q.type = "DATA"                             -> DataGetColumn(q, column)
      [] q.type \in CatalogTypes \cup {"TYPE_INFO"}  -> CatalogGetColumn(q, column)
      [] q.type = "INTERNAL"                         -> {Outcome(q, "NO_DATA", {})}
      [] q.type = "SPECIAL_COLUMNS" /\ q.executed    -> {Outcome(q, "NO_DATA", {})}
      [] q.type = "BATCH" /\ q.executed              -> {Outcome(q, "ERROR", {"24000"})}
      [] OTHER                                       -> {Outcome(q, "ERROR", {"HY010"})}

(***************************************************************************)
(* Query::FetchNextRow.                                                    *)
(***************************************************************************)

(* The columns a fetch reads: the bound ones, in order, up to and          *)
(* including the first whose conversion fails.                             *)
ReadColumns(bound, conv) ==
    {c \in bound \cap 1..NumCols :
        \A d \in bound \cap 1..NumCols : d < c => conv[d] # "FAILURE"}

(* DataQuery::FetchNextRow.  Of the results of the conversions only ERROR  *)
(* is passed on.  Moving the MongoDB iterator may throw, which nothing     *)
(* catches.                                                                *)
DataFetchNextRow(q, bound) ==
    IF ~q.executed THEN {Outcome(q, "ERROR", {"HY010"})}
    ELSE IF ~HasData(q) THEN {Outcome(q, "NO_DATA", {})}
    ELSE LET next == Increment(q)
             read(conv) == ReadColumns(bound, conv)
             row(conv) == [next EXCEPT !.columns =
                 [c \in 1..NumCols |->
                     IF \E d \in read(conv) : c <= d THEN next.row ELSE next.columns[c]]]
         IN  (IF q.fetched THEN {Outcome(q, "TERMINATED", {})} ELSE {})
             \cup
             (IF next.row = 0 THEN {Outcome(next, "NO_DATA", {})}
              ELSE {Outcome(row(conv),
                            IF \E c \in read(conv) : conv[c] = "FAILURE"
                            THEN "ERROR" ELSE "SUCCESS",
                            UNION {ConversionRecords(conv[c]) : c \in read(conv)}) :
                      conv \in [bound \cap 1..NumCols -> ConversionResults]})

(* Mutant: the cursor is not moved. *)
CatalogFetchNextRowStuck(q, bound) ==
    IF ~q.executed THEN {Outcome(q, "ERROR", {"HY010"})}
    ELSE {Outcome([q EXCEPT !.fetched = TRUE],
                  IF HasData(q) THEN "SUCCESS" ELSE "NO_DATA", {})}

(* The catalogue and type queries; the results of reading the bound        *)
(* columns are ignored, their records stay.                                *)
CatalogFetchNextRow(q, bound) ==
    IF ~q.executed THEN {Outcome(q, "ERROR", {"HY010"})}
    ELSE LET next == [q EXCEPT !.fetched = TRUE,
                               !.pos = IF q.fetched /\ HasData(q) THEN @ + 1 ELSE @]
         IN  IF ~HasData(next) THEN {Outcome(next, "NO_DATA", {})}
             ELSE {Outcome(next, "SUCCESS",
                           IF q.type = "COLUMN_METADATA" /\ ~(bound \subseteq 1..NumCols)
                           THEN {"07009"} ELSE {})}

FetchNextRowOutcomes(q, bound) ==
    CASE q.type = "DATA"                            -> DataFetchNextRow(q, bound)
      [] q.type \in CatalogTypes \cup {"TYPE_INFO"} -> CatalogFetchNextRow(q, bound)
      [] q.type = "INTERNAL"                        -> {Outcome(q, "NO_DATA", {})}
      [] q.type \in {"SPECIAL_COLUMNS", "BATCH"}
         /\ q.executed                             -> {Outcome(q, "NO_DATA", {})}
      [] OTHER                                      -> {Outcome(q, "ERROR", {"HY010"})}

(***************************************************************************)
(* Query::GetMeta: SUCCESS stands for a metadata vector, ERROR for null.   *)
(***************************************************************************)
GetMetaOutcomes(q) ==
    CASE q.type = "INTERNAL"           -> {Outcome(q, "ERROR", {})}
      [] q.type = "DATA" /\ ~q.metaSet ->
            {Outcome(q, "ERROR", {"HY000"}),
             IF NumCols > 0 THEN Outcome([q EXCEPT !.metaSet = TRUE], "SUCCESS", {})
                            ELSE Outcome(q, "ERROR", {})}
      [] OTHER                         -> {Outcome(q, "SUCCESS", {})}
=============================================================================
