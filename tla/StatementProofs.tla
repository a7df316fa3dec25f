-------------------------- MODULE StatementProofs --------------------------
(***************************************************************************)
(* Proofs about a statement: its type invariant, that what it shows        *)
(* follows its iterator, and that it implements a forward-only cursor, for *)
(* results of any size and shape, any row array size and any parameters.   *)
(*                                                                         *)
(* The argument is about the query object.  QueryInv is kept by every      *)
(* method of every class; it adds to RowFollowsIterator what is needed of  *)
(* a special columns query, which is executed without being reset.         *)
(***************************************************************************)
EXTENDS Statement, TLAPS

QueryInv(q) ==
    /\ q.executed =>
         /\ q.pos <= q.rows
         /\ ~q.fetched => q.pos = 0
         /\ q.type = "DATA" =>
              /\ q.row = IF q.fetched /\ HasData(q) THEN q.pos + 1 ELSE 0
              /\ \A c \in 1..NumCols : q.columns[c] \in {0, q.row}
    /\ q.type = "SPECIAL_COLUMNS" => q.pos = 0 /\ q.rows = 0 /\ ~q.fetched
    /\ q.type \in {"NONE", "INTERNAL", "BATCH"} => ~q.executed

(* What every method of a query object is shown to return. *)
OutcomeGood(o) ==
    /\ o.query \in Queries
    /\ QueryInv(o.query)
    /\ o.result \in CallResults
    /\ o.records \subseteq SqlStates

(* What a method may do to the cursor a query object stands for: open it,  *)
(* deliver a row, close it, or nothing.                                    *)
CursorStep(q, r) ==
    \/ r.executed /\ ResultSize(r) \in 0..MaxRows /\ RowsDelivered(r) = 0
    \/ /\ q.executed /\ r.executed
       /\ RowsDelivered(q) < ResultSize(q)
       /\ ResultSize(r) = ResultSize(q)
       /\ RowsDelivered(r) = RowsDelivered(q) + 1
    \/ ~r.executed
    \/ /\ r.executed = q.executed
       /\ ResultSize(r) = ResultSize(q)
       /\ RowsDelivered(r) = RowsDelivered(q)

-----------------------------------------------------------------------------
(* A freshly constructed query object is good (the constructors). *)
LEMMA NewQueryGood ==
    ASSUME NEW type \in QueryTypes
    PROVE  /\ NewQuery(type) \in Queries
           /\ QueryInv(NewQuery(type))
           /\ NewQuery(type).executed = FALSE
  BY QueryAssumption, SMTT(30) DEF NewQuery, Queries, QueryInv, Undiscovered

(* Closing keeps a query object good and closes its cursor (the Close      *)
(* methods).                                                               *)
LEMMA CatalogCloseGood ==
    ASSUME NEW q \in Queries, q.type \in CatalogTypes
    PROVE  /\ CatalogClose(q) \in Queries
           /\ QueryInv(CatalogClose(q))
           /\ CatalogClose(q).executed = FALSE
           /\ CatalogClose(q).type = q.type
  <1> DEFINE f == q.fetched /\ q.type \notin {"FOREIGN_KEYS", "PRIMARY_KEYS"}
  <1>1. CatalogClose(q) = [q EXCEPT !.rows = 0, !.executed = FALSE, !.fetched = f]
    BY Zenon DEF CatalogClose, Queries
  <1>2. f \in BOOLEAN
    BY Zenon
  <1>3. 0 \in 0..MaxRows
    BY QueryAssumption, SMTT(30)
  <1> HIDE DEF f
  <1>4. CatalogClose(q) \in Queries
    BY <1>1, <1>2, <1>3, Zenon DEF Queries
  <1>5. CatalogClose(q).executed = FALSE /\ CatalogClose(q).type = q.type
    BY <1>1, Zenon DEF Queries
  <1> QED BY <1>4, <1>5, Zenon DEF QueryInv, CatalogTypes

(* DataQuery::Close, which drops the row and the columns.                  *)
LEMMA DataCloseGood ==
    ASSUME NEW q \in Queries
    PROVE  LET closed == [NewQuery("DATA") EXCEPT !.metaSet = q.metaSet]
           IN  /\ closed \in Queries
               /\ closed.executed = FALSE
               /\ closed.type = "DATA"
               /\ QueryInv(closed)
  <1> DEFINE closed == [NewQuery("DATA") EXCEPT !.metaSet = q.metaSet]
  <1>1. q.metaSet \in BOOLEAN
    BY Zenon DEF Queries
  <1>2. NewQuery("DATA") \in Queries
    BY NewQueryGood, Zenon DEF QueryTypes
  <1>3. closed \in Queries
    BY <1>1, <1>2, Zenon DEF Queries
  <1>4. closed.executed = FALSE /\ closed.type = "DATA"
    BY Zenon DEF NewQuery
  <1> QED BY <1>3, <1>4, Zenon DEF QueryInv

(* Closing a query object of any class.                                    *)
LEMMA CloseGood ==
    ASSUME NEW q \in Queries, QueryInv(q)
    PROVE  /\ CloseQuery(q) \in Queries
           /\ QueryInv(CloseQuery(q))
           /\ CloseQuery(q).executed = FALSE
  <1>1. CASE q.type = "DATA"
    <2>1. CloseQuery(q) = [NewQuery("DATA") EXCEPT !.metaSet = q.metaSet]
      BY <1>1, Zenon DEF CloseQuery, CatalogTypes
    <2> QED BY <2>1, DataCloseGood, Zenon
  <1>2. CASE q.type \in CatalogTypes
    <2>1. CloseQuery(q) = CatalogClose(q)
      BY <1>2, Zenon DEF CloseQuery, CatalogTypes
    <2> QED BY <1>2, <2>1, CatalogCloseGood, Zenon
  <1>3. CASE q.type \notin CatalogTypes \cup {"DATA"}
    BY <1>3, QueryAssumption, Zenon DEF CloseQuery, CatalogTypes, Queries, QueryInv
  <1> QED BY <1>1, <1>2, <1>3, Zenon

(* SQLMoreResults: no class has a second result set.                       *)
LEMMA NextResultSetGood ==
    ASSUME NEW q \in Queries, QueryInv(q)
    PROVE  /\ NextResultSet(q) \in Queries
           /\ QueryInv(NextResultSet(q))
           /\ CursorStep(q, NextResultSet(q))
  BY CloseGood, Zenon DEF NextResultSet, CursorStep

(* Opening a query object on n rows: what a successful Execute leaves.     *)
LEMMA OpenGood ==
    ASSUME NEW q \in Queries, q.type \in CatalogTypes \cup {"DATA", "TYPE_INFO"},
           q.type = "DATA" => q.row = 0 /\ q.columns = Undiscovered,
           NEW n \in 0..MaxRows
    PROVE  LET open == [q EXCEPT !.executed = TRUE, !.fetched = FALSE,
                                 !.rows = n, !.pos = 0]
           IN  /\ open \in Queries
               /\ QueryInv(open)
               /\ open.executed
               /\ ResultSize(open) = n
               /\ RowsDelivered(open) = 0
  <1> DEFINE open == [q EXCEPT !.executed = TRUE, !.fetched = FALSE,
                               !.rows = n, !.pos = 0]
  <1>1. 0 \in 0..MaxRows /\ 0 <= n
    BY QueryAssumption, SMTT(30)
  <1>2. open \in Queries
    BY <1>1, Zenon DEF Queries
  <1>3. /\ open.executed = TRUE /\ open.fetched = FALSE
        /\ open.rows = n /\ open.pos = 0 /\ open.type = q.type
        /\ open.row = q.row /\ open.columns = q.columns
    BY Zenon DEF Queries
  <1> HIDE DEF open
  <1>4. QueryInv(open)
    BY <1>1, <1>3, ZenonT(60) DEF QueryInv, Undiscovered, CatalogTypes
  <1> QED BY <1>2, <1>3, <1>4, Zenon DEF ResultSize, RowsDelivered, open

(* DataQuery::Execute, whether or not a part of it fails.                  *)
LEMMA DataExecuteGood ==
    ASSUME NEW q \in Queries, NEW o \in DataExecute(q)
    PROVE  OutcomeGood(o) /\ CursorStep(q, o.query)
  <1> DEFINE closed == [NewQuery("DATA") EXCEPT !.metaSet = q.metaSet]
             mapped == [closed EXCEPT !.metaSet = @ \/ NumCols > 0]
             set == closed.metaSet \/ NumCols > 0
  <1>1. closed \in Queries /\ closed.executed = FALSE /\ QueryInv(closed)
    BY DataCloseGood, Zenon
  <1>2. closed.type = "DATA" /\ closed.row = 0 /\ closed.columns = Undiscovered
        /\ closed.fetched = FALSE /\ closed.pos = 0
    BY Zenon DEF NewQuery
  <1>3. mapped = [closed EXCEPT !.metaSet = set]
    BY <1>1, Zenon DEF Queries
  <1>4. set \in BOOLEAN
    BY Zenon
  <1> HIDE DEF set, closed
  <1>5. mapped \in Queries
    BY <1>1, <1>3, <1>4, Zenon DEF Queries
  <1>6. /\ mapped.executed = FALSE /\ mapped.type = "DATA" /\ mapped.row = 0
        /\ mapped.columns = Undiscovered
        /\ mapped.fetched = FALSE /\ mapped.pos = 0
    BY <1>1, <1>2, <1>3, Zenon DEF Queries
  <1> HIDE DEF mapped
  <1>7. QueryInv(mapped)
    BY <1>6, Zenon DEF QueryInv
  <1>8. CASE o \in {Outcome(closed, "ERROR", {"HYC00", "HY000"}),
                   Outcome(closed, "ERROR", {"HY000"}),
                   Outcome(closed, "TERMINATED", {}),
                   Outcome(mapped, "ERROR", {"HY000"})}
    <2>1. o.query \in {closed, mapped} /\ o.result \in CallResults
          /\ o.records \subseteq SqlStates
      BY <1>8, SMTT(30) DEF Outcome, CallResults, SqlResults, SqlStates
    <2> QED BY <2>1, <1>1, <1>5, <1>6, <1>7, Zenon DEF OutcomeGood, CursorStep
  <1>9. ASSUME NEW n \in 0..MaxRows,
               o = Outcome([mapped EXCEPT !.executed = TRUE, !.rows = n], "SUCCESS", {})
        PROVE  OutcomeGood(o) /\ CursorStep(q, o.query)
    <2> DEFINE open == [mapped EXCEPT !.executed = TRUE, !.rows = n]
    <2>1. open \in Queries
      BY <1>5, Zenon DEF Queries
    <2>2. /\ open.executed = TRUE /\ open.fetched = FALSE /\ open.rows = n
          /\ open.pos = 0 /\ open.type = "DATA" /\ open.row = 0
          /\ open.columns = Undiscovered
      BY <1>5, <1>6, Zenon DEF Queries
    <2>3. o.query = open /\ o.result = "SUCCESS" /\ o.records = {}
      BY <1>9, Zenon DEF Outcome
    <2> HIDE DEF open
    <2>4. QueryInv(open)
      BY <2>2, QueryAssumption, SMTT(30) DEF QueryInv, Undiscovered
    <2>5. CursorStep(q, open)
      BY <2>2, Zenon DEF CursorStep, ResultSize, RowsDelivered
    <2> QED BY <2>1, <2>3, <2>4, <2>5, Zenon DEF OutcomeGood, CallResults, SqlResults
  <1> QED BY <1>8, <1>9, Zenon DEF DataExecute, closed, mapped

(* Execute of the queries answered from the JDBC driver's metadata.         *)
LEMMA CatalogExecuteGood ==
    ASSUME NEW q \in Queries, QueryInv(q), q.type \in CatalogTypes,
           NEW o \in CatalogExecute(q)
    PROVE  OutcomeGood(o) /\ CursorStep(q, o.query)
  <1> DEFINE closed == IF q.executed THEN CatalogClose(q) ELSE q
  <1>1. /\ closed \in Queries /\ QueryInv(closed)
        /\ closed.executed = FALSE /\ closed.type = q.type
    BY CatalogCloseGood, Zenon DEF Queries
  <1>2. closed.type \notin {"SPECIAL_COLUMNS", "NONE", "DATA"}
    BY <1>1, Zenon DEF CatalogTypes
  <1> HIDE DEF closed
  <1>3. CASE o = Outcome(closed, "ERROR", {"HY000"})
    <2>1. o.query = closed /\ o.result = "ERROR" /\ o.records = {"HY000"}
      BY <1>3, Zenon DEF Outcome
    <2> QED BY <1>1, <2>1, Zenon DEF OutcomeGood, CursorStep, CallResults, SqlResults, SqlStates
  <1>4. ASSUME NEW n \in 0..MaxRows,
               o = Outcome([closed EXCEPT !.executed = TRUE, !.fetched = FALSE,
                                          !.rows = n, !.pos = 0], "SUCCESS", {})
        PROVE  OutcomeGood(o) /\ CursorStep(q, o.query)
    <2> DEFINE open == [closed EXCEPT !.executed = TRUE, !.fetched = FALSE,
                                      !.rows = n, !.pos = 0]
    <2>1. o.query = open /\ o.result = "SUCCESS" /\ o.records = {}
      BY <1>4, Zenon DEF Outcome
    <2>2. /\ open \in Queries /\ QueryInv(open) /\ open.executed
          /\ ResultSize(open) = n /\ RowsDelivered(open) = 0
      BY <1>1, <1>2, OpenGood, Zenon
    <2> HIDE DEF open
    <2> QED BY <2>1, <2>2, Zenon DEF OutcomeGood, CursorStep, CallResults, SqlResults
  <1> QED BY <1>3, <1>4, Zenon DEF CatalogExecute, closed

(* TypeInfoQuery::Execute, which may keep part of its list of types.       *)
LEMMA TypeInfoExecuteGood ==
    ASSUME NEW q \in Queries, q.type = "TYPE_INFO", NEW o \in TypeInfoExecute(q)
    PROVE  OutcomeGood(o) /\ CursorStep(q, o.query)
  <1> DEFINE open(n) == [q EXCEPT !.executed = TRUE, !.fetched = FALSE,
                                  !.rows = n, !.pos = 0]
  <1>1. PICK n \in 0..MaxRows : \/ o = Outcome(open(n), "SUCCESS", {})
                                  \/ o = Outcome(open(n), "SUCCESS", {"HY000"})
    <2>1. CASE q.rows # 0
      <3>1. o = Outcome(open(q.rows), "SUCCESS", {}) /\ q.rows \in 0..MaxRows
        BY <2>1, Zenon DEF TypeInfoExecute, Queries
      <3> QED BY <3>1, Zenon
    <2>2. CASE q.rows = 0
      BY <2>2, Zenon DEF TypeInfoExecute
    <2> QED BY <2>1, <2>2, Zenon
  <1>2. o.query = open(n) /\ o.result = "SUCCESS" /\ o.records \subseteq SqlStates
    BY <1>1, SMTT(30) DEF Outcome, SqlStates
  <1>3. /\ open(n) \in Queries /\ QueryInv(open(n)) /\ open(n).executed
        /\ ResultSize(open(n)) = n /\ RowsDelivered(open(n)) = 0
    BY OpenGood, Zenon
  <1> HIDE DEF open
  <1> QED BY <1>2, <1>3, Zenon DEF OutcomeGood, CursorStep, CallResults, SqlResults

(* Execute keeps every query object good, and opens, closes or keeps its   *)
(* cursor (the Execute methods of the query classes).                      *)
LEMMA ExecuteGood ==
    ASSUME NEW q \in Queries, QueryInv(q), NEW o \in ExecuteOutcomes(q)
    PROVE  OutcomeGood(o) /\ CursorStep(q, o.query)
  <1>1. CASE q.type = "DATA"
    BY <1>1, DataExecuteGood, Zenon DEF ExecuteOutcomes, CatalogTypes
  <1>2. CASE q.type \in CatalogTypes
    BY <1>2, CatalogExecuteGood, Zenon DEF ExecuteOutcomes, CatalogTypes
  <1>3. CASE q.type = "TYPE_INFO"
    BY <1>3, TypeInfoExecuteGood, Zenon DEF ExecuteOutcomes, CatalogTypes
  <1>4. CASE q.type = "SPECIAL_COLUMNS"
    <2> DEFINE open == [q EXCEPT !.executed = TRUE]
    <2>1. o = Outcome(open, "SUCCESS", {})
      BY <1>4, Zenon DEF ExecuteOutcomes, CatalogTypes
    <2>2. o.query = open /\ o.result = "SUCCESS" /\ o.records = {}
      BY <2>1, Zenon DEF Outcome
    <2>3. open \in Queries
      BY Zenon DEF Queries
    <2>4. /\ open.executed = TRUE /\ open.type = q.type /\ open.pos = q.pos
          /\ open.rows = q.rows /\ open.fetched = q.fetched
      BY Zenon DEF Queries
    <2>5. q.pos = 0 /\ q.rows = 0 /\ ~q.fetched
      BY <1>4, Zenon DEF QueryInv
    <2> HIDE DEF open
    <2>6. QueryInv(open)
      BY <1>4, <2>4, <2>5, SMTT(30) DEF QueryInv
    <2>7. CursorStep(q, open)
      BY <2>4, <2>5, QueryAssumption, SMTT(30) DEF CursorStep, ResultSize, RowsDelivered
    <2> QED BY <2>2, <2>3, <2>6, <2>7, Zenon DEF OutcomeGood, CallResults, SqlResults
  <1>5. CASE q.type \notin CatalogTypes \cup {"DATA", "TYPE_INFO", "SPECIAL_COLUMNS"}
    <2>1. o = Outcome(q, "ERROR", {"HY000"})
      BY <1>5, Zenon DEF ExecuteOutcomes
    <2>2. o.query = q /\ o.result = "ERROR" /\ o.records = {"HY000"}
      BY <2>1, Zenon DEF Outcome
    <2> QED BY <2>2, Zenon DEF OutcomeGood, CursorStep, CallResults, SqlResults, SqlStates
  <1> QED BY <1>1, <1>2, <1>3, <1>4, <1>5, Zenon

(* Executing through the statement, which may replace the query object     *)
(* first (InternalExecuteSqlQuery).                                        *)
LEMMA InternalExecuteGood ==
    ASSUME NEW q \in Queries, QueryInv(q), NEW ps, NEW o \in InternalExecute(q, ps)
    PROVE  OutcomeGood(o) /\ CursorStep(q, o.query)
  <1> DEFINE chosen ==
            CASE paramSetSize > 1 /\ q.type = "DATA"  -> NewQuery("BATCH")
              [] paramSetSize = 1 /\ q.type = "BATCH" -> NewQuery("DATA")
              [] OTHER                                -> q
  <1>1. chosen = q \/ chosen = NewQuery("BATCH") \/ chosen = NewQuery("DATA")
    BY Zenon
  <1>2. chosen \in Queries /\ QueryInv(chosen) /\ (chosen.executed = FALSE \/ chosen = q)
    BY <1>1, NewQueryGood, Zenon DEF QueryTypes
  <1> HIDE DEF chosen
  <1>3. \/ o = Outcome(q, "ERROR", {"HY010"})
        \/ o = Outcome(chosen, "ERROR", {"HYC00"})
        \/ o \in ExecuteOutcomes(chosen)
    BY Zenon DEF InternalExecute, chosen
  <1>4. CASE o = Outcome(q, "ERROR", {"HY010"}) \/ o = Outcome(chosen, "ERROR", {"HYC00"})
    <2>1. o.query \in {q, chosen} /\ o.result = "ERROR" /\ o.records \subseteq SqlStates
      BY <1>4, SMTT(30) DEF Outcome, SqlStates
    <2> QED BY <1>2, <2>1, Zenon DEF OutcomeGood, CursorStep, CallResults, SqlResults
  <1>5. CASE o \in ExecuteOutcomes(chosen)
    <2>1. OutcomeGood(o) /\ CursorStep(chosen, o.query)
      BY <1>2, <1>5, ExecuteGood, Zenon
    <2> QED BY <1>2, <2>1, Zenon DEF CursorStep, ResultSize, RowsDelivered
  <1> QED BY <1>3, <1>4, <1>5, Zenon

-----------------------------------------------------------------------------
(* What one turn of the fetch loop does to the row a query object shows:   *)
(* on to the next row, or to none for good.                                *)
RowStep(q, r) ==
    /\ RowShown(r) \in 0..MaxRows
    /\ r.executed = q.executed
    /\ r.executed =>
         /\ RowShown(r) # 0 =>
              HasData(q) /\ (RowShown(q) # 0 => RowShown(r) = RowShown(q) + 1)
         /\ RowShown(r) = 0 => ~HasData(r)

(* Status records carry known SQLSTATEs (ProcessConversionResult). *)
LEMMA ConversionGood ==
    ASSUME NEW conv
    PROVE  /\ ProcessConversionResult(conv) \in CallResults
           /\ ConversionRecords(conv) \subseteq SqlStates
  BY Zenon DEF ProcessConversionResult, ConversionRecords, CallResults, SqlResults, SqlStates

(* DocumentDbCursor::Increment keeps row and columns on the iterator. *)
LEMMA IncrementGood ==
    ASSUME NEW q \in Queries, QueryInv(q), q.executed, q.type = "DATA", HasData(q)
    PROVE  LET r == Increment(q)
           IN  /\ r \in Queries
               /\ QueryInv(r)
               /\ r.executed = q.executed /\ r.type = "DATA" /\ r.fetched = TRUE
               /\ r.rows = q.rows
               /\ r.pos = IF q.fetched THEN q.pos + 1 ELSE q.pos
  <1> DEFINE pos == IF q.fetched THEN q.pos + 1 ELSE q.pos
             row == IF pos # q.rows THEN pos + 1 ELSE 0
             columns == IF pos # q.rows THEN UpdateColumns(q.columns, pos + 1)
                                        ELSE Undiscovered
             r == [q EXCEPT !.fetched = TRUE, !.pos = pos, !.row = row,
                            !.columns = columns]
  <1>1. /\ q.pos \in 0..MaxRows /\ q.rows \in 0..MaxRows
        /\ q.columns \in [1..NumCols -> 0..MaxRows]
    BY Zenon DEF Queries
  <1>2. q.pos < q.rows
    BY <1>1, QueryAssumption, SMTT(30) DEF QueryInv, HasData
  <1>3. pos \in 0..MaxRows /\ pos <= q.rows /\ row \in 0..MaxRows
    BY <1>1, <1>2, QueryAssumption, SMTT(30)
  <1>4. columns \in [1..NumCols -> 0..MaxRows] /\ \A c \in 1..NumCols : columns[c] \in {0, row}
    BY <1>1, <1>3, QueryAssumption, Zenon DEF UpdateColumns, Undiscovered
  <1>5. Increment(q) = r
    BY Zenon DEF Increment, Queries
  <1> HIDE DEF pos, row, columns
  <1>6. r \in Queries
    BY <1>3, <1>4, Zenon DEF Queries
  <1>7. /\ r.executed = q.executed /\ r.type = q.type /\ r.fetched = TRUE
        /\ r.rows = q.rows /\ r.pos = pos /\ r.row = row /\ r.columns = columns
    BY Zenon DEF Queries
  <1> HIDE DEF r
  <1>8. QueryInv(r)
    BY <1>3, <1>4, <1>7, Zenon DEF QueryInv, HasData, row
  <1> QED BY <1>5, <1>6, <1>7, <1>8, Zenon DEF pos

(* DataQuery::FetchNextRow: one row on, or nothing more to show.           *)
LEMMA DataFetchGood ==
    ASSUME NEW q \in Queries, QueryInv(q), q.type = "DATA", NEW b,
           NEW o \in DataFetchNextRow(q, b)
    PROVE  /\ OutcomeGood(o)
           /\ CursorStep(q, o.query)
           /\ o.result # "TERMINATED" => RowStep(q, o.query)
  <1>1. CASE ~q.executed
    <2>1. o.query = q /\ o.result = "ERROR" /\ o.records = {"HY010"}
      BY <1>1, SMTT(30) DEF DataFetchNextRow, Outcome
    <2> QED BY <1>1, <2>1, Zenon DEF OutcomeGood, CursorStep, RowStep, RowShown, Queries,
                              CallResults, SqlResults, SqlStates
  <1>2. CASE q.executed /\ ~HasData(q)
    <2>1. o.query = q /\ o.result = "NO_DATA" /\ o.records = {}
      BY <1>2, SMTT(30) DEF DataFetchNextRow, Outcome
    <2>2. q.row = 0
      BY <1>2, Zenon DEF QueryInv
    <2>3. OutcomeGood(o)
      BY <2>1, Zenon DEF OutcomeGood, CallResults, SqlResults
    <2>4. CursorStep(q, o.query)
      BY <2>1, Zenon DEF CursorStep
    <2>5. RowShown(q) = 0 /\ 0 \in 0..MaxRows
      BY <2>2, QueryAssumption, SMTT(30) DEF RowShown
    <2>6. RowStep(q, o.query)
      BY <1>2, <2>1, <2>5, Zenon DEF RowStep
    <2> QED BY <2>3, <2>4, <2>6, Zenon
  <1>3. CASE q.executed /\ HasData(q)
    <2> DEFINE next == Increment(q)
               read(conv) == ReadColumns(b, conv)
               columns(conv) == [c \in 1..NumCols |->
                   IF \E d \in read(conv) : c <= d THEN next.row ELSE next.columns[c]]
               row(conv) == [next EXCEPT !.columns = columns(conv)]
    <2>1. /\ next \in Queries /\ QueryInv(next) /\ next.executed = q.executed
          /\ next.type = "DATA" /\ next.fetched = TRUE /\ next.rows = q.rows
          /\ next.pos = IF q.fetched THEN q.pos + 1 ELSE q.pos
      BY <1>3, IncrementGood, Zenon
    <2>2. /\ q.pos \in 0..MaxRows /\ q.rows \in 0..MaxRows /\ q.pos < q.rows
          /\ ~q.fetched => q.pos = 0
          /\ q.fetched => q.row = q.pos + 1
          /\ ~q.fetched => q.row = 0
      BY <1>3, QueryAssumption, SMTT(30) DEF Queries, QueryInv, HasData
    <2> HIDE DEF next
    <2>3. \/ q.fetched /\ o = Outcome(q, "TERMINATED", {})
          \/ next.row = 0 /\ o = Outcome(next, "NO_DATA", {})
          \/ /\ next.row # 0
             /\ \E conv : /\ o.query = row(conv)
                          /\ o.result \in {"ERROR", "SUCCESS"}
                          /\ o.records = UNION {ConversionRecords(conv[c]) : c \in read(conv)}
      <3>1. DataFetchNextRow(q, b) =
              (IF q.fetched THEN {Outcome(q, "TERMINATED", {})} ELSE {})
              \cup (IF next.row = 0 THEN {Outcome(next, "NO_DATA", {})}
                    ELSE {Outcome(row(conv),
                                  IF \E c \in read(conv) : conv[c] = "FAILURE"
                                  THEN "ERROR" ELSE "SUCCESS",
                                  UNION {ConversionRecords(conv[c]) : c \in read(conv)}) :
                            conv \in [b \cap 1..NumCols -> ConversionResults]})
        BY <1>3, Zenon DEF DataFetchNextRow, next
      <3> HIDE DEF read, row
      <3> QED BY <3>1, SMTT(30) DEF Outcome
    <2>4. RowsDelivered(next) = RowsDelivered(q) + 1 \/ RowsDelivered(next) = RowsDelivered(q)
      BY <1>3, <2>1, <2>2, Zenon DEF RowsDelivered, HasData
    <2>5. RowsDelivered(next) = RowsDelivered(q) + 1 => RowsDelivered(q) < ResultSize(q)
      BY <1>3, <2>1, <2>2, SMTT(30) DEF RowsDelivered, HasData, ResultSize
    <2>6. CursorStep(q, next)
      BY <1>3, <2>1, <2>4, <2>5, Zenon DEF CursorStep, ResultSize
    <2>7. RowStep(q, next)
      BY <1>3, <2>1, <2>2, SMTT(30) DEF RowStep, RowShown, HasData, QueryInv, Queries
    <2>8. CASE q.fetched /\ o = Outcome(q, "TERMINATED", {})
      <3>1. o.query = q /\ o.result = "TERMINATED" /\ o.records = {}
        BY <2>8, Zenon DEF Outcome
      <3> QED BY <3>1, Zenon DEF OutcomeGood, CursorStep, CallResults
    <2>9. CASE next.row = 0 /\ o = Outcome(next, "NO_DATA", {})
      <3>1. o.query = next /\ o.result = "NO_DATA" /\ o.records = {}
        BY <2>9, Zenon DEF Outcome
      <3> QED BY <2>1, <2>6, <2>7, <3>1, Zenon DEF OutcomeGood, CallResults, SqlResults
    <2>10. ASSUME NEW conv, o.query = row(conv), o.result \in {"ERROR", "SUCCESS"},
                  o.records = UNION {ConversionRecords(conv[c]) : c \in read(conv)}
           PROVE  OutcomeGood(o) /\ CursorStep(q, o.query) /\ RowStep(q, o.query)
      <3>1. o.records \subseteq SqlStates
        BY <2>10, ConversionGood, ZenonT(60)
      <3>2. /\ columns(conv) \in [1..NumCols -> 0..MaxRows]
            /\ \A c \in 1..NumCols : columns(conv)[c] \in {0, next.row}
        BY <1>3, <2>1, Zenon DEF Queries, QueryInv
      <3> HIDE DEF columns, read
      <3>3. row(conv) \in Queries
        BY <2>1, <3>2, Zenon DEF Queries
      <3>4. /\ row(conv).executed = next.executed /\ row(conv).type = next.type
            /\ row(conv).fetched = next.fetched /\ row(conv).rows = next.rows
            /\ row(conv).pos = next.pos /\ row(conv).row = next.row
            /\ row(conv).columns = columns(conv)
        BY <2>1, Zenon DEF Queries
      <3> HIDE DEF row
      <3>5. QueryInv(row(conv))
        BY <2>1, <3>2, <3>4, ZenonT(60) DEF QueryInv, HasData
      <3>6. CursorStep(q, row(conv)) /\ RowStep(q, row(conv))
        BY <2>6, <2>7, <3>4, Zenon DEF CursorStep, RowStep, ResultSize, RowsDelivered, RowShown, HasData
      <3> QED BY <2>10, <3>1, <3>3, <3>5, <3>6, Zenon DEF OutcomeGood, CallResults, SqlResults
    <2> HIDE DEF row, read
    <2> QED BY <2>3, <2>8, <2>9, <2>10, Zenon
  <1> QED BY <1>1, <1>2, <1>3, Zenon

(* The same for the classes whose rows are in memory. *)
LEMMA CatalogFetchGood ==
    ASSUME NEW q \in Queries, QueryInv(q), q.type \in CatalogTypes \cup {"TYPE_INFO"}, NEW b,
           NEW o \in CatalogFetchNextRow(q, b)
    PROVE  OutcomeGood(o) /\ CursorStep(q, o.query) /\ RowStep(q, o.query)
  <1>1. q.type \notin {"DATA", "SPECIAL_COLUMNS", "NONE"}
    BY Zenon DEF CatalogTypes
  <1>2. CASE ~q.executed
    <2>1. o.query = q /\ o.result = "ERROR" /\ o.records = {"HY010"}
      BY <1>2, SMTT(30) DEF CatalogFetchNextRow, Outcome
    <2>2. RowShown(q) = 0 /\ 0 \in 0..MaxRows
      BY <1>1, <1>2, QueryAssumption, SMTT(30) DEF RowShown
    <2> QED BY <1>2, <2>1, <2>2, Zenon
            DEF OutcomeGood, CursorStep, RowStep, CallResults, SqlResults, SqlStates
  <1>3. CASE q.executed
    <2> DEFINE pos == IF q.fetched /\ HasData(q) THEN q.pos + 1 ELSE q.pos
               next == [q EXCEPT !.fetched = TRUE, !.pos = pos]
    <2>1. /\ q.pos \in 0..MaxRows /\ q.rows \in 0..MaxRows /\ q.pos <= q.rows
          /\ ~q.fetched => q.pos = 0
      BY <1>3, Zenon DEF Queries, QueryInv
    <2>2. pos \in 0..MaxRows /\ pos <= q.rows
      BY <2>1, QueryAssumption, SMTT(30) DEF HasData
    <2>3. /\ o.query = next
          /\ o.result \in {"NO_DATA", "SUCCESS"}
          /\ o.records \subseteq {"07009"}
      BY <1>3, SMTT(30) DEF CatalogFetchNextRow, Outcome
    <2> HIDE DEF pos
    <2>4. next \in Queries
      BY <2>2, Zenon DEF Queries
    <2>5. /\ next.executed = q.executed /\ next.type = q.type /\ next.fetched = TRUE
          /\ next.rows = q.rows /\ next.pos = pos
      BY Zenon DEF Queries
    <2> HIDE DEF next
    <2>6. QueryInv(next)
      BY <1>1, <2>2, <2>5, Zenon DEF QueryInv
    <2>7. RowsDelivered(next) = RowsDelivered(q) + 1 \/ RowsDelivered(next) = RowsDelivered(q)
      BY <1>3, <2>1, <2>5, Zenon DEF RowsDelivered, HasData, pos
    <2>8. RowsDelivered(next) = RowsDelivered(q) + 1 => RowsDelivered(q) < ResultSize(q)
      BY <1>3, <2>1, <2>5, SMTT(30) DEF RowsDelivered, HasData, ResultSize, pos
    <2>9. CursorStep(q, next)
      BY <1>3, <2>5, <2>7, <2>8, Zenon DEF CursorStep, ResultSize
    <2>10. RowStep(q, next)
      BY <1>1, <1>3, <2>1, <2>5, QueryAssumption, SMTT(30) DEF RowStep, RowShown, HasData, pos
    <2> QED BY <2>3, <2>4, <2>6, <2>9, <2>10, Zenon
            DEF OutcomeGood, CallResults, SqlResults, SqlStates
  <1> QED BY <1>2, <1>3, Zenon DEF Queries

(* A query object that is returned as it was. *)
LEMMA SameQueryGood ==
    ASSUME NEW q \in Queries, QueryInv(q), NEW o, o.query = q,
           o.result \in CallResults, o.records \subseteq SqlStates
    PROVE  OutcomeGood(o) /\ CursorStep(q, o.query)
  BY Zenon DEF OutcomeGood, CursorStep

(* FetchNextRow of every class moves the cursor by at most one row and     *)
(* shows the row it is on.                                                 *)
LEMMA FetchGood ==
    ASSUME NEW q \in Queries, QueryInv(q), NEW b, NEW o \in FetchNextRowOutcomes(q, b)
    PROVE  /\ OutcomeGood(o)
           /\ CursorStep(q, o.query)
           /\ o.result # "TERMINATED" => RowStep(q, o.query)
  <1>1. CASE q.type = "DATA"
    <2>1. o \in DataFetchNextRow(q, b)
      BY <1>1, Zenon DEF FetchNextRowOutcomes, CatalogTypes
    <2> QED BY <1>1, <2>1, DataFetchGood, Zenon
  <1>2. CASE q.type \in CatalogTypes \cup {"TYPE_INFO"}
    <2>1. o \in CatalogFetchNextRow(q, b)
      BY <1>2, Zenon DEF FetchNextRowOutcomes, CatalogTypes
    <2> QED BY <1>2, <2>1, CatalogFetchGood, Zenon
  <1>3. CASE q.type \notin CatalogTypes \cup {"TYPE_INFO", "DATA"}
    <2>1. /\ o.query = q
          /\ o.result \in {"NO_DATA", "ERROR"}
          /\ o.records \subseteq {"HY010"}
      BY <1>3, SMTT(30) DEF FetchNextRowOutcomes, Outcome
    <2>2. OutcomeGood(o) /\ CursorStep(q, o.query)
      BY <2>1, SameQueryGood, Zenon DEF CallResults, SqlResults, SqlStates
    <2>3. q.executed => q.type = "SPECIAL_COLUMNS" /\ ~HasData(q)
      BY <1>3, Zenon DEF Queries, QueryTypes, QueryInv, HasData, CatalogTypes
    <2>4. RowShown(q) = 0 /\ 0 \in 0..MaxRows
      BY <1>3, <2>3, QueryAssumption, SMTT(30) DEF RowShown
    <2>5. RowStep(q, o.query)
      BY <2>1, <2>3, <2>4, Zenon DEF RowStep
    <2> QED BY <2>2, <2>5, Zenon
  <1> QED BY <1>1, <1>2, <1>3, Zenon

(* Reading a column of the current row discovers columns of that row and   *)
(* moves nothing (Query::GetColumn).                                       *)
LEMMA GetColumnGood ==
    ASSUME NEW q \in Queries, QueryInv(q), NEW column, NEW o \in GetColumnOutcomes(q, column)
    PROVE  OutcomeGood(o) /\ CursorStep(q, o.query)
  <1>1. CASE q.type = "DATA" /\ q.executed /\ q.row # 0
    <2> DEFINE columns == [c \in 1..NumCols |->
                  IF c <= column /\ q.columns[c] = 0 THEN q.row ELSE q.columns[c]]
               r == [q EXCEPT !.columns = columns]
    <2>1. o \in DataGetColumn(q, column)
      BY <1>1, Zenon DEF GetColumnOutcomes, CatalogTypes
    <2>2. /\ o.query \in {q, r}
          /\ o.result \in CallResults
          /\ o.records \subseteq SqlStates
      <3>1. PICK conv : o = Outcome(IF column \in 1..NumCols THEN r ELSE q,
                                    ProcessConversionResult(conv), ConversionRecords(conv))
        BY <1>1, <2>1, Zenon DEF DataGetColumn, EnsureColumnDiscovered
      <3>2. ProcessConversionResult(conv) \in CallResults
        BY Zenon DEF ProcessConversionResult, CallResults, SqlResults
      <3>3. ConversionRecords(conv) \subseteq SqlStates
        BY ConversionGood, Zenon
      <3> QED BY <3>1, <3>2, <3>3, Zenon DEF Outcome
    <2>3. /\ columns \in [1..NumCols -> 0..MaxRows]
          /\ \A c \in 1..NumCols : columns[c] \in {0, q.row}
      BY <1>1, Zenon DEF Queries, QueryInv
    <2> HIDE DEF columns
    <2>4. r \in Queries
      BY <2>3, Zenon DEF Queries
    <2>5. /\ r.executed = q.executed /\ r.type = q.type /\ r.fetched = q.fetched
          /\ r.rows = q.rows /\ r.pos = q.pos /\ r.row = q.row /\ r.columns = columns
      BY Zenon DEF Queries
    <2> HIDE DEF r
    <2>6. QueryInv(r)
      BY <2>3, <2>5, Zenon DEF QueryInv, HasData
    <2>7. CursorStep(q, r) /\ CursorStep(q, q)
      BY <2>5, Zenon DEF CursorStep, ResultSize, RowsDelivered, HasData
    <2> QED BY <2>2, <2>4, <2>6, <2>7, Zenon DEF OutcomeGood
  <1>2. CASE ~(q.type = "DATA" /\ q.executed /\ q.row # 0)
    <2>1. /\ o.query = q
          /\ o.result \in {"ERROR", "NO_DATA", "SUCCESS"}
          /\ o.records \subseteq {"HY010", "24000", "07009"}
      <3>1. CASE q.type = "DATA"
        <4>1. o \in DataGetColumn(q, column)
          BY <3>1, Zenon DEF GetColumnOutcomes, CatalogTypes
        <4> QED BY <1>2, <3>1, <4>1, SMTT(30) DEF DataGetColumn, Outcome
      <3>2. CASE q.type \in CatalogTypes \cup {"TYPE_INFO"}
        <4>1. o \in CatalogGetColumn(q, column)
          BY <3>2, Zenon DEF GetColumnOutcomes, CatalogTypes
        <4> QED BY <4>1, SMTT(30) DEF CatalogGetColumn, Outcome
      <3>3. CASE q.type \notin CatalogTypes \cup {"TYPE_INFO", "DATA"}
        BY <3>3, SMTT(30) DEF GetColumnOutcomes, Outcome
      <3> QED BY <3>1, <3>2, <3>3, Zenon
    <2> QED BY <2>1, SameQueryGood, Zenon DEF CallResults, SqlResults, SqlStates
  <1> QED BY <1>1, <1>2, Zenon

(* Asking for the metadata at most notes that it is there (GetMeta). *)
LEMMA GetMetaGood ==
    ASSUME NEW q \in Queries, QueryInv(q), NEW o \in GetMetaOutcomes(q)
    PROVE  OutcomeGood(o) /\ CursorStep(q, o.query)
  <1> DEFINE r == [q EXCEPT !.metaSet = TRUE]
  <1>1. /\ o.query \in {q, r}
        /\ o.result \in {"SUCCESS", "ERROR"}
        /\ o.records \subseteq {"HY000"}
    BY SMTT(30) DEF GetMetaOutcomes, Outcome
  <1>2. r \in Queries
    BY Zenon DEF Queries
  <1>3. /\ r.executed = q.executed /\ r.type = q.type /\ r.fetched = q.fetched
        /\ r.rows = q.rows /\ r.pos = q.pos /\ r.row = q.row /\ r.columns = q.columns
    BY Zenon DEF Queries
  <1> HIDE DEF r
  <1>4. QueryInv(r) /\ CursorStep(q, r)
    BY <1>3, Zenon DEF QueryInv, HasData, CursorStep, ResultSize, RowsDelivered
  <1>5. CursorStep(q, q)
    BY Zenon DEF CursorStep
  <1> QED BY <1>1, <1>2, <1>4, <1>5, Zenon DEF OutcomeGood, CallResults, SqlResults, SqlStates

-----------------------------------------------------------------------------
(* The inductive invariant. *)
IInv == TypeOK /\ QueryInv(query)

(* What TypeOK says of the variables a Reply leaves alone. *)
SetupOK ==
    /\ bound \subseteq Columns
    /\ rowArraySize \in 1..MaxRowArray
    /\ rowsFetchedPtr \in BOOLEAN /\ rowStatusPtr \in BOOLEAN
    /\ paramSetSize \in ParamSetSizes \cup {1}

ParamsOK == params \in [Params -> Parameters] /\ selected \in Params \cup {0}

LoopOK ==
    /\ inFetch \in BOOLEAN
    /\ i \in 0..MaxRowArray /\ nFetched \in 0..i /\ nErrors \in 0..i

(* A call that returns: the diagnostics and the cleared buffers are well   *)
(* typed, so only what else it changed has to be looked at.                *)
LEMMA ReplyGood ==
    ASSUME IInv, NEW kind \in Calls, NEW res \in CallResults, NEW records \in SUBSET SqlStates,
           Reply(kind, res, records), SetupOK', ParamsOK',
           query' \in Queries, QueryInv(query')
    PROVE  IInv'
  <1>1. 0 \in 0..MaxRowArray /\ 0 \in 0..MaxRows
    BY QueryAssumption, StatementAssumption, SMTT(30)
  <1>2. /\ rowStatuses' \in [Elements -> RowStatuses \cup {"UNSET"}]
        /\ rowset' \in [Elements -> 0..MaxRows]
        /\ rowsFetched' \in 0..MaxRowArray
    BY <1>1, Zenon DEF Reply, NoStatuses, NoRowset
  <1>3. call' \in Calls /\ result' \in CallResults /\ recs' \subseteq SqlStates
    BY Zenon DEF Reply
  <1>4. LoopOK'
    BY Zenon DEF Reply, loopVars, IInv, TypeOK, LoopOK
  <1> QED BY <1>2, <1>3, <1>4, Zenon DEF IInv, TypeOK, SetupOK, ParamsOK, LoopOK

(* A call answered by an outcome that is good. *)
LEMMA ReplyOutcomeGood ==
    ASSUME IInv, NEW kind \in Calls, NEW outcomes, ReplyOutcome(kind, outcomes),
           \A o \in outcomes : OutcomeGood(o) /\ CursorStep(query, o.query),
           SetupOK', ParamsOK'
    PROVE  IInv' /\ CursorStep(query, query')
  <1>1. PICK o \in outcomes : query' = o.query /\ Reply(kind, o.result, o.records)
    BY Zenon DEF ReplyOutcome
  <1>2. OutcomeGood(o) /\ CursorStep(query, o.query)
    BY <1>1, Zenon
  <1> QED BY <1>1, <1>2, ReplyGood, Zenon DEF OutcomeGood

(* A call that changes nothing but the diagnostics. *)
LEMMA ReplyOnlyGood ==
    ASSUME IInv, NEW kind \in Calls, NEW res \in CallResults, NEW records \in SUBSET SqlStates,
           ReplyOnly(kind, res, records)
    PROVE  IInv' /\ CursorStep(query, query')
  <1>1. SetupOK' /\ ParamsOK' /\ query' = query
    BY Zenon DEF ReplyOnly, IInv, TypeOK, SetupOK, ParamsOK, setupVars, paramVars
  <1>2. CursorStep(query, query')
    BY <1>1, Zenon DEF CursorStep
  <1> QED BY <1>1, <1>2, ReplyGood, Zenon DEF ReplyOnly, IInv, TypeOK

(* The query object stays: the cursor does too. *)
LEMMA SameCursor == query' = query => CursorStep(query, query')
  BY Zenon DEF CursorStep

(* Binding, attributes and releasing bindings leave the query alone. *)
LEMMA BindingsGood ==
    ASSUME IInv, Bindings
    PROVE  IInv' /\ CursorStep(query, query')
  <1> USE DEF Calls, CallResults, SqlResults, SqlStates
  <1>1. /\ query \in Queries /\ QueryInv(query) /\ SetupOK /\ ParamsOK
    BY Zenon DEF IInv, TypeOK, SetupOK, ParamsOK
  <1>2. ASSUME NEW column \in Columns, BindColumn(column) \/ UnbindColumn(column)
        PROVE  IInv' /\ CursorStep(query, query')
    <2>1. SetupOK' /\ ParamsOK' /\ query' = query /\ Reply("OTHER", "SUCCESS", {})
      BY <1>1, <1>2, Zenon DEF BindColumn, UnbindColumn, SetupOK, ParamsOK, paramVars
    <2> QED BY <1>1, <2>1, ReplyGood, SameCursor, Zenon
  <1>3. CASE BindColumnError
    BY <1>3, ReplyOnlyGood, Zenon DEF BindColumnError
  <1>4. ASSUME NEW n \in Params, NEW shape \in Shapes, BindParameter(n, shape)
        PROVE  IInv' /\ CursorStep(query, query')
    <2>1. shape \in [dae : BOOLEAN, append : BOOLEAN, size : 0..MaxData]
      BY StatementAssumption, Zenon
    <2>2. params' \in [Params -> Parameters]
      BY <1>1, <1>4, <2>1, Zenon DEF BindParameter, ParamsOK, Parameters
    <2>3. SetupOK' /\ selected' = selected /\ query' = query /\ Reply("OTHER", "SUCCESS", {})
      BY <1>1, <1>4, Zenon DEF BindParameter, SetupOK, setupVars
    <2> QED BY <1>1, <2>2, <2>3, ReplyGood, SameCursor, Zenon DEF ParamsOK
  <1>5. CASE BindParameterError
    BY <1>5, ReplyOnlyGood, Zenon DEF BindParameterError
  <1>6. ASSUME NEW size \in 0..MaxRowArray, SetRowArraySize(size)
        PROVE  IInv' /\ CursorStep(query, query')
    <2>1. SetupOK' /\ ParamsOK' /\ query' = query
      BY <1>1, <1>6, StatementAssumption, SMTT(30) DEF SetRowArraySize, SetupOK, ParamsOK, paramVars
    <2>2. Reply("OTHER", "ERROR", {"HY024"}) \/ Reply("OTHER", "SUCCESS", {})
      BY <1>6, Zenon DEF SetRowArraySize
    <2> QED BY <1>1, <2>1, <2>2, ReplyGood, SameCursor, Zenon
  <1>7. ASSUME NEW given \in Pointers, SetRowsFetchedPtr(given) \/ SetRowStatusesPtr(given)
        PROVE  IInv' /\ CursorStep(query, query')
    <2>1. SetupOK' /\ ParamsOK' /\ query' = query /\ Reply("OTHER", "SUCCESS", {})
      BY <1>1, <1>7, StatementAssumption, Zenon
         DEF SetRowsFetchedPtr, SetRowStatusesPtr, SetupOK, ParamsOK, paramVars
    <2> QED BY <1>1, <2>1, ReplyGood, SameCursor, Zenon
  <1>8. ASSUME NEW size \in ParamSetSizes, SetParamSetSize(size)
        PROVE  IInv' /\ CursorStep(query, query')
    <2>1. SetupOK' /\ ParamsOK' /\ query' = query /\ Reply("OTHER", "SUCCESS", {})
      BY <1>1, <1>8, Zenon DEF SetParamSetSize, SetupOK, ParamsOK, paramVars
    <2> QED BY <1>1, <2>1, ReplyGood, SameCursor, Zenon
  <1>9. CASE SetOtherAttribute \/ GetAttribute \/ FreeResourcesError
    BY <1>9, ReplyOnlyGood, ZenonT(60) DEF SetOtherAttribute, GetAttribute, FreeResourcesError
  <1>10. CASE UnbindAllColumns
    <2>1. SetupOK' /\ ParamsOK' /\ query' = query /\ Reply("OTHER", "SUCCESS", {})
      BY <1>1, <1>10, Zenon DEF UnbindAllColumns, SetupOK, ParamsOK, paramVars
    <2> QED BY <1>1, <2>1, ReplyGood, SameCursor, Zenon
  <1>11. CASE ResetParams
    <2>1. params' \in [Params -> Parameters]
      BY <1>11, StatementAssumption, SMTT(30) DEF ResetParams, Unbound, Parameters
    <2>2. SetupOK' /\ selected' = selected /\ query' = query /\ Reply("OTHER", "SUCCESS", {})
      BY <1>1, <1>11, Zenon DEF ResetParams, SetupOK, setupVars
    <2> QED BY <1>1, <2>1, <2>2, ReplyGood, SameCursor, Zenon DEF ParamsOK
  <1> QED BY <1>2, <1>3, <1>4, <1>5, <1>6, <1>7, <1>8, <1>9, <1>10, <1>11, Zenon DEF Bindings

(* Dropping the stored data keeps the parameters well typed. *)
LEMMA PrepareParamsGood ==
    ASSUME params \in [Params -> Parameters]
    PROVE  PrepareParams(params) \in [Params -> Parameters]
  BY StatementAssumption, SMTT(30) DEF PrepareParams, Parameters

(* A new query object that has not been executed has no cursor. *)
LEMMA ReplaceQueryGood ==
    ASSUME NEW q, NEW type \in QueryTypes
    PROVE  /\ NewQuery(type) \in Queries
           /\ QueryInv(NewQuery(type))
           /\ CursorStep(q, NewQuery(type))
  BY NewQueryGood, Zenon DEF CursorStep

(* What a step from an object without a cursor leaves may follow any       *)
(* other: the object it replaces was closed.                               *)
LEMMA FromClosedGood ==
    ASSUME NEW p, NEW q, NEW r, q.executed = FALSE, CursorStep(q, r)
    PROVE  CursorStep(p, r)
  BY Zenon DEF CursorStep

(* Preparing, executing, parameter data and closing.                       *)
LEMMA ExecutionsGood ==
    ASSUME IInv, Executions
    PROVE  IInv' /\ CursorStep(query, query')
  <1> USE DEF Calls, CallResults, SqlResults, SqlStates
  <1>1. /\ query \in Queries /\ QueryInv(query) /\ SetupOK /\ ParamsOK
    BY Zenon DEF IInv, TypeOK, SetupOK, ParamsOK
  <1>2. PrepareParams(params) \in [Params -> Parameters]
    BY <1>1, PrepareParamsGood, Zenon DEF ParamsOK
  <1>3. UNCHANGED setupVars => SetupOK'
    BY <1>1, Zenon DEF SetupOK, setupVars
  <1>4. UNCHANGED paramVars => ParamsOK'
    BY <1>1, Zenon DEF ParamsOK, paramVars
  <1>5. params' = PrepareParams(params) /\ selected' = selected => ParamsOK'
    BY <1>1, <1>2, Zenon DEF ParamsOK
  <1>6. CASE PrepareSqlQuery \/ PrepareInternalCommand
    <2>1. CASE ReplyOnly("OTHER", "ERROR", {"42000"})
      BY <2>1, ReplyOnlyGood, Zenon
    <2>2. CASE ~ReplyOnly("OTHER", "ERROR", {"42000"})
      <3>1. PICK type \in {"DATA", "INTERNAL"} : query' = NewQuery(type)
        BY <1>6, <2>2, Zenon DEF PrepareSqlQuery, PrepareInternalCommand
      <3>2. /\ params' = PrepareParams(params) /\ selected' = selected
            /\ UNCHANGED setupVars /\ Reply("OTHER", "SUCCESS", {})
        BY <1>6, <2>2, Zenon DEF PrepareSqlQuery, PrepareInternalCommand
      <3>3. NewQuery(type) \in Queries /\ QueryInv(NewQuery(type))
            /\ CursorStep(query, NewQuery(type))
        BY ReplaceQueryGood, Zenon DEF QueryTypes
      <3> QED BY <1>3, <1>5, <3>1, <3>2, <3>3, ReplyGood, Zenon
    <2> QED BY <2>1, <2>2, Zenon
  <1>7. CASE Execute
    <2>1. \A o \in InternalExecute(query, params) : OutcomeGood(o) /\ CursorStep(query, o.query)
      BY <1>1, InternalExecuteGood, Zenon
    <2>2. /\ ReplyOutcome("EXECUTE", InternalExecute(query, params))
          /\ SetupOK' /\ ParamsOK'
      BY <1>3, <1>4, <1>7, Zenon DEF Execute
    <2> QED BY <2>1, <2>2, ReplyOutcomeGood, Zenon
  <1>8. CASE ExecDirect
    <2>1. CASE ReplyOnly("EXECUTE", "ERROR", {"42000"})
      BY <2>1, ReplyOnlyGood, Zenon
    <2>2. CASE ~ReplyOnly("EXECUTE", "ERROR", {"42000"})
      <3>1. PICK type \in {"DATA", "INTERNAL"} :
               ReplyOutcome("EXECUTE", InternalExecute(NewQuery(type), PrepareParams(params)))
        BY <1>8, <2>2, Zenon DEF ExecDirect
      <3>2. SetupOK' /\ ParamsOK'
        BY <1>3, <1>5, <1>8, <2>2, Zenon DEF ExecDirect
      <3> DEFINE q == NewQuery(type)
                 ps == PrepareParams(params)
      <3>3. q \in Queries /\ QueryInv(q) /\ q.executed = FALSE
        BY NewQueryGood, Zenon DEF QueryTypes
      <3> HIDE DEF q, ps
      <3>4. ASSUME NEW o \in InternalExecute(q, ps)
            PROVE  OutcomeGood(o) /\ CursorStep(query, o.query)
        <4>1. OutcomeGood(o) /\ CursorStep(q, o.query)
          BY <3>3, InternalExecuteGood, Zenon
        <4> QED BY <4>1, <3>3, FromClosedGood, Zenon
      <3> QED BY <3>1, <3>2, <3>4, ReplyOutcomeGood, Zenon DEF q, ps
    <2> QED BY <2>1, <2>2, Zenon
  <1>9. ASSUME NEW type \in CatalogTypes \cup {"TYPE_INFO", "SPECIAL_COLUMNS"},
               ExecuteMetaQuery(type)
        PROVE  IInv' /\ CursorStep(query, query')
    <2> DEFINE q == NewQuery(type)
    <2>1. ReplyOutcome("EXECUTE", ExecuteOutcomes(q)) /\ SetupOK' /\ ParamsOK'
      BY <1>3, <1>4, <1>9, Zenon DEF ExecuteMetaQuery
    <2>2. q \in Queries /\ QueryInv(q) /\ q.executed = FALSE
      BY NewQueryGood, Zenon DEF QueryTypes
    <2> HIDE DEF q
    <2>3. ASSUME NEW o \in ExecuteOutcomes(q)
          PROVE  OutcomeGood(o) /\ CursorStep(query, o.query)
      <3>1. OutcomeGood(o) /\ CursorStep(q, o.query)
        BY <2>2, ExecuteGood, Zenon
      <3> QED BY <3>1, <2>2, FromClosedGood, Zenon
    <2> QED BY <2>1, <2>3, ReplyOutcomeGood, Zenon
  <1>10. CASE ExecuteMetaQueryError \/ SelectParamShort \/ SelectParamError
              \/ PutNullData \/ PutDataError
    BY <1>10, ReplyOnlyGood, ZenonT(60)
       DEF ExecuteMetaQueryError, SelectParamShort, SelectParamError, PutNullData, PutDataError
  <1>11. CASE SelectParamNext
    <2>1. /\ query' = query /\ UNCHANGED setupVars /\ params' = params
          /\ Reply("PARAMDATA", "NEED_DATA", {})
          /\ selected' \in Params
      BY <1>11, Zenon DEF SelectParamNext, NotReady
    <2> QED BY <1>1, <1>3, <2>1, ReplyGood, SameCursor, Zenon DEF ParamsOK
  <1>12. CASE SelectParamExecute
    <2>1. ASSUME NEW o \in ParamDataOutcomes
          PROVE  OutcomeGood(o) /\ CursorStep(query, o.query)
      <3>1. PICK e \in ExecuteOutcomes(query) :
               o = Outcome(e.query, IF e.result = "ERROR" THEN "SUCCESS_WITH_INFO"
                                    ELSE e.result, e.records)
        BY Zenon DEF ParamDataOutcomes
      <3>2. OutcomeGood(e) /\ CursorStep(query, e.query)
        BY <1>1, ExecuteGood, Zenon
      <3>3. /\ o.query = e.query /\ o.records = e.records
            /\ o.result \in {e.result, "SUCCESS_WITH_INFO"}
        BY <3>1, Zenon DEF Outcome
      <3> QED BY <3>2, <3>3, Zenon DEF OutcomeGood
    <2>2. ReplyOutcome("PARAMDATA", ParamDataOutcomes) /\ SetupOK' /\ ParamsOK'
      BY <1>3, <1>4, <1>12, Zenon DEF SelectParamExecute
    <2> QED BY <2>1, <2>2, ReplyOutcomeGood, Zenon
  <1>13. ASSUME NEW length \in 0..MaxData, PutData(length)
         PROVE  IInv' /\ CursorStep(query, query')
    <2>1. selected \in Params /\ params \in [Params -> Parameters]
      BY <1>1, <1>13, Zenon DEF ParamsOK, PutData
    <2>2. params' \in [Params -> Parameters]
      BY <1>13, <2>1, StatementAssumption, SMTT(30) DEF PutData, Parameters
    <2>3. /\ query' = query /\ UNCHANGED setupVars /\ selected' = selected
          /\ Reply("OTHER", "SUCCESS", {})
      BY <1>13, Zenon DEF PutData
    <2> QED BY <1>1, <1>3, <2>2, <2>3, ReplyGood, SameCursor, Zenon DEF ParamsOK
  <1>14. CASE Close
    <2>1. /\ query' = query \/ query' = CloseQuery(query)
          /\ UNCHANGED setupVars /\ UNCHANGED paramVars /\ Reply("OTHER", "SUCCESS", {})
      BY <1>14, Zenon DEF Close
    <2>2. /\ CloseQuery(query) \in Queries /\ QueryInv(CloseQuery(query))
          /\ CursorStep(query, CloseQuery(query))
      BY <1>1, CloseGood, Zenon DEF CursorStep
    <2> QED BY <1>1, <1>3, <1>4, <2>1, <2>2, ReplyGood, SameCursor, Zenon
  <1> QED BY <1>6, <1>7, <1>8, <1>9, <1>10, <1>11, <1>12, <1>13, <1>14, Zenon DEF Executions

(* A turn of the fetch loop fills an element of the row array. *)
LEMMA FetchNextRowGood ==
    ASSUME IInv, FetchNextRow
    PROVE  IInv' /\ CursorStep(query, query')
  <1>1. PICK o \in FetchNextRowOutcomes(query, bound) :
          /\ o.result # "TERMINATED"
          /\ query' = o.query
          /\ recs' = recs \cup o.records
          /\ nFetched' = IF o.result = "SUCCESS" THEN nFetched + 1 ELSE nFetched
          /\ nErrors' = IF o.result = "ERROR" THEN nErrors + 1 ELSE nErrors
          /\ rowset' = [rowset EXCEPT ![i] = RowShown(o.query)]
          /\ rowStatuses' = IF rowStatusPtr
                            THEN [rowStatuses EXCEPT ![i] = SqlResultToRowResult(o.result)]
                            ELSE rowStatuses
    BY ZenonT(30) DEF FetchNextRow
  <1>2. OutcomeGood(o) /\ CursorStep(query, o.query) /\ RowShown(o.query) \in 0..MaxRows
    BY <1>1, FetchGood, Zenon DEF IInv, TypeOK, RowStep
  <1>3. i' = i + 1 /\ i < rowArraySize /\ UNCHANGED <<setupVars, paramVars>>
        /\ UNCHANGED <<call, result, rowsFetched, inFetch>>
    BY Zenon DEF FetchNextRow
  <1>4. LoopOK' /\ i \in Elements
    BY <1>1, <1>3, StatementAssumption, SMTT(30) DEF IInv, TypeOK, LoopOK, Elements
  <1>5. rowset' \in [Elements -> 0..MaxRows]
    BY <1>1, <1>2, <1>4, Zenon DEF IInv, TypeOK
  <1>6. SqlResultToRowResult(o.result) \in RowStatuses
    BY Zenon DEF SqlResultToRowResult, RowStatuses
  <1>7. rowStatuses' \in [Elements -> RowStatuses \cup {"UNSET"}]
    BY <1>1, <1>4, <1>6, Zenon DEF IInv, TypeOK
  <1>8. recs' \subseteq SqlStates
    BY <1>1, <1>2, Zenon DEF IInv, TypeOK, OutcomeGood
  <1>9. SetupOK' /\ ParamsOK'
    BY <1>3, Zenon DEF IInv, TypeOK, SetupOK, ParamsOK, setupVars, paramVars
  <1> QED BY <1>1, <1>2, <1>3, <1>4, <1>5, <1>7, <1>8, <1>9, Zenon
          DEF IInv, TypeOK, SetupOK, ParamsOK, LoopOK, OutcomeGood

(* Fetching, reading columns, metadata, SQLMoreResults and SQLRowCount.    *)
LEMMA ReadsGood ==
    ASSUME IInv, Reads
    PROVE  IInv' /\ CursorStep(query, query')
  <1> USE DEF Calls, CallResults, SqlResults, SqlStates
  <1>1. /\ query \in Queries /\ QueryInv(query) /\ SetupOK /\ ParamsOK
    BY Zenon DEF IInv, TypeOK, SetupOK, ParamsOK
  <1>2. UNCHANGED setupVars => SetupOK'
    BY <1>1, Zenon DEF SetupOK, setupVars
  <1>3. UNCHANGED paramVars => ParamsOK'
    BY <1>1, Zenon DEF ParamsOK, paramVars
  <1>4. CASE FetchBegin
    <2>1. 0 \in 0..MaxRowArray /\ 0 \in 0..MaxRows
      BY QueryAssumption, StatementAssumption, SMTT(30)
    <2>2. /\ rowStatuses' \in [Elements -> RowStatuses \cup {"UNSET"}]
          /\ rowset' \in [Elements -> 0..MaxRows]
      BY <1>4, <2>1, Zenon DEF FetchBegin, NoStatuses, NoRowset
    <2>3. LoopOK' /\ rowsFetched' \in 0..MaxRowArray /\ query' = query
      BY <1>4, <2>1, SMTT(30) DEF FetchBegin, LoopOK
    <2>4. SetupOK' /\ ParamsOK'
      BY <1>2, <1>3, <1>4, Zenon DEF FetchBegin
    <2>5. call' \in Calls /\ result' \in CallResults /\ recs' \subseteq SqlStates
      BY <1>4, Zenon DEF FetchBegin
    <2> QED BY <1>1, <2>2, <2>3, <2>4, <2>5, SameCursor, Zenon
            DEF IInv, TypeOK, SetupOK, ParamsOK, LoopOK
  <1>5. CASE FetchError \/ AffectedRows \/ GetParametersNumber \/ DescribeParam
    BY <1>5, ReplyOnlyGood, Zenon DEF FetchError, AffectedRows, GetParametersNumber, DescribeParam
  <1>6. CASE FetchNextRow
    BY <1>6, FetchNextRowGood, Zenon
  <1>7. CASE FetchTerminates
    <2>1. /\ query' = query /\ result' \in CallResults /\ SetupOK' /\ ParamsOK'
          /\ UNCHANGED <<call, recs, rowsFetched, rowStatuses, rowset>>
      BY <1>2, <1>3, <1>7, Zenon DEF FetchTerminates, bufferVars
    <2>2. LoopOK'
      BY <1>7, Zenon DEF FetchTerminates, LoopOK, IInv, TypeOK
    <2> QED BY <1>1, <2>1, <2>2, SameCursor, Zenon DEF IInv, TypeOK, SetupOK, ParamsOK, LoopOK
  <1>8. CASE FetchEnd
    <2>1. /\ query' = query /\ SetupOK' /\ ParamsOK'
          /\ UNCHANGED <<call, recs, rowStatuses, rowset>>
      BY <1>2, <1>3, <1>8, Zenon DEF FetchEnd
    <2>2. LoopOK' /\ rowsFetched' \in 0..MaxRowArray
      <3>1. nFetched \in 0..MaxRowArray /\ 0 \in 0..MaxRowArray
        BY StatementAssumption, SMTT(30) DEF IInv, TypeOK
      <3>2. LoopOK'
        <4>1. inFetch' \in BOOLEAN /\ i' = 0 /\ nFetched' = 0 /\ nErrors' = 0
          BY <1>8, Zenon DEF FetchEnd
        <4> QED BY <3>1, <4>1, SMTT(30) DEF LoopOK
      <3>3. rowsFetched' \in 0..MaxRowArray
        BY <1>8, <3>1, Zenon DEF FetchEnd
      <3> QED BY <3>2, <3>3, Zenon
    <2>3. result' \in CallResults
      BY <1>8, Zenon DEF FetchEnd, FetchResult
    <2> QED BY <1>1, <2>1, <2>2, <2>3, SameCursor, Zenon DEF IInv, TypeOK, SetupOK, ParamsOK, LoopOK
  <1>9. ASSUME NEW column \in Columns, GetColumnData(column)
        PROVE  IInv' /\ CursorStep(query, query')
    <2> DEFINE outcomes == IF query.type = "NONE"
                           THEN {Outcome(query, "ERROR", {"24000"})}
                           ELSE GetColumnOutcomes(query, column)
    <2>1. ASSUME NEW o \in outcomes
          PROVE  OutcomeGood(o) /\ CursorStep(query, o.query)
      <3>1. CASE o = Outcome(query, "ERROR", {"24000"})
        BY <1>1, <3>1, SameQueryGood, Zenon DEF Outcome
      <3>2. CASE o \in GetColumnOutcomes(query, column)
        BY <1>1, <3>2, GetColumnGood, Zenon
      <3> QED BY <3>1, <3>2, Zenon
    <2>2. ReplyOutcome("GETDATA", outcomes) /\ SetupOK' /\ ParamsOK'
      BY <1>2, <1>3, <1>9, Zenon DEF GetColumnData
    <2> HIDE DEF outcomes
    <2> QED BY <2>1, <2>2, ReplyOutcomeGood, Zenon
  <1>10. CASE MoreResults
    <2>1. /\ query' = query \/ query' = NextResultSet(query)
          /\ Reply("OTHER", "ERROR", {"HY010"}) \/ Reply("OTHER", "NO_DATA", {})
          /\ UNCHANGED setupVars /\ UNCHANGED paramVars
      BY <1>10, Zenon DEF MoreResults
    <2>2. /\ NextResultSet(query) \in Queries /\ QueryInv(NextResultSet(query))
          /\ CursorStep(query, NextResultSet(query))
      BY <1>1, NextResultSetGood, Zenon
    <2> QED BY <1>1, <1>2, <1>3, <2>1, <2>2, ReplyGood, SameCursor, Zenon
  <1>11. ASSUME NEW o \in GetMeta
         PROVE  OutcomeGood(o) /\ CursorStep(query, o.query)
    <2>1. CASE o = Outcome(query, "ERROR", {"HY010"})
      BY <1>1, <2>1, SameQueryGood, Zenon DEF Outcome
    <2>2. CASE o \in GetMetaOutcomes(query)
      BY <1>1, <2>2, GetMetaGood, Zenon
    <2> QED BY <2>1, <2>2, Zenon DEF GetMeta
  <1>12. CASE GetColumnNumber
    <2>1. ReplyOutcome("META", GetMeta) /\ SetupOK' /\ ParamsOK'
      BY <1>2, <1>3, <1>12, Zenon DEF GetColumnNumber
    <2> QED BY <1>11, <2>1, ReplyOutcomeGood, Zenon
  <1>13. CASE GetColumnAttribute
    <2>1. PICK o \in GetMeta :
            /\ query' = o.query
            /\ \/ Reply("META", o.result, o.records)
               \/ \E res \in {"SUCCESS", "SUCCESS_WITH_INFO"} : Reply("META", res, {})
               \/ \E state \in {"HY000", "HYC00"} : Reply("META", "ERROR", {state})
      BY <1>13, Zenon DEF GetColumnAttribute
    <2>2. OutcomeGood(o) /\ CursorStep(query, o.query)
      BY <1>11, Zenon
    <2>3. SetupOK' /\ ParamsOK'
      BY <1>2, <1>3, <1>13, Zenon DEF GetColumnAttribute
    <2> QED BY <2>1, <2>2, <2>3, ReplyGood, Zenon DEF OutcomeGood
  <1> QED BY <1>4, <1>5, <1>6, <1>7, <1>8, <1>9, <1>10, <1>12, <1>13, Zenon DEF Reads, FetchLoop

-----------------------------------------------------------------------------
(* A new statement handle satisfies the invariant. *)
LEMMA InitGood == Init => IInv
  <1> SUFFICES ASSUME Init PROVE IInv
    BY Zenon
  <1>1. query \in Queries /\ QueryInv(query)
    BY NewQueryGood, Zenon DEF Init, NoQuery, QueryTypes
  <1>2. 0 \in 0..MaxRowArray /\ 0 \in 0..MaxRows /\ 1 \in 1..MaxRowArray
    BY QueryAssumption, StatementAssumption, SMTT(30)
  <1>3. params \in [Params -> Parameters] /\ selected \in Params \cup {0}
    BY StatementAssumption, SMTT(30) DEF Init, Unbound, Parameters
  <1>4. /\ rowStatuses \in [Elements -> RowStatuses \cup {"UNSET"}]
        /\ rowset \in [Elements -> 0..MaxRows]
    BY <1>2, Zenon DEF Init, NoStatuses, NoRowset
  <1>5. call \in Calls /\ result \in CallResults /\ recs \subseteq SqlStates
    BY Zenon DEF Init, Calls, CallResults, SqlResults
  <1>6. /\ rowsFetchedPtr \in BOOLEAN /\ rowStatusPtr \in BOOLEAN /\ inFetch \in BOOLEAN
        /\ bound \subseteq Columns
    BY Zenon DEF Init
  <1>7. /\ rowArraySize \in 1..MaxRowArray /\ rowsFetched \in 0..MaxRowArray
        /\ i \in 0..MaxRowArray /\ nFetched \in 0..i /\ nErrors \in 0..i
        /\ paramSetSize \in ParamSetSizes \cup {1}
    BY <1>2, SMTT(30) DEF Init
  <1> QED BY <1>1, <1>3, <1>4, <1>5, <1>6, <1>7, Zenon DEF IInv, TypeOK

(* Every step keeps the invariant and is a step of the cursor. *)
LEMMA StepGood == IInv /\ [Next]_vars => IInv' /\ CursorStep(query, query')
  <1> SUFFICES ASSUME IInv, [Next]_vars PROVE IInv' /\ CursorStep(query, query')
    BY Zenon
  <1>1. CASE UNCHANGED vars
    <2>1. IInv'
      BY <1>1, Zenon DEF vars, setupVars, paramVars, replyVars, bufferVars, loopVars, IInv, TypeOK
    <2>2. query' = query
      BY <1>1, Zenon DEF vars
    <2> QED BY <2>1, <2>2, SameCursor, Zenon
  <1>2. CASE Bindings
    BY <1>2, BindingsGood, Zenon
  <1>3. CASE Executions
    BY <1>3, ExecutionsGood, Zenon
  <1>4. CASE Reads
    BY <1>4, ReadsGood, Zenon
  <1> QED BY <1>1, <1>2, <1>3, <1>4, Zenon DEF Next, Terminated

(* The inductive invariant holds throughout. *)
THEOREM Invariance == Spec => []IInv
  <1>1. IInv /\ [Next]_vars => IInv'
    BY StepGood, Zenon
  <1> QED BY InitGood, <1>1, PTL DEF Spec

(* Every variable of a statement keeps its type, whatever calls are made   *)
(* in whatever order: no row lands outside the row array, the counters of  *)
(* the fetch loop stay within it, and *rowsFetched does (InternalFetchRow).*)
THEOREM TypeCorrect == Spec => []TypeOK
  <1>1. IInv => TypeOK
    BY Zenon DEF IInv
  <1> QED BY Invariance, <1>1, PTL

(* The row and the columns a data query shows are those of the document    *)
(* its iterator is on, and no cursor runs past its end                     *)
(* (DataQuery::FetchNextRow, DocumentDbCursor::Increment,                  *)
(* DocumentDbRow::Update).                                                 *)
THEOREM RowIsCurrent == Spec => []RowFollowsIterator
  <1>1. IInv => RowFollowsIterator
    BY Zenon DEF IInv, QueryInv, RowFollowsIterator
  <1> QED BY Invariance, <1>1, PTL

(* A statement implements a forward-only cursor: every call delivers at    *)
(* most the next row per element, opens, closes or leaves the result set.  *)
THEOREM ImplementsForwardCursor == Spec => ForwardOnly
  <1>1. Init => Cursor!Init
    BY SMTT(30) DEF Init, NoQuery, NewQuery, Cursor!Init, ResultSize, RowsDelivered
  <1>2. IInv /\ IInv' /\ CursorStep(query, query') => [Cursor!Next]_(Cursor!cursor)
    <2> SUFFICES ASSUME IInv, IInv', CursorStep(query, query')
                 PROVE  [Cursor!Next]_(Cursor!cursor)
      BY Zenon
    <2>1. query.executed \in BOOLEAN /\ query'.executed \in BOOLEAN
      BY Zenon DEF IInv, TypeOK, Queries
    <2>2. CASE query'.executed /\ ResultSize(query') \in 0..MaxRows /\ RowsDelivered(query') = 0
      BY <2>1, <2>2, Zenon DEF Cursor!Next, Cursor!Open
    <2>3. CASE /\ query.executed /\ query'.executed
               /\ RowsDelivered(query) < ResultSize(query)
               /\ ResultSize(query') = ResultSize(query)
               /\ RowsDelivered(query') = RowsDelivered(query) + 1
      BY <2>1, <2>3, Zenon DEF Cursor!Next, Cursor!Deliver
    <2>4. CASE ~query'.executed
      <3>1. ResultSize(query') = 0 /\ RowsDelivered(query') = 0
        BY <2>4, Zenon DEF ResultSize, RowsDelivered
      <3> QED BY <2>1, <2>4, <3>1, Zenon DEF Cursor!Next, Cursor!Close
    <2>5. CASE /\ query'.executed = query.executed
               /\ ResultSize(query') = ResultSize(query)
               /\ RowsDelivered(query') = RowsDelivered(query)
      BY <2>5, Zenon DEF Cursor!cursor
    <2> QED BY <2>2, <2>3, <2>4, <2>5, Zenon DEF CursorStep
  <1>3. IInv /\ [Next]_vars => IInv' /\ CursorStep(query, query')
    BY StepGood, Zenon
  <1> QED BY InitGood, <1>1, <1>2, <1>3, PTL DEF Spec, ForwardOnly, Cursor!Spec
=============================================================================
