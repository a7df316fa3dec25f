-------------------------- MODULE StatementAnswers --------------------------
(***************************************************************************)
(* Proofs about what a statement answers: a fetch fills and reports its    *)
(* rowset truthfully, a call that fails says why and leaves no cursor, and *)
(* SQLParamData executes only with all data there; for results of any size *)
(* and shape, any row array size and any parameters.  They rest on the     *)
(* invariant of StatementProofs.                                           *)
(***************************************************************************)
EXTENDS StatementProofs, FiniteSetTheorems

-----------------------------------------------------------------------------
(***************************************************************************)
(* What a fetch reports.  The loop of InternalFetchRow keeps three facts,  *)
(* none of which speaks of the call's return code: Filled elements carry   *)
(* consecutive rows, the counters count statuses, and errors have records. *)
(***************************************************************************)

(* What FetchNextRow of a query object q may answer, when it returns. *)
RowReport(q, o) ==
    /\ o.query.type = q.type
    /\ o.result \in {"SUCCESS", "NO_DATA", "ERROR"}
    /\ o.result = "SUCCESS" => RowShown(o.query) # 0
    /\ o.result = "NO_DATA" => RowShown(o.query) = 0
    /\ o.result = "ERROR" => o.records # {}

(* A conversion that fails leaves a record (ProcessConversionResult). *)
LEMMA FailureHasRecord == ConversionRecords("FAILURE") # {}
  BY Zenon DEF ConversionRecords

(* A fetch through the MongoDB cursor: success comes with a row, no data   *)
(* without one (DataQuery::FetchNextRow).                                  *)
LEMMA DataFetchReports ==
    ASSUME NEW q \in Queries, QueryInv(q), q.type = "DATA", NEW b,
           NEW o \in DataFetchNextRow(q, b), o.result # "TERMINATED"
    PROVE  RowReport(q, o)
  <1>1. CASE ~q.executed
    <2>1. o.query = q /\ o.result = "ERROR" /\ o.records = {"HY010"}
      BY <1>1, SMTT(30) DEF DataFetchNextRow, Outcome
    <2> QED BY <2>1, Zenon DEF RowReport
  <1>2. CASE q.executed /\ ~HasData(q)
    <2>1. o.query = q /\ o.result = "NO_DATA"
      BY <1>2, SMTT(30) DEF DataFetchNextRow, Outcome
    <2>2. RowShown(q) = 0
      BY <1>2, Zenon DEF QueryInv, RowShown
    <2> QED BY <2>1, <2>2, Zenon DEF RowReport
  <1>3. CASE q.executed /\ HasData(q)
    <2> DEFINE next == Increment(q)
               read(conv) == ReadColumns(b, conv)
               columns(conv) == [c \in 1..NumCols |->
                   IF \E d \in read(conv) : c <= d THEN next.row ELSE next.columns[c]]
               row(conv) == [next EXCEPT !.columns = columns(conv)]
               failed(conv) == \E c \in read(conv) : conv[c] = "FAILURE"
               records(conv) == UNION {ConversionRecords(conv[c]) : c \in read(conv)}
    <2>1. next \in Queries /\ next.type = "DATA"
      BY <1>3, IncrementGood, Zenon
    <2> HIDE DEF next
    <2>2. DataFetchNextRow(q, b) =
            (IF q.fetched THEN {Outcome(q, "TERMINATED", {})} ELSE {})
            \cup (IF next.row = 0 THEN {Outcome(next, "NO_DATA", {})}
                  ELSE {Outcome(row(conv), IF failed(conv) THEN "ERROR" ELSE "SUCCESS",
                                records(conv)) :
                          conv \in [b \cap 1..NumCols -> ConversionResults]})
      BY <1>3, Zenon DEF DataFetchNextRow, next
    <2>3. ASSUME NEW conv PROVE row(conv).row = next.row /\ row(conv).type = next.type
      BY <2>1, Zenon DEF Queries
    <2>4. ASSUME NEW conv, failed(conv) PROVE records(conv) # {}
      <3>1. PICK c \in read(conv) : conv[c] = "FAILURE"
        BY <2>4, Zenon
      <3>2. ConversionRecords(conv[c]) \subseteq records(conv)
        BY Zenon
      <3> QED BY <3>1, <3>2, FailureHasRecord, Zenon
    <2> HIDE DEF row, failed, records
    <2>5. \/ o = Outcome(q, "TERMINATED", {})
          \/ next.row = 0 /\ o = Outcome(next, "NO_DATA", {})
          \/ next.row # 0 /\ \E conv : o = Outcome(row(conv), IF failed(conv) THEN "ERROR"
                                                              ELSE "SUCCESS", records(conv))
      BY <2>2, Zenon
    <2>6. CASE o = Outcome(q, "TERMINATED", {})
      BY <2>6, Zenon DEF Outcome
    <2>7. CASE next.row = 0 /\ o = Outcome(next, "NO_DATA", {})
      BY <2>1, <2>7, Zenon DEF Outcome, RowReport, RowShown
    <2>8. ASSUME next.row # 0, NEW conv,
                 o = Outcome(row(conv), IF failed(conv) THEN "ERROR" ELSE "SUCCESS", records(conv))
          PROVE  RowReport(q, o)
      <3>1. /\ o.query = row(conv) /\ o.records = records(conv)
            /\ o.result = IF failed(conv) THEN "ERROR" ELSE "SUCCESS"
        BY <2>8, Zenon DEF Outcome
      <3>2. RowShown(row(conv)) # 0
        BY <2>1, <2>3, <2>8, Zenon DEF RowShown
      <3> QED BY <2>1, <2>3, <2>4, <3>1, <3>2, Zenon DEF RowReport
    <2> QED BY <2>5, <2>6, <2>7, <2>8, Zenon
  <1> QED BY <1>1, <1>2, <1>3, Zenon

(* The same of the rows in memory. *)
LEMMA CatalogFetchReports ==
    ASSUME NEW q \in Queries, QueryInv(q), q.type \in CatalogTypes \cup {"TYPE_INFO"}, NEW b,
           NEW o \in CatalogFetchNextRow(q, b)
    PROVE  RowReport(q, o)
  <1>1. q.type # "DATA"
    BY Zenon DEF CatalogTypes
  <1>2. CASE ~q.executed
    <2>1. o.query = q /\ o.result = "ERROR" /\ o.records = {"HY010"}
      BY <1>2, SMTT(30) DEF CatalogFetchNextRow, Outcome
    <2> QED BY <2>1, Zenon DEF RowReport
  <1>3. CASE q.executed
    <2> DEFINE pos == IF q.fetched /\ HasData(q) THEN q.pos + 1 ELSE q.pos
               next == [q EXCEPT !.fetched = TRUE, !.pos = pos]
    <2>1. /\ o.query = next
          /\ o.result = IF HasData(next) THEN "SUCCESS" ELSE "NO_DATA"
      BY <1>3, SMTT(30) DEF CatalogFetchNextRow, Outcome
    <2>2. q.pos \in 0..MaxRows
      BY Zenon DEF Queries
    <2>3. pos \in Nat
      BY <2>2, QueryAssumption, SMTT(30)
    <2> HIDE DEF pos
    <2>4. next.executed = q.executed /\ next.fetched /\ next.type = q.type /\ next.pos = pos
      BY Zenon DEF Queries
    <2> HIDE DEF next
    <2>5. RowShown(next) = IF HasData(next) THEN pos + 1 ELSE 0
      BY <1>1, <1>3, <2>4, Zenon DEF RowShown
    <2> QED BY <2>1, <2>3, <2>4, <2>5, SMTT(30) DEF RowReport
  <1> QED BY <1>2, <1>3, Zenon DEF Queries

(* The same of every class of query object.                                *)
LEMMA FetchReports ==
    ASSUME NEW q \in Queries, QueryInv(q), NEW b, NEW o \in FetchNextRowOutcomes(q, b),
           o.result # "TERMINATED"
    PROVE  RowReport(q, o)
  <1>1. CASE q.type = "DATA"
    <2>1. o \in DataFetchNextRow(q, b)
      BY <1>1, Zenon DEF FetchNextRowOutcomes, CatalogTypes
    <2> QED BY <1>1, <2>1, DataFetchReports, Zenon
  <1>2. CASE q.type \in CatalogTypes \cup {"TYPE_INFO"}
    <2>1. o \in CatalogFetchNextRow(q, b)
      BY <1>2, Zenon DEF FetchNextRowOutcomes, CatalogTypes
    <2> QED BY <1>2, <2>1, CatalogFetchReports, Zenon
  <1>3. CASE q.type \notin CatalogTypes \cup {"TYPE_INFO", "DATA"}
    <2>1. \/ o = Outcome(q, "NO_DATA", {})
          \/ o = Outcome(q, "ERROR", {"HY010"})
      BY <1>3, Zenon DEF FetchNextRowOutcomes
    <2>2. o.query = q /\ (o.result = "NO_DATA" \/ (o.result = "ERROR" /\ o.records = {"HY010"}))
      BY <2>1, SMTT(30) DEF Outcome
    <2>3. q.executed => ~HasData(q)
      BY <1>3, Zenon DEF Queries, QueryTypes, QueryInv, HasData, CatalogTypes
    <2>4. RowShown(q) = 0
      BY <1>3, <2>3, Zenon DEF RowShown
    <2> QED BY <2>2, <2>4, Zenon DEF RowReport
  <1> QED BY <1>1, <1>2, <1>3, Zenon

(* The elements with a row, and those reported as good. *)
Read == {e \in Elements : rowset[e] # 0}

Good == {e \in Elements : rowStatuses[e] = "ROW_SUCCESS"}

(* The loop runs for a query object there is. *)
LoopCall == inFetch => call = "FETCH" /\ query.type # "NONE" /\ i <= rowArraySize

(* What the elements hold, during the loop and after it. *)
FillInv ==
    call = "FETCH" /\ query.type # "NONE" =>
        /\ \A e \in Elements : e >= Filled => rowset[e] = 0 /\ rowStatuses[e] = "UNSET"
        /\ query.executed =>
             /\ \A e \in Elements : rowset[e] # 0 => \A d \in 0..e : rowset[d] = rowset[0] + d
             /\ \A e \in Elements : e + 1 = Filled => rowset[e] = RowShown(query)
             /\ \A e \in Elements : e < Filled /\ rowset[e] = 0 => ~HasData(query)

(* What the loop's counters count. *)
CountInv ==
    inFetch =>
        /\ rowStatusPtr => /\ Good \subseteq Read
                           /\ nFetched = Cardinality(Good)
                           /\ nErrors = 0 => Good = Read
        /\ nFetched = 0 /\ nErrors = 0 => Read = {}
        /\ nErrors > 0 => recs # {}

(* The inductive invariant of fetching, relative to IInv. *)
FetchInv == LoopCall /\ FillInv /\ CountInv /\ FetchReportAgrees

(* Any other call leaves nothing of a fetch behind. *)
LEMMA OtherCallKeepsFetchInv ==
    ASSUME Idle, NEW kind, NEW res, NEW records, Reply(kind, res, records), kind # "FETCH"
    PROVE  FetchInv'
  <1>1. call' # "FETCH" /\ inFetch' = inFetch /\ ~inFetch
    BY Zenon DEF Idle, Reply, loopVars
  <1> QED BY <1>1, Zenon DEF FetchInv, LoopCall, FillInv, CountInv, FetchReportAgrees

(* A turn of the loop puts a row at element i that continues the rowset,   *)
(* or an empty one once the result is used up.                             *)
LEMMA FetchNextRowFills ==
    ASSUME IInv, IInv', FetchInv, FetchNextRow
    PROVE  FillInv'
  <1>1. PICK o \in FetchNextRowOutcomes(query, bound) :
          /\ o.result # "TERMINATED"
          /\ query' = o.query
          /\ rowset' = [rowset EXCEPT ![i] = RowShown(o.query)]
          /\ rowStatuses' = IF rowStatusPtr
                            THEN [rowStatuses EXCEPT ![i] = SqlResultToRowResult(o.result)]
                            ELSE rowStatuses
    BY Zenon DEF FetchNextRow
  <1>2. RowStep(query, query') /\ query'.type = query.type
    BY <1>1, FetchGood, FetchReports, ZenonT(60) DEF IInv, TypeOK, RowReport
  <1>3. /\ inFetch /\ inFetch' /\ i' = i + 1 /\ i < rowArraySize
        /\ call' = call /\ rowArraySize' = rowArraySize
    BY Zenon DEF FetchNextRow, setupVars
  <1>4. /\ Filled = i /\ Filled' = i + 1 /\ i \in Nat /\ i \in Elements /\ Elements \subseteq Nat
        /\ rowset \in [Elements -> 0..MaxRows]
        /\ rowStatuses \in [Elements -> RowStatuses \cup {"UNSET"}]
    BY <1>3, StatementAssumption, SMTT(30) DEF Filled, IInv, TypeOK, Elements
  <1>5. /\ \A e \in Elements : rowset'[e] = IF e = i THEN RowShown(query') ELSE rowset[e]
        /\ \A e \in Elements \ {i} : rowStatuses'[e] = rowStatuses[e]
    BY <1>1, <1>4, Zenon
  <1>6. call = "FETCH" /\ query.type # "NONE"
    BY <1>3, Zenon DEF FetchInv, LoopCall
  <1>7. ASSUME NEW e \in Elements, e >= Filled'
        PROVE  rowset'[e] = 0 /\ rowStatuses'[e] = "UNSET"
    <2>1. e \in Nat /\ e # i /\ e >= Filled
      BY <1>4, <1>7, SMTT(30)
    <2> QED BY <1>5, <1>6, <2>1, Zenon DEF FetchInv, FillInv
  <1>8. ASSUME query'.executed PROVE query.executed
    BY <1>2, <1>8, Zenon DEF RowStep
  <1>9. ASSUME query.executed, i # 0
        PROVE  /\ i - 1 \in Elements
               /\ rowset[i - 1] = RowShown(query)
               /\ RowShown(query) = 0 => ~HasData(query)
    <2>1. i - 1 \in Elements /\ (i - 1) + 1 = Filled /\ i - 1 < Filled
      BY <1>4, <1>9, StatementAssumption, SMTT(30) DEF Elements
    <2> QED BY <1>6, <1>9, <2>1, Zenon DEF FetchInv, FillInv
  <1>10. ASSUME query'.executed, NEW e \in Elements, rowset'[e] # 0, NEW d \in 0..e
         PROVE  rowset'[d] = rowset'[0] + d
    <2>1. e \in Nat /\ d \in Elements /\ 0 \in Elements
      BY <1>4, StatementAssumption, SMTT(30) DEF Elements
    <2>2. \A f \in Elements : rowset[f] # 0 => \A g \in 0..f : rowset[g] = rowset[0] + g
      BY <1>6, <1>8, <1>10, Zenon DEF FetchInv, FillInv
    <2>3. CASE e # i
      <3>1. rowset[e] # 0 /\ e < i
        BY <1>4, <1>5, <1>6, <1>10, <2>1, <2>3, SMTT(30) DEF FetchInv, FillInv
      <3>2. rowset[d] = rowset[0] + d
        BY <2>2, <3>1, Zenon
      <3>3. d # i /\ 0 # i
        BY <2>1, <3>1, <1>4, SMTT(30)
      <3> QED BY <1>5, <2>1, <3>2, <3>3, Zenon
    <2>4. CASE e = i /\ i = 0
      <3>1. d = 0 /\ rowset'[0] \in Nat
        BY <2>1, <2>4, QueryAssumption, SMTT(30) DEF IInv, TypeOK
      <3> QED BY <3>1, SMTT(30)
    <2>5. CASE e = i /\ i # 0
      <3>1. RowShown(query') # 0
        BY <1>5, <1>10, <2>5, ZenonT(60)
      <3>2. RowShown(query) # 0 /\ RowShown(query') = RowShown(query) + 1
        BY <1>2, <1>8, <1>9, <1>10, <2>5, <3>1, ZenonT(60) DEF RowStep
      <3>3. rowset[i - 1] # 0 /\ i - 1 \in Elements
        BY <1>8, <1>9, <1>10, <2>5, <3>2, ZenonT(60)
      <3>4. \A g \in 0..(i - 1) : rowset[g] = rowset[0] + g
        BY <2>2, <3>3, Zenon
      <3>5. 0 \in 0..(i - 1) /\ i - 1 \in 0..(i - 1)
        BY <1>4, <2>5, SMTT(30)
      <3>6. rowset'[0] = rowset[0] /\ rowset[0] \in Nat
        BY <1>4, <1>5, <2>1, <2>5, QueryAssumption, SMTT(30)
      <3>7. rowset'[i] = RowShown(query') /\ RowShown(query) = rowset[0] + (i - 1)
        BY <1>4, <1>5, <1>8, <1>9, <1>10, <2>5, <3>4, <3>5, ZenonT(60)
      <3>8. CASE d = i
        BY <1>4, <3>2, <3>6, <3>7, <3>8, SMTT(30)
      <3>9. CASE d # i
        <4>1. d \in 0..(i - 1)
          BY <1>4, <2>1, <2>5, <3>9, SMTT(30)
        <4> QED BY <1>5, <2>1, <3>4, <3>6, <3>9, <4>1, ZenonT(60)
      <3> QED BY <3>8, <3>9, Zenon
    <2> QED BY <2>3, <2>4, <2>5, Zenon
  <1>11. ASSUME query'.executed, NEW e \in Elements, e + 1 = Filled'
         PROVE  rowset'[e] = RowShown(query')
    <2>1. e = i
      BY <1>4, <1>11, SMTT(30)
    <2> QED BY <1>5, <2>1, Zenon
  <1>12. ASSUME query'.executed, NEW e \in Elements, e < Filled', rowset'[e] = 0
         PROVE  ~HasData(query')
    <2>1. CASE e = i
      BY <1>2, <1>5, <1>12, <2>1, Zenon DEF RowStep
    <2>2. CASE e # i
      <3>1. e < i /\ rowset[e] = 0
        BY <1>4, <1>5, <1>12, <2>2, SMTT(30)
      <3>2. ~HasData(query)
        BY <1>4, <1>6, <1>8, <1>12, <3>1, Zenon DEF FetchInv, FillInv
      <3> QED BY <1>2, <1>12, <3>2, Zenon DEF RowStep
    <2> QED BY <2>1, <2>2, Zenon
  <1> QED BY <1>7, <1>10, <1>11, <1>12, Zenon DEF FillInv

(* A turn of the loop counts the element it fills. *)
LEMMA FetchNextRowCounts ==
    ASSUME IInv, IInv', FetchInv, FetchNextRow
    PROVE  CountInv'
  <1>1. PICK o \in FetchNextRowOutcomes(query, bound) :
          /\ o.result # "TERMINATED"
          /\ query' = o.query
          /\ recs' = recs \cup o.records
          /\ nFetched' = IF o.result = "SUCCESS" THEN nFetched + 1 ELSE nFetched
          /\ nErrors' = IF o.result = "ERROR" THEN nErrors + 1 ELSE nErrors
          /\ rowset' = [rowset EXCEPT ![i] = RowShown(o.query)]
          /\ rowStatuses' = IF rowStatusPtr
                            THEN [rowStatuses EXCEPT ![i] = SqlResultToRowResult(o.result)]
                            ELSE rowStatuses
    BY Zenon DEF FetchNextRow
  <1>2. RowReport(query, o)
    BY <1>1, FetchReports, Zenon DEF IInv, TypeOK
  <1>3. inFetch /\ i < rowArraySize /\ rowStatusPtr' = rowStatusPtr
    BY Zenon DEF FetchNextRow, setupVars
  <1>4. /\ Filled = i /\ i \in Elements /\ nFetched \in Nat /\ nErrors \in Nat
        /\ rowset \in [Elements -> 0..MaxRows]
        /\ rowStatuses \in [Elements -> RowStatuses \cup {"UNSET"}]
    BY <1>3, StatementAssumption, SMTT(30) DEF Filled, IInv, TypeOK, Elements
  <1>5. i >= Filled
    BY <1>4, StatementAssumption, SMTT(30) DEF Elements
  <1>6. rowset[i] = 0 /\ rowStatuses[i] = "UNSET"
    BY <1>3, <1>4, <1>5, Zenon DEF FetchInv, LoopCall, FillInv
  <1>7. Read' = IF RowShown(o.query) # 0 THEN Read \cup {i} ELSE Read
    BY <1>1, <1>4, <1>6, Zenon DEF Read
  <1>8. /\ o.result = "SUCCESS" => Read' = Read \cup {i}
        /\ o.result = "NO_DATA" => Read' = Read
        /\ Read \subseteq Read'
    BY <1>2, <1>7, Zenon DEF RowReport
  <1>9. ASSUME rowStatusPtr
        PROVE  /\ o.result = "SUCCESS" => Good' = Good \cup {i} /\ i \notin Good
               /\ o.result # "SUCCESS" => Good' = Good
    <2>1. SqlResultToRowResult(o.result) = "ROW_SUCCESS" <=> o.result = "SUCCESS"
      BY <1>2, Zenon DEF RowReport, SqlResultToRowResult
    <2> QED BY <1>1, <1>4, <1>6, <1>9, <2>1, Zenon DEF Good
  <1>10. IsFiniteSet(Good)
    <2>1. IsFiniteSet(Elements)
      BY FS_Interval, StatementAssumption, SMTT(30) DEF Elements
    <2> QED BY <2>1, FS_Subset, Zenon DEF Good
  <1>11. ASSUME rowStatusPtr
         PROVE  /\ Good' \subseteq Read'
                /\ nFetched' = Cardinality(Good')
                /\ nErrors' = 0 => Good' = Read'
    <2>1. /\ Good \subseteq Read /\ nFetched = Cardinality(Good)
          /\ nErrors = 0 => Good = Read
      BY <1>3, <1>11, Zenon DEF FetchInv, CountInv
    <2>2. CASE o.result = "SUCCESS"
      <3>1. Good' = Good \cup {i} /\ i \notin Good /\ Read' = Read \cup {i}
        BY <1>8, <1>9, <1>11, <2>2, Zenon
      <3>2. Cardinality(Good') = Cardinality(Good) + 1
        BY <1>10, <3>1, FS_AddElement, Zenon
      <3>3. nFetched' = nFetched + 1 /\ nErrors' = nErrors
        BY <1>1, <2>2, Zenon
      <3> QED BY <2>1, <3>1, <3>2, <3>3, Zenon
    <2>3. CASE o.result = "NO_DATA"
      <3>1. Good' = Good /\ Read' = Read
        BY <1>8, <1>9, <1>11, <2>3, Zenon
      <3>2. nFetched' = nFetched /\ nErrors' = nErrors
        BY <1>1, <2>3, Zenon
      <3> QED BY <2>1, <3>1, <3>2, Zenon
    <2>4. CASE o.result = "ERROR"
      <3>1. Good' = Good /\ Read \subseteq Read'
        BY <1>8, <1>9, <1>11, <2>4, ZenonT(60)
      <3>2. nFetched' = nFetched /\ nErrors' = nErrors + 1 /\ nErrors' # 0
        BY <1>1, <1>4, <2>4, SMTT(30)
      <3> QED BY <2>1, <3>1, <3>2, Zenon
    <2> QED BY <1>2, <2>2, <2>3, <2>4, Zenon DEF RowReport
  <1>12. ASSUME nFetched' = 0, nErrors' = 0 PROVE Read' = {}
    <2>1. o.result = "NO_DATA" /\ nFetched = 0 /\ nErrors = 0
      BY <1>1, <1>2, <1>4, <1>12, SMTT(30) DEF RowReport
    <2> QED BY <1>3, <1>8, <2>1, ZenonT(60) DEF FetchInv, CountInv
  <1>13. ASSUME nErrors' > 0 PROVE recs' # {}
    <2>1. CASE o.result = "ERROR"
      BY <1>1, <1>2, <2>1, Zenon DEF RowReport
    <2>2. CASE o.result # "ERROR"
      BY <1>1, <1>3, <1>13, <2>2, Zenon DEF FetchInv, CountInv
    <2> QED BY <2>1, <2>2, Zenon
  <1> QED BY <1>3, <1>11, <1>12, <1>13, ZenonT(60) DEF CountInv

(* The return code and *rowsFetched sum up what the loop did. *)
LEMMA FetchEndReports ==
    ASSUME IInv, FetchInv, FetchEnd
    PROVE  FetchInv' /\ (result' = "ERROR" => recs' # {})
  <1>1. /\ inFetch /\ i = rowArraySize /\ ~inFetch'
        /\ rowsFetched' = IF rowsFetchedPtr THEN nFetched ELSE 0
        /\ result' = FetchResult(nFetched, nErrors)
        /\ query' = query /\ rowset' = rowset /\ rowStatuses' = rowStatuses /\ recs' = recs
        /\ call' = call /\ UNCHANGED setupVars
    BY Zenon DEF FetchEnd
  <1>2. call = "FETCH" /\ query.type # "NONE"
    BY <1>1, Zenon DEF FetchInv, LoopCall
  <1>3. result' # "TERMINATED" /\ nFetched \in Nat /\ nErrors \in Nat
        /\ rowArraySize \in 1..MaxRowArray
    BY <1>1, SMTT(30) DEF FetchResult, IInv, TypeOK
  <1>4. Filled = i /\ Filled' = i
    BY <1>1, <1>3, Zenon DEF Filled, setupVars
  <1>5. FillInv'
    BY <1>1, <1>4, Zenon DEF FetchInv, FillInv, RowShown, HasData
  <1>6. LoopCall' /\ CountInv'
    BY <1>1, Zenon DEF LoopCall, CountInv
  <1>7. Read' = Read /\ Good' = Good
    BY <1>1, Zenon DEF Read, Good
  <1>8. ASSUME rowStatusPtr
        PROVE  /\ Good \subseteq Read
               /\ rowsFetchedPtr => rowsFetched' = Cardinality(Good)
               /\ result' = "SUCCESS" => Good = Read /\ Good # {}
               /\ result' = "ERROR" => Good = {}
    <2>1. /\ Good \subseteq Read /\ nFetched = Cardinality(Good)
          /\ nErrors = 0 => Good = Read
      BY <1>1, <1>8, Zenon DEF FetchInv, CountInv
    <2>2. IsFiniteSet(Good)
      <3>1. IsFiniteSet(Elements)
        BY FS_Interval, StatementAssumption, SMTT(30) DEF Elements
      <3> QED BY <3>1, FS_Subset, Zenon DEF Good
    <2>3. Cardinality(Good) = 0 <=> Good = {}
      BY <2>2, FS_EmptySet, Zenon
    <2>4. result' = "SUCCESS" => nFetched > 0 /\ nErrors = 0
      BY <1>1, <1>3, Zenon DEF FetchResult
    <2>5. result' = "ERROR" => nFetched = 0
      BY <1>1, <1>3, SMTT(30) DEF FetchResult
    <2> QED BY <1>1, <2>1, <2>3, <2>4, <2>5, SMTT(30)
  <1>9. ASSUME result' = "NO_DATA"
        PROVE  Read = {} /\ (query.executed => ~HasData(query))
    <2>1. Read = {}
      BY <1>1, <1>3, <1>9, SMTT(30) DEF FetchResult, FetchInv, CountInv
    <2>2. 0 \in Elements /\ 0 < Filled
      BY <1>1, <1>3, <1>4, StatementAssumption, SMTT(30) DEF Elements
    <2> QED BY <1>2, <2>1, <2>2, Zenon DEF FetchInv, FillInv, Read
  <1>10. FetchReportAgrees'
    <2>1. rowStatusPtr' = rowStatusPtr /\ rowsFetchedPtr' = rowsFetchedPtr
      BY <1>1, Zenon DEF setupVars
    <2> QED BY <1>1, <1>7, <1>8, <1>9, <2>1, Zenon DEF FetchReportAgrees, Read, Good, HasData
  <1>11. ASSUME result' = "ERROR" PROVE recs' # {}
    <2>1. nErrors > 0
      BY <1>1, <1>3, <1>11, SMTT(30) DEF FetchResult
    <2> QED BY <1>1, <2>1, Zenon DEF FetchInv, CountInv
  <1> QED BY <1>5, <1>6, <1>10, <1>11, Zenon DEF FetchInv

-----------------------------------------------------------------------------
(***************************************************************************)
(* What a call answers.                                                    *)
(***************************************************************************)

(* The query's Execute fails only with a record and without a cursor. *)
LEMMA ExecuteClean ==
    ASSUME NEW q \in Queries, QueryInv(q), NEW o \in ExecuteOutcomes(q)
    PROVE  /\ o.result \in {"SUCCESS", "ERROR", "TERMINATED"}
           /\ o.result = "ERROR" => o.records # {} /\ ~o.query.executed
  <1>1. CASE q.type = "DATA"
    <2> DEFINE closed == [NewQuery("DATA") EXCEPT !.metaSet = q.metaSet]
               mapped == [closed EXCEPT !.metaSet = @ \/ NumCols > 0]
               open(n) == [mapped EXCEPT !.executed = TRUE, !.rows = n]
    <2>1. closed.executed = FALSE /\ mapped.executed = FALSE
      BY Zenon DEF NewQuery
    <2>2. o \in DataExecute(q)
      BY <1>1, Zenon DEF ExecuteOutcomes, CatalogTypes
    <2> HIDE DEF open
    <2>3. \/ o = Outcome(closed, "ERROR", {"HYC00", "HY000"})
          \/ o = Outcome(closed, "ERROR", {"HY000"})
          \/ o = Outcome(closed, "TERMINATED", {})
          \/ o = Outcome(mapped, "ERROR", {"HY000"})
          \/ \E n \in 0..MaxRows : o = Outcome(open(n), "SUCCESS", {})
      BY <2>2, Zenon DEF DataExecute, open
    <2> HIDE DEF closed, mapped
    <2>4. \/ /\ o.query \in {closed, mapped} /\ o.result = "ERROR"
             /\ o.records \in {{"HYC00", "HY000"}, {"HY000"}}
          \/ o.result \in {"TERMINATED", "SUCCESS"}
      BY <2>3, SMTT(30) DEF Outcome
    <2> QED BY <2>1, <2>4, Zenon
  <1>2. CASE q.type \in CatalogTypes
    <2> DEFINE closed == IF q.executed THEN CatalogClose(q) ELSE q
               open(n) == [closed EXCEPT !.executed = TRUE, !.fetched = FALSE,
                                         !.rows = n, !.pos = 0]
    <2>1. ~closed.executed
      BY <1>2, CatalogCloseGood, Zenon
    <2>2. o \in CatalogExecute(q)
      BY <1>2, Zenon DEF ExecuteOutcomes, CatalogTypes
    <2> HIDE DEF open, closed
    <2>3. \/ o = Outcome(closed, "ERROR", {"HY000"})
          \/ \E n \in 0..MaxRows : o = Outcome(open(n), "SUCCESS", {})
      BY <2>2, Zenon DEF CatalogExecute, open, closed
    <2> QED BY <2>1, <2>3, SMTT(30) DEF Outcome
  <1>3. CASE q.type = "TYPE_INFO"
    <2>1. o \in TypeInfoExecute(q)
      BY <1>3, Zenon DEF ExecuteOutcomes, CatalogTypes
    <2>2. \E r, records : o = Outcome(r, "SUCCESS", records)
      BY <2>1, Zenon DEF TypeInfoExecute
    <2> QED BY <2>2, SMTT(30) DEF Outcome
  <1>4. CASE q.type = "SPECIAL_COLUMNS"
    BY <1>4, SMTT(30) DEF ExecuteOutcomes, CatalogTypes, Outcome
  <1>5. CASE q.type \notin CatalogTypes \cup {"DATA", "TYPE_INFO", "SPECIAL_COLUMNS"}
    <2>1. o = Outcome(q, "ERROR", {"HY000"})
      BY <1>5, Zenon DEF ExecuteOutcomes
    <2>2. ~q.executed
      BY <1>5, Zenon DEF Queries, QueryTypes, QueryInv
    <2> QED BY <2>1, <2>2, Zenon DEF Outcome
  <1> QED BY <1>1, <1>2, <1>3, <1>4, <1>5, Zenon

(* The statement's execution adds one way to fail, for data at execution,  *)
(* that leaves the cursor open (InternalExecuteSqlQuery).                  *)
LEMMA InternalExecuteClean ==
    ASSUME NEW q \in Queries, QueryInv(q), NEW ps, NEW o \in InternalExecute(q, ps),
           o.result = "ERROR"
    PROVE  o.records # {} /\ (o.query.executed => o.records = {"HYC00"})
  <1> DEFINE chosen ==
            CASE paramSetSize > 1 /\ q.type = "DATA"  -> NewQuery("BATCH")
              [] paramSetSize = 1 /\ q.type = "BATCH" -> NewQuery("DATA")
              [] OTHER                                -> q
  <1>1. chosen = q \/ chosen = NewQuery("BATCH") \/ chosen = NewQuery("DATA")
    BY Zenon
  <1>2. chosen \in Queries /\ QueryInv(chosen)
    BY <1>1, NewQueryGood, Zenon DEF QueryTypes
  <1> HIDE DEF chosen
  <1>3. \/ q.type = "NONE" /\ o = Outcome(q, "ERROR", {"HY010"})
        \/ o = Outcome(chosen, "ERROR", {"HYC00"})
        \/ o \in ExecuteOutcomes(chosen)
    BY Zenon DEF InternalExecute, chosen
  <1>4. CASE q.type = "NONE" /\ o = Outcome(q, "ERROR", {"HY010"})
    BY <1>4, Zenon DEF Outcome, QueryInv
  <1>5. CASE o = Outcome(chosen, "ERROR", {"HYC00"})
    BY <1>5, Zenon DEF Outcome
  <1>6. CASE o \in ExecuteOutcomes(chosen)
    BY <1>2, <1>6, ExecuteClean, Zenon
  <1> QED BY <1>3, <1>4, <1>5, <1>6, Zenon

(* Reading a column fails only with a record (Query::GetColumn).           *)
LEMMA GetColumnClean ==
    ASSUME NEW q \in Queries, NEW column, NEW o \in GetColumnOutcomes(q, column),
           o.result = "ERROR"
    PROVE  o.records # {}
  <1>1. CASE q.type = "DATA"
    <2>1. o \in DataGetColumn(q, column)
      BY <1>1, Zenon DEF GetColumnOutcomes, CatalogTypes
    <2>2. CASE ~q.executed \/ q.row = 0
      BY <2>1, <2>2, SMTT(30) DEF DataGetColumn, Outcome
    <2>3. CASE q.executed /\ q.row # 0
      <3>1. PICK r, conv : o = Outcome(r, ProcessConversionResult(conv), ConversionRecords(conv))
        BY <2>1, <2>3, Zenon DEF DataGetColumn
      <3>2. o.result = ProcessConversionResult(conv) /\ o.records = ConversionRecords(conv)
        BY <3>1, Zenon DEF Outcome
      <3> QED BY <3>2, FailureHasRecord, Zenon DEF ProcessConversionResult
    <2> QED BY <2>2, <2>3, Zenon
  <1>2. CASE q.type \in CatalogTypes \cup {"TYPE_INFO"}
    <2>1. o \in CatalogGetColumn(q, column)
      BY <1>2, Zenon DEF GetColumnOutcomes, CatalogTypes
    <2> QED BY <2>1, SMTT(30) DEF CatalogGetColumn, Outcome
  <1>3. CASE q.type \notin CatalogTypes \cup {"TYPE_INFO", "DATA"}
    BY <1>3, SMTT(30) DEF GetColumnOutcomes, Outcome
  <1> QED BY <1>1, <1>2, <1>3, Zenon

(* What GetMeta says of a query that has no columns. *)
NoMeta(q) == q.type = "INTERNAL" \/ (q.type = "DATA" /\ NumCols = 0)

(* Metadata fails without a record only where there is none (GetMeta).     *)
LEMMA GetMetaClean ==
    ASSUME NEW o \in GetMeta, query \in Queries, o.result = "ERROR", o.records = {}
    PROVE  NoMeta(o.query)
  <1>1. CASE query.type = "NONE"
    BY <1>1, SMTT(30) DEF GetMeta, Outcome
  <1>2. CASE query.type # "NONE"
    <2>1. o \in GetMetaOutcomes(query)
      BY <1>2, Zenon DEF GetMeta
    <2>2. CASE query.type = "INTERNAL"
      BY <2>1, <2>2, SMTT(30) DEF GetMetaOutcomes, Outcome, NoMeta
    <2>3. CASE query.type = "DATA" /\ ~query.metaSet
      <3>1. \/ o = Outcome(query, "ERROR", {"HY000"})
            \/ NumCols > 0 /\ o = Outcome([query EXCEPT !.metaSet = TRUE], "SUCCESS", {})
            \/ NumCols = 0 /\ o = Outcome(query, "ERROR", {})
        BY <2>1, <2>3, QueryAssumption, SMTT(30) DEF GetMetaOutcomes
      <3> QED BY <2>3, <3>1, SMTT(30) DEF Outcome, NoMeta
    <2>4. CASE query.type # "INTERNAL" /\ ~(query.type = "DATA" /\ ~query.metaSet)
      BY <2>1, <2>4, SMTT(30) DEF GetMetaOutcomes, Outcome
    <2> QED BY <2>2, <2>3, <2>4, Zenon
  <1> QED BY <1>1, <1>2, Zenon

(* What the answers of all calls satisfy. *)
CallInv == FailuresAreClean /\ ParamDataExecutesComplete

(* What one call's answer has to satisfy. *)
CleanAnswer(kind, q, res, records) ==
    /\ res = "ERROR" /\ records = {} => kind = "META" /\ NoMeta(q)
    /\ kind = "EXECUTE" /\ res = "ERROR" /\ q.executed =>
          records \in {{"HYC00"}, {"HY097"}, {"42000"}}

(* A call other than a fetch, with a clean answer. *)
LEMMA AnswerGood ==
    ASSUME Idle, NEW kind, NEW res, NEW records, Reply(kind, res, records),
           kind # "FETCH", CleanAnswer(kind, query', res, records),
           kind = "PARAMDATA" =>
              /\ res \in {"SUCCESS", "SUCCESS_WITH_INFO"} => NotReady(params') = {}
              /\ res = "NEED_DATA" => selected' \in NotReady(params')
    PROVE  FetchInv' /\ CallInv'
  <1>1. call' = kind /\ result' = res /\ recs' = records
    BY Zenon DEF Reply
  <1>2. FailedExecuteLeavesNoCursor'
    BY <1>1, Zenon DEF FailedExecuteLeavesNoCursor, CleanAnswer
  <1>3. ErrorHasRecord'
    BY <1>1, Zenon DEF ErrorHasRecord, CleanAnswer, NoMeta
  <1>4. ParamDataExecutesComplete'
    BY <1>1, Zenon DEF ParamDataExecutesComplete
  <1> QED BY <1>2, <1>3, <1>4, OtherCallKeepsFetchInv, Zenon DEF CallInv, FailuresAreClean

(* A call that changes nothing but the diagnostics, and says why it fails. *)
LEMMA ReplyOnlyAnswers ==
    ASSUME NEW kind \in Calls \ {"FETCH"}, NEW res, NEW records, ReplyOnly(kind, res, records),
           res = "ERROR" => records # {},
           kind = "EXECUTE" => records \in {{"HYC00"}, {"HY097"}, {"42000"}},
           kind = "PARAMDATA" => res = "ERROR"
    PROVE  FetchInv' /\ CallInv'
  <1>1. Idle /\ Reply(kind, res, records)
    BY Zenon DEF ReplyOnly
  <1>2. CleanAnswer(kind, query', res, records)
    BY Zenon DEF CleanAnswer
  <1> QED BY <1>1, <1>2, AnswerGood, Zenon

(* Bindings and attributes. *)
LEMMA BindingsAnswer ==
    ASSUME IInv, Bindings
    PROVE  FetchInv' /\ CallInv'
  <1>1. PICK res, records : /\ Idle /\ Reply("OTHER", res, records)
                            /\ res = "ERROR" => records # {}
    <2>1. CASE \E column \in Columns : BindColumn(column) \/ UnbindColumn(column)
      BY <2>1, SMTT(30) DEF BindColumn, UnbindColumn
    <2>2. CASE BindColumnError \/ BindParameterError \/ FreeResourcesError
      BY <2>2, Zenon DEF BindColumnError, BindParameterError, FreeResourcesError, ReplyOnly
    <2>3. CASE \E n \in Params, shape \in Shapes : BindParameter(n, shape)
      BY <2>3, SMTT(30) DEF BindParameter
    <2>4. CASE \E size \in 0..MaxRowArray : SetRowArraySize(size)
      <3>1. \/ Idle /\ Reply("OTHER", "ERROR", {"HY024"})
            \/ Idle /\ Reply("OTHER", "SUCCESS", {})
        BY <2>4, Zenon DEF SetRowArraySize
      <3> QED BY <3>1, SMTT(30)
    <2>5. CASE \E given \in Pointers : SetRowsFetchedPtr(given) \/ SetRowStatusesPtr(given)
      BY <2>5, SMTT(30) DEF SetRowsFetchedPtr, SetRowStatusesPtr
    <2>6. CASE \E size \in ParamSetSizes : SetParamSetSize(size)
      BY <2>6, SMTT(30) DEF SetParamSetSize
    <2>7. CASE SetOtherAttribute \/ GetAttribute
      BY <2>7, SMTT(30) DEF SetOtherAttribute, GetAttribute, ReplyOnly
    <2>8. CASE UnbindAllColumns \/ ResetParams
      BY <2>8, SMTT(30) DEF UnbindAllColumns, ResetParams
    <2> QED BY <2>1, <2>2, <2>3, <2>4, <2>5, <2>6, <2>7, <2>8, ZenonT(60) DEF Bindings
  <1>2. CleanAnswer("OTHER", query', res, records)
    BY <1>1, Zenon DEF CleanAnswer
  <1> QED BY <1>1, <1>2, AnswerGood, Zenon

(* Preparing, executing, parameter data and closing.                       *)
LEMMA ExecutionsAnswer ==
    ASSUME IInv, Executions
    PROVE  FetchInv' /\ CallInv'
  <1>1. query \in Queries /\ QueryInv(query)
    BY Zenon DEF IInv, TypeOK
  <1>2. ASSUME NEW q \in Queries, QueryInv(q), NEW ps, Idle,
               ReplyOutcome("EXECUTE", InternalExecute(q, ps))
        PROVE  FetchInv' /\ CallInv'
    <2>1. PICK o \in InternalExecute(q, ps) :
             query' = o.query /\ Reply("EXECUTE", o.result, o.records)
      BY <1>2, Zenon DEF ReplyOutcome
    <2>2. CleanAnswer("EXECUTE", query', o.result, o.records)
      BY <1>2, <2>1, InternalExecuteClean, ZenonT(60) DEF CleanAnswer
    <2> QED BY <1>2, <2>1, <2>2, AnswerGood, Zenon
  <1>3. CASE PrepareSqlQuery \/ PrepareInternalCommand \/ Close \/ PutNullData \/ PutDataError
             \/ \E length \in 0..MaxData : PutData(length)
    <2>1. PICK res, records : /\ Idle /\ Reply("OTHER", res, records)
                              /\ res = "ERROR" => records # {}
      <3>1. CASE PrepareSqlQuery \/ PrepareInternalCommand \/ Close
        BY <3>1, SMTT(30) DEF PrepareSqlQuery, PrepareInternalCommand, Close, ReplyOnly
      <3>2. CASE PutNullData \/ PutDataError
        BY <3>2, SMTT(30) DEF PutNullData, PutDataError, ReplyOnly
      <3>3. CASE \E length \in 0..MaxData : PutData(length)
        BY <3>3, SMTT(30) DEF PutData
      <3> QED BY <1>3, <3>1, <3>2, <3>3, Zenon
    <2>2. CleanAnswer("OTHER", query', res, records)
      BY <2>1, Zenon DEF CleanAnswer
    <2> QED BY <2>1, <2>2, AnswerGood, Zenon
  <1>4. CASE Execute
    BY <1>1, <1>2, <1>4, Zenon DEF Execute
  <1>5. CASE ExecDirect
    <2>1. CASE ReplyOnly("EXECUTE", "ERROR", {"42000"})
      BY <2>1, ReplyOnlyAnswers, Zenon DEF Calls
    <2>2. CASE ~ReplyOnly("EXECUTE", "ERROR", {"42000"})
      <3>1. PICK type \in {"DATA", "INTERNAL"} :
               ReplyOutcome("EXECUTE", InternalExecute(NewQuery(type), PrepareParams(params)))
        BY <1>5, <2>2, Zenon DEF ExecDirect
      <3>2. NewQuery(type) \in Queries /\ QueryInv(NewQuery(type)) /\ Idle
        BY <1>5, <2>2, NewQueryGood, Zenon DEF QueryTypes, ExecDirect
      <3> QED BY <1>2, <3>1, <3>2, Zenon
    <2> QED BY <2>1, <2>2, Zenon
  <1>6. ASSUME NEW type \in CatalogTypes \cup {"TYPE_INFO", "SPECIAL_COLUMNS"},
               ExecuteMetaQuery(type)
        PROVE  FetchInv' /\ CallInv'
    <2>1. PICK o \in ExecuteOutcomes(NewQuery(type)) :
             query' = o.query /\ Reply("EXECUTE", o.result, o.records)
      BY <1>6, Zenon DEF ExecuteMetaQuery, ReplyOutcome
    <2>2. NewQuery(type) \in Queries /\ QueryInv(NewQuery(type))
      BY NewQueryGood, Zenon DEF QueryTypes
    <2>3. o.result = "ERROR" => o.records # {} /\ ~o.query.executed
      BY <2>1, <2>2, ExecuteClean, Zenon
    <2>4. CleanAnswer("EXECUTE", query', o.result, o.records) /\ Idle
      BY <1>6, <2>1, <2>3, Zenon DEF CleanAnswer, ExecuteMetaQuery
    <2> QED BY <2>1, <2>4, AnswerGood, Zenon
  <1>7. CASE ExecuteMetaQueryError \/ SelectParamShort \/ SelectParamError
    BY <1>7, ReplyOnlyAnswers, Zenon
       DEF ExecuteMetaQueryError, SelectParamShort, SelectParamError, Calls
  <1>8. CASE SelectParamNext
    <2>1. /\ Idle /\ Reply("PARAMDATA", "NEED_DATA", {})
          /\ params' = params /\ selected' \in NotReady(params)
      BY <1>8, Zenon DEF SelectParamNext
    <2>2. CleanAnswer("PARAMDATA", query', "NEED_DATA", {})
      BY Zenon DEF CleanAnswer
    <2> QED BY <2>1, <2>2, AnswerGood, Zenon
  <1>9. CASE SelectParamExecute
    <2>1. PICK o \in ParamDataOutcomes :
             query' = o.query /\ Reply("PARAMDATA", o.result, o.records)
      BY <1>9, Zenon DEF SelectParamExecute, ReplyOutcome
    <2>2. Idle /\ NotReady(params) = {} /\ params' = params
      BY <1>9, Zenon DEF SelectParamExecute, paramVars
    <2>3. o.result \in {"SUCCESS_WITH_INFO", "SUCCESS", "TERMINATED"}
      <3>1. PICK e \in ExecuteOutcomes(query) :
               o = Outcome(e.query, IF e.result = "ERROR" THEN "SUCCESS_WITH_INFO"
                                    ELSE e.result, e.records)
        BY Zenon DEF ParamDataOutcomes
      <3>2. e.result \in {"SUCCESS", "ERROR", "TERMINATED"}
        BY <1>1, ExecuteClean, ZenonT(60)
      <3> QED BY <3>1, <3>2, Zenon DEF Outcome
    <2>4. CleanAnswer("PARAMDATA", query', o.result, o.records)
      BY <2>3, Zenon DEF CleanAnswer
    <2> QED BY <2>1, <2>2, <2>3, <2>4, AnswerGood, ZenonT(60)
  <1> QED BY <1>3, <1>4, <1>5, <1>6, <1>7, <1>8, <1>9, ZenonT(60) DEF Executions

(* Reading: the calls that are not a fetch, and the steps of one. *)
LEMMA ReadsAnswer ==
    ASSUME IInv, IInv', FetchInv, Reads
    PROVE  FetchInv' /\ CallInv'
  <1>1. query \in Queries /\ QueryInv(query)
    BY Zenon DEF IInv, TypeOK
  <1>2. CASE FetchBegin
    <2>1. /\ call' = "FETCH" /\ query' = query /\ query.type # "NONE" /\ inFetch' = TRUE
          /\ rowset' = NoRowset /\ rowStatuses' = NoStatuses /\ recs' = {}
          /\ i' = 0 /\ nFetched' = 0 /\ nErrors' = 0 /\ rowArraySize' = rowArraySize
      BY <1>2, Zenon DEF FetchBegin, setupVars
    <2>2. Filled' = 0 /\ rowArraySize \in Nat
      BY <2>1, SMTT(30) DEF Filled, IInv, TypeOK
    <2>3. /\ \A e \in Elements : rowset'[e] = 0 /\ rowStatuses'[e] = "UNSET"
          /\ \A e \in Elements : ~(e < 0) /\ e + 1 # 0
      BY <2>1, StatementAssumption, SMTT(30) DEF NoRowset, NoStatuses, Elements
    <2>4. FillInv'
      BY <2>1, <2>2, <2>3, Zenon DEF FillInv
    <2>5. Read' = {} /\ Good' = {}
      BY <2>3, Zenon DEF Read, Good
    <2>6. CountInv'
      BY <2>1, <2>5, FS_EmptySet, SMTT(30) DEF CountInv
    <2>7. LoopCall' /\ FetchReportAgrees'
      BY <2>1, <2>2, SMTT(30) DEF LoopCall, FetchReportAgrees
    <2>8. CallInv'
      BY <2>1, Zenon DEF CallInv, FailuresAreClean, FailedExecuteLeavesNoCursor, ErrorHasRecord,
                  ParamDataExecutesComplete
    <2> QED BY <2>4, <2>6, <2>7, <2>8, Zenon DEF FetchInv
  <1>3. CASE query.type = "NONE" /\ ReplyOnly("FETCH", "ERROR", {"24000"})
    <2>1. /\ call' = "FETCH" /\ result' = "ERROR" /\ recs' = {"24000"} /\ ~inFetch'
          /\ query'.type = "NONE"
      BY <1>3, Zenon DEF ReplyOnly, Reply, Idle, loopVars
    <2>2. FetchInv'
      BY <2>1, Zenon DEF FetchInv, LoopCall, FillInv, CountInv, FetchReportAgrees
    <2>3. CallInv'
      BY <2>1, Zenon DEF CallInv, FailuresAreClean, FailedExecuteLeavesNoCursor, ErrorHasRecord,
                  ParamDataExecutesComplete
    <2> QED BY <2>2, <2>3, Zenon
  <1>4. CASE ReplyOnly("OTHER", "ERROR", {"HYC00"}) \/ AffectedRows \/ GetParametersNumber
             \/ DescribeParam
    BY <1>4, ReplyOnlyAnswers, Zenon DEF AffectedRows, GetParametersNumber, DescribeParam, Calls
  <1>5. CASE FetchNextRow
    <2>1. FillInv' /\ CountInv'
      BY <1>5, FetchNextRowFills, FetchNextRowCounts, Zenon
    <2>2. /\ inFetch' /\ call' = "FETCH" /\ i' = i + 1 /\ i < rowArraySize
          /\ rowArraySize' = rowArraySize
      BY <1>5, Zenon DEF FetchNextRow, FetchInv, LoopCall, setupVars
    <2>3. query'.type # "NONE"
      <3>1. PICK o \in FetchNextRowOutcomes(query, bound) :
                o.result # "TERMINATED" /\ query' = o.query
        BY <1>5, Zenon DEF FetchNextRow
      <3> QED BY <1>1, <1>5, <3>1, FetchReports, ZenonT(60) DEF RowReport, FetchNextRow, FetchInv, LoopCall
    <2>4. LoopCall' /\ FetchReportAgrees'
      BY <2>2, <2>3, SMTT(30) DEF LoopCall, FetchReportAgrees, IInv, TypeOK
    <2>5. CallInv'
      BY <2>2, Zenon DEF CallInv, FailuresAreClean, FailedExecuteLeavesNoCursor, ErrorHasRecord,
                  ParamDataExecutesComplete
    <2> QED BY <2>1, <2>4, <2>5, Zenon DEF FetchInv
  <1>6. CASE FetchTerminates
    <2>1. /\ inFetch /\ ~inFetch' /\ result' = "TERMINATED" /\ i' = i
          /\ query' = query /\ call' = call /\ UNCHANGED setupVars
          /\ rowset' = rowset /\ rowStatuses' = rowStatuses
      BY <1>6, Zenon DEF FetchTerminates, bufferVars
    <2>2. Filled' = i /\ Filled = i
      BY <2>1, Zenon DEF Filled
    <2>3. FillInv'
      BY <2>1, <2>2, Zenon DEF FetchInv, FillInv, RowShown, HasData
    <2>4. LoopCall' /\ CountInv' /\ FetchReportAgrees'
      BY <2>1, Zenon DEF LoopCall, CountInv, FetchReportAgrees
    <2>5. CallInv'
      BY <2>1, Zenon DEF CallInv, FailuresAreClean, FailedExecuteLeavesNoCursor, ErrorHasRecord,
                  ParamDataExecutesComplete, FetchInv, LoopCall
    <2> QED BY <2>3, <2>4, <2>5, Zenon DEF FetchInv
  <1>7. CASE FetchEnd
    <2>1. FetchInv' /\ (result' = "ERROR" => recs' # {})
      BY <1>7, FetchEndReports, Zenon
    <2>2. call' = "FETCH"
      BY <1>7, Zenon DEF FetchEnd, FetchInv, LoopCall
    <2>3. CallInv'
      BY <2>1, <2>2, Zenon DEF CallInv, FailuresAreClean, FailedExecuteLeavesNoCursor, ErrorHasRecord,
                        ParamDataExecutesComplete
    <2> QED BY <2>1, <2>3, Zenon
  <1>8. ASSUME NEW column \in Columns, GetColumnData(column)
        PROVE  FetchInv' /\ CallInv'
    <2>1. PICK o : /\ \/ o = Outcome(query, "ERROR", {"24000"})
                      \/ o \in GetColumnOutcomes(query, column)
                   /\ Reply("GETDATA", o.result, o.records)
      BY <1>8, Zenon DEF GetColumnData, ReplyOutcome
    <2>2. o.result = "ERROR" => o.records # {}
      BY <1>1, <2>1, GetColumnClean, SMTT(30) DEF Outcome
    <2>3. CleanAnswer("GETDATA", query', o.result, o.records) /\ Idle
      BY <1>8, <2>2, Zenon DEF CleanAnswer, GetColumnData
    <2> QED BY <2>1, <2>3, AnswerGood, Zenon
  <1>9. CASE MoreResults
    <2>1. /\ Idle
          /\ Reply("OTHER", "ERROR", {"HY010"}) \/ Reply("OTHER", "NO_DATA", {})
      BY <1>9, Zenon DEF MoreResults
    <2>2. /\ CleanAnswer("OTHER", query', "ERROR", {"HY010"})
          /\ CleanAnswer("OTHER", query', "NO_DATA", {})
      BY Zenon DEF CleanAnswer
    <2> QED BY <2>1, <2>2, AnswerGood, Zenon
  <1>10. CASE GetColumnNumber \/ GetColumnAttribute
    <2>1. PICK o \in GetMeta :
            /\ query' = o.query
            /\ \/ Reply("META", o.result, o.records)
               \/ \E res \in {"SUCCESS", "SUCCESS_WITH_INFO"} : Reply("META", res, {})
               \/ \E state \in {"HY000", "HYC00"} : Reply("META", "ERROR", {state})
      BY <1>10, Zenon DEF GetColumnNumber, GetColumnAttribute, ReplyOutcome
    <2>2. PICK res, records : /\ Reply("META", res, records)
                              /\ res = "ERROR" /\ records = {} => NoMeta(query')
      BY <1>1, <2>1, GetMetaClean, SMTT(30)
    <2>3. CleanAnswer("META", query', res, records) /\ Idle
      BY <1>10, <2>2, Zenon DEF CleanAnswer, GetColumnNumber, GetColumnAttribute
    <2> QED BY <2>2, <2>3, AnswerGood, Zenon
  <1> QED BY <1>2, <1>3, <1>4, <1>5, <1>6, <1>7, <1>8, <1>9, <1>10, ZenonT(60)
          DEF Reads, FetchError, FetchLoop

(* A new handle has answered no call. *)
LEMMA InitAnswers == Init => FetchInv /\ CallInv
  BY Zenon DEF Init, FetchInv, LoopCall, FillInv, CountInv, FetchReportAgrees, CallInv,
         FailuresAreClean, FailedExecuteLeavesNoCursor, ErrorHasRecord,
         ParamDataExecutesComplete

(* Every step keeps what is said of fetches and answers. *)
LEMMA StepAnswers ==
    IInv /\ FetchInv /\ CallInv /\ [Next]_vars => FetchInv' /\ CallInv'
  <1> SUFFICES ASSUME IInv, FetchInv, CallInv, [Next]_vars PROVE FetchInv' /\ CallInv'
    BY Zenon
  <1>1. IInv'
    BY StepGood, Zenon
  <1>2. CASE UNCHANGED vars
    <2>1. FetchInv'
      BY <1>2, ZenonT(60) DEF vars, setupVars, paramVars, replyVars, bufferVars, loopVars, FetchInv,
                  LoopCall, FillInv, CountInv, FetchReportAgrees, Filled, Read, Good,
                  RowShown, HasData
    <2>2. CallInv'
      BY <1>2, Zenon DEF vars, setupVars, paramVars, replyVars, bufferVars, loopVars, CallInv,
                  FailuresAreClean, FailedExecuteLeavesNoCursor, ErrorHasRecord,
                  ParamDataExecutesComplete, NotReady
    <2> QED BY <2>1, <2>2, Zenon
  <1>3. CASE Bindings
    BY <1>3, BindingsAnswer, Zenon
  <1>4. CASE Executions
    BY <1>4, ExecutionsAnswer, Zenon
  <1>5. CASE Reads
    BY <1>1, <1>5, ReadsAnswer, Zenon
  <1> QED BY <1>2, <1>3, <1>4, <1>5, Zenon DEF Next, Terminated

(* What is said of fetches and answers holds throughout. *)
THEOREM Answers == Spec => [](IInv /\ FetchInv /\ CallInv)
  <1>1. IInv /\ [Next]_vars => IInv'
    BY StepGood, Zenon
  <1> QED BY InitGood, InitAnswers, <1>1, StepAnswers, PTL DEF Spec

(* The rowset of a fetch has no hole and repeats no row, for row arrays of *)
(* any size and results of any length (Statement::InternalFetchRow).       *)
THEOREM RowsetHasNoHoles == Spec => []RowsetConsecutive
  <1>1. IInv /\ FetchInv => RowsetConsecutive
    <2> SUFFICES ASSUME IInv, FetchInv, call = "FETCH", query.executed
                 PROVE  RowsetConsecutive
      BY Zenon DEF RowsetConsecutive
    <2>1. query.type # "NONE"
      BY Zenon DEF IInv, QueryInv
    <2> QED BY <2>1, Zenon DEF FetchInv, FillInv, RowsetConsecutive
  <1> QED BY Answers, <1>1, PTL

(* What a fetch returns, counts and marks agrees with the rows it read     *)
(* (Statement::InternalFetchRow).                                          *)
THEOREM ReportAgrees == Spec => []FetchReportAgrees
  <1>1. FetchInv => FetchReportAgrees
    BY Zenon DEF FetchInv
  <1> QED BY Answers, <1>1, PTL

(* A call that fails has added a record, and an execution that fails has   *)
(* left no cursor unless it was refused before it began                    *)
(* (InternalExecuteSqlQuery and the Execute methods).                      *)
THEOREM FailuresClean == Spec => []FailuresAreClean
  <1>1. CallInv => FailuresAreClean
    BY Zenon DEF CallInv
  <1> QED BY Answers, <1>1, PTL

(* SQLParamData executes only with all data there, whatever the parameters *)
(* are (Statement::InternalSelectParam, ParameterSet::SelectNextParameter).*)
THEOREM ParametersComplete == Spec => []ParametersAreComplete
  <1>1. IInv /\ CallInv => ParametersAreComplete
    BY Zenon DEF IInv, CallInv, ParametersAreComplete
  <1> QED BY Answers, <1>1, PTL
=============================================================================
