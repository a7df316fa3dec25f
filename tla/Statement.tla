----------------------------- MODULE Statement -----------------------------
(***************************************************************************)
(* An ODBC statement handle (src/statement.cpp): the query object it holds,*)
(* the column and parameter bindings, the attributes that steer a fetch,   *)
(* and what the last API call returned.                                    *)
(*                                                                         *)
(* Every public method runs inside DOCUMENTDB_ODBC_API_CALL: the           *)
(* diagnostics are cleared, the Internal... method runs, and its result    *)
(* becomes the return code.  A call is one action, except for a fetch,     *)
(* whose loop over the row array is one step per row.  Calls on one        *)
(* statement do not overlap.                                               *)
(***************************************************************************)
EXTENDS Query, FiniteSets

CONSTANTS
    MaxRowArray,    \* bound: the largest SQL_ATTR_ROW_ARRAY_SIZE set
    Pointers,       \* whether row count and status pointers are given
    Params,         \* the parameter numbers the application binds
    MaxData,        \* bound: the most bytes of data sent for a parameter
    Shapes,         \* the kinds of parameter buffers it binds, see below
    ParamSetSizes   \* the values of SQL_ATTR_PARAMSET_SIZE set

ASSUME StatementAssumption ==
    /\ MaxRowArray \in Nat \ {0}
    /\ Pointers \subseteq BOOLEAN
    /\ Params \subseteq Nat \ {0}
    /\ MaxData \in Nat
    /\ Shapes \subseteq [dae : BOOLEAN, append : BOOLEAN, size : 0..MaxData]
    /\ ParamSetSizes \subseteq Nat

VARIABLES
    query,            \* currentQuery
    bound,            \* the keys of columnBindings
    rowArraySize,     \* rowArraySize
    rowsFetchedPtr,   \* rowsFetched is not null
    rowStatusPtr,     \* rowStatuses is not null
    params,           \* parameters: bindings and data stored by SQLPutData
    selected,         \* currentParamIdx of parameters, 0 for none
    paramSetSize,     \* paramSetSize of parameters
    call,             \* the last API call, by kind
    result,           \* the result in the diagnostic header
    recs,             \* the SQLSTATEs of the status records
    rowsFetched,      \* *rowsFetched as the last call left it
    rowStatuses,      \* rowStatuses[] as the last call left it
    rowset,           \* the row number the bound buffers got at each element
    inFetch,          \* the loop of InternalFetchRow is running
    i, nFetched, nErrors   \* its locals i, fetched, errors

setupVars == <<bound, rowArraySize, rowsFetchedPtr, rowStatusPtr, paramSetSize>>
paramVars == <<params, selected>>
replyVars == <<call, result, recs>>
bufferVars == <<rowsFetched, rowStatuses, rowset>>
loopVars == <<inFetch, i, nFetched, nErrors>>

vars == <<query, setupVars, paramVars, replyVars, bufferVars, loopVars>>

(* NumCols + 1 stands for every column number the result does not have. *)
Columns == 1..(NumCols + 1)

Elements == 0..(MaxRowArray - 1)

NoStatuses == [e \in Elements |-> "UNSET"]

NoRowset == [e \in Elements |-> 0]

Calls == {"NONE", "EXECUTE", "PARAMDATA", "FETCH", "GETDATA", "META", "OTHER"}

-----------------------------------------------------------------------------
(***************************************************************************)
(* Parameters (src/app/parameter.cpp, parameter_set.cpp).  dae: the        *)
(* indicator asks for data at execution.  append: the buffer is of         *)
(* character or binary type, so that pieces of data are appended.  size:   *)
(* GetDataAtExecSize.  stored: the size of storedData.                     *)
(***************************************************************************)

Parameters ==
    [bound : BOOLEAN, dae : BOOLEAN, append : BOOLEAN,
     size : 0..MaxData, stored : 0..MaxData]

Unbound == [bound |-> FALSE, dae |-> FALSE, append |-> FALSE, size |-> 0, stored |-> 0]

IsDataReady(p) == ~p.dae \/ p.stored = p.size

NotReady(ps) == {n \in Params : ps[n].bound /\ ~IsDataReady(ps[n])}

IsDataAtExecNeeded(ps) == NotReady(ps) # {}

(* ParameterSet::Prepare drops the stored data; the selection stays. *)
PrepareParams(ps) == [n \in Params |-> [ps[n] EXCEPT !.stored = 0]]

-----------------------------------------------------------------------------
Init ==
    /\ query = NoQuery
    /\ bound = {}
    /\ rowArraySize = 1
    /\ rowsFetchedPtr = FALSE
    /\ rowStatusPtr = FALSE
    /\ params = [n \in Params |-> Unbound]
    /\ selected = 0
    /\ paramSetSize = 1
    /\ call = "NONE"
    /\ result = "SUCCESS"
    /\ recs = {}
    /\ rowsFetched = 0
    /\ rowStatuses = NoStatuses
    /\ rowset = NoRowset
    /\ inFetch = FALSE
    /\ i = 0
    /\ nFetched = 0
    /\ nErrors = 0

(* The next call may be made. *)
Idle == ~inFetch /\ result # "TERMINATED"

(* A call returns res, having added these records; the application reads   *)
(* what the call before it left in its fetch buffers and clears them.      *)
Reply(kind, res, records) ==
    /\ call' = kind
    /\ result' = res
    /\ recs' = records
    /\ rowsFetched' = 0
    /\ rowStatuses' = NoStatuses
    /\ rowset' = NoRowset
    /\ UNCHANGED loopVars

(* A call answered by a method of the query object. *)
ReplyOutcome(kind, outcomes) ==
    \E o \in outcomes :
        /\ query' = o.query
        /\ Reply(kind, o.result, o.records)

(* A call that changes nothing but the diagnostics. *)
ReplyOnly(kind, res, records) ==
    /\ Idle
    /\ Reply(kind, res, records)
    /\ UNCHANGED <<query, setupVars, paramVars>>

-----------------------------------------------------------------------------
(***************************************************************************)
(* Bindings and attributes.                                                *)
(***************************************************************************)

BindColumn(column) ==
    /\ Idle
    /\ bound' = bound \cup {column}
    /\ Reply("OTHER", "SUCCESS", {})
    /\ UNCHANGED <<query, rowArraySize, rowsFetchedPtr, rowStatusPtr, paramSetSize, paramVars>>

UnbindColumn(column) ==
    /\ Idle
    /\ bound' = bound \ {column}
    /\ Reply("OTHER", "SUCCESS", {})
    /\ UNCHANGED <<query, rowArraySize, rowsFetchedPtr, rowStatusPtr, paramSetSize, paramVars>>

BindColumnError ==
    \E state \in {"HY003", "HY090"} : ReplyOnly("OTHER", "ERROR", {state})

(* Binding again assigns the buffer and leaves storedData alone. *)
BindParameter(n, shape) ==
    /\ Idle
    /\ params' = [params EXCEPT ![n] =
                     [bound |-> TRUE, dae |-> shape.dae, append |-> shape.append,
                      size |-> shape.size, stored |-> @.stored]]
    /\ Reply("OTHER", "SUCCESS", {})
    /\ UNCHANGED <<query, setupVars, selected>>

BindParameterError ==
    \E state \in {"24000", "HY105", "HYC00", "HY003", "HY009"} :
        ReplyOnly("OTHER", "ERROR", {state})

(* Mutant: the check of the value is missing. *)
SetRowArraySizeUnchecked(size) ==
    /\ Idle
    /\ rowArraySize' = size
    /\ Reply("OTHER", "SUCCESS", {})
    /\ UNCHANGED <<query, bound, rowsFetchedPtr, rowStatusPtr, paramSetSize, paramVars>>

SetRowArraySize(size) ==
    /\ Idle
    /\ IF size < 1
       THEN /\ rowArraySize' = rowArraySize
            /\ Reply("OTHER", "ERROR", {"HY024"})
       ELSE /\ rowArraySize' = size
            /\ Reply("OTHER", "SUCCESS", {})
    /\ UNCHANGED <<query, bound, rowsFetchedPtr, rowStatusPtr, paramSetSize, paramVars>>

SetRowsFetchedPtr(given) ==
    /\ Idle
    /\ rowsFetchedPtr' = given
    /\ Reply("OTHER", "SUCCESS", {})
    /\ UNCHANGED <<query, bound, rowArraySize, rowStatusPtr, paramSetSize, paramVars>>

SetRowStatusesPtr(given) ==
    /\ Idle
    /\ rowStatusPtr' = given
    /\ Reply("OTHER", "SUCCESS", {})
    /\ UNCHANGED <<query, bound, rowArraySize, rowsFetchedPtr, paramSetSize, paramVars>>

SetParamSetSize(size) ==
    /\ Idle
    /\ paramSetSize' = size
    /\ Reply("OTHER", "SUCCESS", {})
    /\ UNCHANGED <<query, bound, rowArraySize, rowsFetchedPtr, rowStatusPtr, paramVars>>

(* The attributes whose value no property depends on: the timeout, which   *)
(* is cut down to 32 bits, bind types, offset and status pointers; and the *)
(* attributes there are not.                                               *)
SetOtherAttribute ==
    \/ ReplyOnly("OTHER", "SUCCESS", {})
    \/ ReplyOnly("OTHER", "SUCCESS_WITH_INFO", {"01S02"})
    \/ ReplyOnly("OTHER", "ERROR", {"HYC00"})

GetAttribute ==
    \/ ReplyOnly("OTHER", "SUCCESS", {})
    \/ \E state \in {"HY000", "HYC00"} : ReplyOnly("OTHER", "ERROR", {state})

-----------------------------------------------------------------------------
(***************************************************************************)
(* Preparing and executing.                                                *)
(***************************************************************************)

(* InternalPrepareSqlQuery for SQL: the new object replaces the old one,   *)
(* which is closed first.                                                  *)
PrepareSqlQuery ==
    /\ Idle
    /\ params' = PrepareParams(params)
    /\ query' = NewQuery("DATA")
    /\ Reply("OTHER", "SUCCESS", {})
    /\ UNCHANGED <<setupVars, selected>>

(* ProcessInternalCommand: SET STREAMING ... *)
PrepareInternalCommand ==
    \/ /\ Idle
       /\ params' = PrepareParams(params)
       /\ query' = NewQuery("INTERNAL")
       /\ Reply("OTHER", "SUCCESS", {})
       /\ UNCHANGED <<setupVars, selected>>
    \/ ReplyOnly("OTHER", "ERROR", {"42000"})

(* InternalExecuteSqlQuery: a data query becomes a batch and a batch a     *)
(* data query as the parameter set size says; data at execution is         *)
(* refused; everything else executes.                                      *)
InternalExecute(q, ps) ==
    LET chosen ==
            CASE paramSetSize > 1 /\ q.type = "DATA"  -> NewQuery("BATCH")
              [] paramSetSize = 1 /\ q.type = "BATCH" -> NewQuery("DATA")
              [] OTHER                                -> q
    IN  CASE q.type = "NONE"          -> {Outcome(q, "ERROR", {"HY010"})}
          [] IsDataAtExecNeeded(ps)
             /\ q.type # "NONE"       -> {Outcome(chosen, "ERROR", {"HYC00"})}
          [] OTHER                    -> ExecuteOutcomes(chosen)

Execute ==
    /\ Idle
    /\ ReplyOutcome("EXECUTE", InternalExecute(query, params))
    /\ UNCHANGED <<setupVars, paramVars>>

(* SQLExecDirect: prepare, then execute. *)
ExecDirect ==
    \/ /\ Idle
       /\ params' = PrepareParams(params)
       /\ \E type \in {"DATA", "INTERNAL"} :
             ReplyOutcome("EXECUTE", InternalExecute(NewQuery(type), PrepareParams(params)))
       /\ UNCHANGED <<setupVars, selected>>
    \/ ReplyOnly("EXECUTE", "ERROR", {"42000"})

(* SQLTables, SQLColumns, SQLForeignKeys, SQLPrimaryKeys, SQLGetTypeInfo,  *)
(* SQLSpecialColumns: the old query is closed and replaced, the new one    *)
(* executed.                                                               *)
ExecuteMetaQuery(type) ==
    /\ Idle
    /\ ReplyOutcome("EXECUTE", ExecuteOutcomes(NewQuery(type)))
    /\ UNCHANGED <<setupVars, paramVars>>

(* SQLSpecialColumns with an unknown identifier type, SQLGetTypeInfo with  *)
(* an unsupported type: nothing is closed.                                 *)
ExecuteMetaQueryError ==
    \E state \in {"HY097", "HYC00"} : ReplyOnly("EXECUTE", "ERROR", {state})

(* SQLParamData with the selected parameter's data short; with another     *)
(* parameter to ask for, the first one; and with all data there.  Whatever *)
(* keeps the query from executing is turned into success with info.        *)
SelectParamShort ==
    /\ selected \in NotReady(params)
    /\ query.type # "NONE"
    /\ ReplyOnly("PARAMDATA", "ERROR", {"22026"})

SelectParamNext ==
    /\ Idle
    /\ query.type # "NONE"
    /\ selected \notin NotReady(params)
    /\ \E n \in NotReady(params) :
          /\ \A m \in NotReady(params) : n <= m
          /\ selected' = n
    /\ Reply("PARAMDATA", "NEED_DATA", {})
    /\ UNCHANGED <<query, setupVars, params>>

ParamDataOutcomes ==
    {Outcome(o.query, IF o.result = "ERROR" THEN "SUCCESS_WITH_INFO" ELSE o.result, o.records) :
        o \in ExecuteOutcomes(query)}

(* Mutant: only the selected parameter's data is waited for. *)
SelectParamExecuteEarly ==
    /\ Idle
    /\ query.type # "NONE"
    /\ selected \notin NotReady(params)
    /\ ReplyOutcome("PARAMDATA", ParamDataOutcomes)
    /\ UNCHANGED <<setupVars, paramVars>>

SelectParamExecute ==
    /\ Idle
    /\ query.type # "NONE"
    /\ NotReady(params) = {}
    /\ ReplyOutcome("PARAMDATA", ParamDataOutcomes)
    /\ UNCHANGED <<setupVars, paramVars>>

SelectParamError ==
    \/ ReplyOnly("PARAMDATA", "ERROR", {"HY000"})
    \/ query.type = "NONE" /\ ReplyOnly("PARAMDATA", "ERROR", {"HY010"})

(* SQLPutData of length bytes.  Null and default data store nothing, like  *)
(* a length of 0 for an appending buffer.                                  *)
PutData(length) ==
    /\ Idle
    /\ selected # 0
    /\ params[selected].bound
    /\ LET p == params[selected]
       IN  /\ p.append => p.stored + length <= MaxData
           /\ params' = [params EXCEPT ![selected].stored =
                            IF p.append THEN @ + length ELSE p.size]
    /\ Reply("OTHER", "SUCCESS", {})
    /\ UNCHANGED <<query, setupVars, selected>>

PutNullData ==
    /\ selected # 0
    /\ params[selected].bound
    /\ ReplyOnly("OTHER", "SUCCESS", {})

PutDataError ==
    \/ ReplyOnly("OTHER", "ERROR", {"HY009"})
    \/ selected = 0 /\ ReplyOnly("OTHER", "ERROR", {"HY010"})
    \/ /\ selected # 0
       /\ ~params[selected].bound
       /\ ReplyOnly("OTHER", "ERROR", {"HY000"})

-----------------------------------------------------------------------------
(***************************************************************************)
(* Reading results.                                                        *)
(***************************************************************************)

(* The row a fetched query object shows: the document a data query's row   *)
(* views, or what a catalogue query's cursor points to.                    *)
RowShown(q) ==
    IF q.type = "DATA" THEN q.row
    ELSE IF q.executed /\ q.fetched /\ HasData(q) THEN q.pos + 1 ELSE 0

(* SQLFetch, and SQLFetchScroll and SQLExtendedFetch to the next rowset. *)
FetchBegin ==
    /\ Idle
    /\ query.type # "NONE"
    /\ call' = "FETCH"
    /\ result' = "ERROR"
    /\ recs' = {}
    /\ rowsFetched' = 0
    /\ rowStatuses' = NoStatuses
    /\ rowset' = NoRowset
    /\ inFetch' = TRUE
    /\ i' = 0 /\ nFetched' = 0 /\ nErrors' = 0
    /\ UNCHANGED <<query, setupVars, paramVars>>

FetchError ==
    \/ query.type = "NONE" /\ ReplyOnly("FETCH", "ERROR", {"24000"})
    \/ ReplyOnly("OTHER", "ERROR", {"HYC00"})   \* any other orientation

(* One turn of the loop: the query moves to its next row and fills element *)
(* i of the bound buffers.                                                 *)
FetchNextRow ==
    /\ inFetch
    /\ i < rowArraySize
    /\ \E o \in FetchNextRowOutcomes(query, bound) :
         /\ o.result # "TERMINATED"
         /\ query' = o.query
         /\ recs' = recs \cup o.records
         /\ nFetched' = IF o.result = "SUCCESS" THEN nFetched + 1 ELSE nFetched
         /\ nErrors' = IF o.result = "ERROR" THEN nErrors + 1 ELSE nErrors
         /\ rowset' = [rowset EXCEPT ![i] = RowShown(o.query)]
         /\ rowStatuses' = IF rowStatusPtr
                           THEN [rowStatuses EXCEPT ![i] = SqlResultToRowResult(o.result)]
                           ELSE rowStatuses
    /\ i' = i + 1
    /\ UNCHANGED <<setupVars, paramVars, call, result, rowsFetched, inFetch>>

FetchTerminates ==
    /\ inFetch
    /\ i < rowArraySize
    /\ \E o \in FetchNextRowOutcomes(query, bound) : o.result = "TERMINATED"
    /\ result' = "TERMINATED"
    /\ inFetch' = FALSE
    /\ UNCHANGED <<query, setupVars, paramVars, call, recs, bufferVars, i, nFetched, nErrors>>

(* Mutant: rows with errors are forgotten. *)
FetchResultIgnoresErrors(fetched, errors) ==
    IF fetched > 0 THEN "SUCCESS" ELSE IF errors = 0 THEN "NO_DATA" ELSE "ERROR"

FetchResult(fetched, errors) ==
    IF fetched > 0 THEN IF errors = 0 THEN "SUCCESS" ELSE "SUCCESS_WITH_INFO"
                   ELSE IF errors = 0 THEN "NO_DATA" ELSE "ERROR"

(* Mutant: the loop starts again until a row arrives. *)
FetchEndWaitsForRows ==
    /\ inFetch
    /\ i = rowArraySize
    /\ rowsFetched' = IF rowsFetchedPtr THEN nFetched ELSE 0
    /\ result' = IF nFetched + nErrors = 0 THEN result ELSE FetchResult(nFetched, nErrors)
    /\ inFetch' = (nFetched + nErrors = 0)
    /\ i' = 0 /\ nFetched' = 0 /\ nErrors' = 0
    /\ UNCHANGED <<query, setupVars, paramVars, call, recs, rowStatuses, rowset>>

FetchEnd ==
    /\ inFetch
    /\ i = rowArraySize
    /\ rowsFetched' = IF rowsFetchedPtr THEN nFetched ELSE 0
    /\ result' = FetchResult(nFetched, nErrors)
    /\ inFetch' = FALSE
    /\ i' = 0 /\ nFetched' = 0 /\ nErrors' = 0
    /\ UNCHANGED <<query, setupVars, paramVars, call, recs, rowStatuses, rowset>>

GetColumnData(column) ==
    /\ Idle
    /\ ReplyOutcome("GETDATA", IF query.type = "NONE"
                               THEN {Outcome(query, "ERROR", {"24000"})}
                               ELSE GetColumnOutcomes(query, column))
    /\ UNCHANGED <<setupVars, paramVars>>

(* SQLMoreResults *)
MoreResults ==
    /\ Idle
    /\ IF query.type = "NONE"
       THEN Reply("OTHER", "ERROR", {"HY010"}) /\ UNCHANGED query
       ELSE Reply("OTHER", "NO_DATA", {}) /\ query' = NextResultSet(query)
    /\ UNCHANGED <<setupVars, paramVars>>

AffectedRows ==
    \/ query.type # "NONE" /\ ReplyOnly("OTHER", "SUCCESS", {})
    \/ query.type = "NONE" /\ ReplyOnly("OTHER", "ERROR", {"HY010"})

(* GetMeta, behind SQLNumResultCols and SQLColAttribute. *)
GetMeta == IF query.type = "NONE" THEN {Outcome(query, "ERROR", {"HY010"})}
                                  ELSE GetMetaOutcomes(query)

GetColumnNumber ==
    /\ Idle
    /\ ReplyOutcome("META", GetMeta)
    /\ UNCHANGED <<setupVars, paramVars>>

(* SQLColAttribute of a column there is, of one there is not, and of an    *)
(* unknown attribute.  A truncated name has no status record.              *)
GetColumnAttribute ==
    /\ Idle
    /\ \E o \in GetMeta :
         /\ query' = o.query
         /\ IF o.result # "SUCCESS"
            THEN Reply("META", o.result, o.records)
            ELSE \/ /\ query.type # "BATCH"   \* a batch has no columns
                    /\ \E res \in {"SUCCESS", "SUCCESS_WITH_INFO"} : Reply("META", res, {})
                 \/ \E state \in {"HY000", "HYC00"} : Reply("META", "ERROR", {state})
    /\ UNCHANGED <<setupVars, paramVars>>

(* SQLNumParams and SQLDescribeParam: the request for the types of the     *)
(* parameters of a data query always fails.                                *)
GetParametersNumber ==
    \/ query.type = "NONE" /\ ReplyOnly("OTHER", "ERROR", {"HY010"})
    \/ query.type = "DATA" /\ ReplyOnly("OTHER", "ERROR", {"HY000"})
    \/ query.type \notin {"NONE", "DATA"} /\ ReplyOnly("OTHER", "SUCCESS", {})

DescribeParam ==
    \/ query.type # "DATA" /\ ReplyOnly("OTHER", "ERROR", {"HY010"})
    \/ query.type = "DATA" /\ ReplyOnly("OTHER", "ERROR", {"HY000"})

-----------------------------------------------------------------------------
(***************************************************************************)
(* Closing and releasing.                                                  *)
(***************************************************************************)

(* SQLCloseCursor, and SQLFreeStmt with SQL_CLOSE. *)
Close ==
    /\ Idle
    /\ query' = IF query.type = "NONE" THEN query ELSE CloseQuery(query)
    /\ Reply("OTHER", "SUCCESS", {})
    /\ UNCHANGED <<setupVars, paramVars>>

(* SQLFreeStmt with SQL_UNBIND, with SQL_RESET_PARAMS and with options it  *)
(* does not know.                                                          *)
UnbindAllColumns ==
    /\ Idle
    /\ bound' = {}
    /\ Reply("OTHER", "SUCCESS", {})
    /\ UNCHANGED <<query, rowArraySize, rowsFetchedPtr, rowStatusPtr, paramSetSize, paramVars>>

ResetParams ==
    /\ Idle
    /\ params' = [n \in Params |-> Unbound]
    /\ Reply("OTHER", "SUCCESS", {})
    /\ UNCHANGED <<query, setupVars, selected>>

FreeResourcesError ==
    \E state \in {"HY000", "HY092"} : ReplyOnly("OTHER", "ERROR", {state})

(* The process is gone. *)
Terminated == result = "TERMINATED" /\ UNCHANGED vars

-----------------------------------------------------------------------------
Bindings ==
    \/ \E column \in Columns : BindColumn(column) \/ UnbindColumn(column)
    \/ BindColumnError
    \/ \E n \in Params, shape \in Shapes : BindParameter(n, shape)
    \/ BindParameterError
    \/ \E size \in 0..MaxRowArray : SetRowArraySize(size)
    \/ \E given \in Pointers : SetRowsFetchedPtr(given) \/ SetRowStatusesPtr(given)
    \/ \E size \in ParamSetSizes : SetParamSetSize(size)
    \/ SetOtherAttribute
    \/ GetAttribute
    \/ UnbindAllColumns
    \/ ResetParams
    \/ FreeResourcesError

Executions ==
    \/ PrepareSqlQuery
    \/ PrepareInternalCommand
    \/ Execute
    \/ ExecDirect
    \/ \E type \in CatalogTypes \cup {"TYPE_INFO", "SPECIAL_COLUMNS"} : ExecuteMetaQuery(type)
    \/ ExecuteMetaQueryError
    \/ SelectParamShort
    \/ SelectParamNext
    \/ SelectParamExecute
    \/ SelectParamError
    \/ \E length \in 0..MaxData : PutData(length)
    \/ PutNullData
    \/ PutDataError
    \/ Close

FetchLoop == FetchNextRow \/ FetchTerminates \/ FetchEnd

Reads ==
    \/ FetchBegin
    \/ FetchError
    \/ FetchLoop
    \/ \E column \in Columns : GetColumnData(column)
    \/ MoreResults
    \/ AffectedRows
    \/ GetColumnNumber
    \/ GetColumnAttribute
    \/ GetParametersNumber
    \/ DescribeParam

Next == Bindings \/ Executions \/ Reads \/ Terminated

Spec == Init /\ [][Next]_vars

(* The loop of a fetch runs on the caller's thread and is never put off.   *)
FairSpec == Spec /\ WF_vars(FetchLoop)

(***************************************************************************)
(* The states type-correct code can be in.                                 *)
(***************************************************************************)
TypeOK ==
    /\ query \in Queries
    /\ bound \subseteq Columns
    /\ rowArraySize \in 1..MaxRowArray
    /\ rowsFetchedPtr \in BOOLEAN /\ rowStatusPtr \in BOOLEAN
    /\ params \in [Params -> Parameters]
    /\ selected \in Params \cup {0}
    /\ paramSetSize \in ParamSetSizes \cup {1}
    /\ call \in Calls
    /\ result \in CallResults
    /\ recs \subseteq SqlStates
    /\ rowsFetched \in 0..MaxRowArray
    /\ rowStatuses \in [Elements -> RowStatuses \cup {"UNSET"}]
    /\ rowset \in [Elements -> 0..MaxRows]
    /\ inFetch \in BOOLEAN
    /\ i \in 0..MaxRowArray /\ nFetched \in 0..i /\ nErrors \in 0..i

(* An open cursor is never past its end and starts on the first row, and   *)
(* what a data query shows is the document its MongoDB iterator stands on: *)
(* the current row, and every column discovered on that or on an earlier   *)
(* row (DocumentDbRow::Update must move them all), whatever mix of fetches *)
(* and SQLGetData came before.                                             *)
RowFollowsIterator ==
    query.executed =>
        /\ query.pos <= query.rows
        /\ ~query.fetched => query.pos = 0
        /\ query.type = "DATA" =>
              /\ query.row = IF query.fetched /\ HasData(query) THEN query.pos + 1 ELSE 0
              /\ \A c \in 1..NumCols : query.columns[c] \in {0, query.row}

(* The elements the loop of the last fetch has been through. *)
Filled == IF inFetch \/ result = "TERMINATED" THEN i ELSE rowArraySize

(* The rowset a fetch fills has no hole and repeats no row: its rows have  *)
(* consecutive numbers from element 0 on, the last of them is the one the  *)
(* query still shows, and elements are left empty only when the result is  *)
(* used up.                                                                *)
RowsetConsecutive ==
    call = "FETCH" /\ query.executed =>
        \A e \in Elements :
            /\ rowset[e] # 0 =>
                  /\ \A d \in 0..e : rowset[d] = rowset[0] + d
                  /\ e + 1 = Filled => rowset[e] = RowShown(query)
            /\ rowset[e] = 0 /\ e < Filled => ~HasData(query)

(* What a finished fetch reports agrees with what it did: *rowsFetched     *)
(* counts the elements whose status is success; SUCCESS means that every   *)
(* row read is reported as such, NO_DATA that nothing was read and the     *)
(* result is used up, ERROR that no element may be used.                   *)
FetchReportAgrees ==
    LET read == {e \in Elements : rowset[e] # 0}
        good == {e \in Elements : rowStatuses[e] = "ROW_SUCCESS"}
    IN  call = "FETCH" /\ ~inFetch /\ query.type # "NONE" =>
        /\ rowStatusPtr /\ result # "TERMINATED" =>
              /\ good \subseteq read
              /\ rowsFetchedPtr => rowsFetched = Cardinality(good)
              /\ result = "SUCCESS" => good = read /\ good # {}
              /\ result = "ERROR" => good = {}
        /\ result = "NO_DATA" =>
              /\ read = {}
              /\ query.executed => ~HasData(query)

(* An execution that fails leaves no cursor of an earlier execution to     *)
(* fetch from, unless it was refused before it began: for parameters still *)
(* waiting for data, a meta query's bad argument, or a command that does   *)
(* not parse.                                                              *)
FailedExecuteLeavesNoCursor ==
    call = "EXECUTE" /\ result = "ERROR" /\ query.executed =>
        recs \in {{"HYC00"}, {"HY097"}, {"42000"}}

(* SQLParamData runs the query only when every bound parameter has all of  *)
(* its data, and asks only for a parameter that lacks some.                *)
ParamDataExecutesComplete ==
    call = "PARAMDATA" =>
        /\ result \in {"SUCCESS", "SUCCESS_WITH_INFO"} => NotReady(params) = {}
        /\ result = "NEED_DATA" => selected \in NotReady(params)

(* An execution that returns success has met no error, as the comment on   *)
(* every Execute says ("@return True on success").                         *)
ExecuteSuccessMeansNoError ==
    call = "EXECUTE" /\ result = "SUCCESS" => recs = {}

(* A call that fails says why, except for the metadata of an internal      *)
(* command and of a data query whose result has no columns.                *)
ErrorHasRecord ==
    result = "ERROR" /\ ~inFetch /\ recs = {} =>
        /\ call = "META"
        /\ query.type = "INTERNAL" \/ (query.type = "DATA" /\ NumCols = 0)

(* What is left after a failure: no cursor of the query before, and a      *)
(* record for every error returned.                                        *)
FailuresAreClean == FailedExecuteLeavesNoCursor /\ ErrorHasRecord

(* A statement with parameters, however they were bound, sent in pieces,   *)
(* rebound and reset, is executed only with all their data, and its        *)
(* failures are clean.                                                     *)
ParametersAreComplete == TypeOK /\ ParamDataExecutesComplete /\ FailuresAreClean

(* How a query object stands for a cursor: the size of its result, and the *)
(* rows it has handed out.                                                 *)
ResultSize(q) == IF q.executed THEN q.rows ELSE 0

RowsDelivered(q) ==
    IF q.executed /\ q.fetched THEN IF HasData(q) THEN q.pos + 1 ELSE q.rows
                               ELSE 0

(* The statement implements a forward-only cursor: rows are delivered in   *)
(* order, each once, and only executing or closing a query changes the     *)
(* result set, for every class of query and whatever other calls come in   *)
(* between.                                                                *)
Cursor == INSTANCE ForwardCursor WITH
    open <- query.executed,
    size <- ResultSize(query),
    delivered <- RowsDelivered(query)

(* The forward-only cursor as a property of the statement. *)
ForwardOnly == Cursor!Spec

(* An application that ends up doing nothing but fetching from an open     *)
(* cursor comes to the end of the result, conversion errors or not.        *)
FetchingDrainsResult ==
    (<>[](call = "FETCH" /\ query.executed) /\ []<><<FetchBegin>>_vars)
        => <>[]~HasData(query)

(* A fetch that has begun returns (or the process ends). *)
FetchReturns == inFetch ~> ~inFetch
=============================================================================
