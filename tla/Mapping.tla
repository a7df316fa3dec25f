------------------------------ MODULE Mapping ------------------------------
(***************************************************************************)
(* How a statement's SQL becomes an aggregation on a collection            *)
(* (src/query/data_query.cpp, src/jni/documentdb_query_mapping_service.cpp *)
(* and the calls of java.cpp they make).  A chain of calls on Java objects *)
(* gives a context: the name of the collection, the stages of the          *)
(* aggregation, and the paths and the metadata of the columns, each list   *)
(* read element by element.  Any call can fail.                            *)
(***************************************************************************)
EXTENDS Jni

CONSTANTS
    NumStages,      \* bound: the stages of the aggregation
    NumColumns      \* bound: the columns of its result

VARIABLES
    request,    \* MakeRequestFetch or MakeRequestResultsetMeta
    mpc,         \* the call that comes next
    object,     \* the Java objects held
    errInfo,    \* the code in the errInfo of DataQuery::GetMqlQueryContext
    size,       \* listSize
    context,    \* the DocumentDbMqlQueryContext being filled
    mapped,     \* mqlQueryContext: what GetMqlQueryContext has returned
    manswer      \* what the request has returned

mappingVars == <<request, mpc, object, errInfo, size, context, mapped, manswer>>

Objects == {"handle", "connection", "properties", "metadata", "service", "query",
            "stages", "paths", "columns", "element"}

(* connection_ and its Java object, which a request is given. *)
Given == {"handle", "connection"}

Lists == {"stages", "paths", "columns"}

(* The elements of each list on the Java side. *)
Source ==
    [stages  |-> [i \in 1..NumStages |-> i],
     paths   |-> [i \in 1..NumColumns |-> i],
     columns |-> [i \in 1..NumColumns |-> i]]

NoLists == [list \in Lists |-> <<>>]

Requests == {"FETCH", "META"}

(* A request on a connection that is open, whose Java object is missing,   *)
(* or that was never opened.                                               *)
MappingInit ==
    /\ request \in Requests
    /\ mpc = "PROPERTIES"
    /\ \E valid \in SUBSET Given :
          object = [o \in Objects |-> IF o \in valid THEN Some(o) ELSE None]
    /\ errInfo = "SUCCESS" /\ size = 0
    /\ context = None /\ mapped = None /\ manswer = "NONE"

Continue(label) == mpc' = label

-----------------------------------------------------------------------------
(***************************************************************************)
(* The objects, each from the one before.                                  *)
(***************************************************************************)

(* A call on target for an object: with an error the mapping is over, and  *)
(* a null is found out by the call after this one.                         *)
GetObject(from, target, result, to) ==
    /\ mpc = from
    /\ \E outcome \in Outcomes :
          LET call == CallObject(object[target], object[result], outcome, result)
          IN  /\ object' = [object EXCEPT ![result] = call.value]
              /\ errInfo' = call.code
              /\ Continue(IF call.code = "SUCCESS" THEN to ELSE "FAILED")
    /\ UNCHANGED <<request, size, context, mapped, manswer>>

(* Connection::GetConnectionProperties wants a connection. *)
NotConnected ==
    /\ mpc = "PROPERTIES" /\ object["handle"] = None
    /\ errInfo' = "GENERIC"
    /\ Continue("FAILED")
    /\ UNCHANGED <<request, object, size, context, mapped, manswer>>

GetConnectionProperties ==
    /\ object["handle"] # None
    /\ GetObject("PROPERTIES", "connection", "properties", "METADATA")

GetDatabaseMetadata ==
    GetObject("METADATA", "connection", "metadata", "SERVICE")

(* DocumentDbQueryMappingService::Create: both must be there. *)
CreateService ==
    IF object["properties"] = None
    THEN GetObject("SERVICE", "properties", "service", "QUERY")
    ELSE GetObject("SERVICE", "metadata", "service", "QUERY")

QueryMappingServiceGet ==
    GetObject("QUERY", "service", "query", "COLLECTION")

(* GetCollectionName, and the context that is made with the name. *)
GetCollectionName ==
    /\ mpc = "COLLECTION"
    /\ \E outcome \in Outcomes :
          LET code == CallCode(object["query"], outcome)
          IN  /\ errInfo' = code
              /\ context' = IF code = "SUCCESS" THEN Some(NoLists) ELSE context
              /\ Continue(IF code = "SUCCESS" THEN "STAGES" ELSE "FAILED")
    /\ UNCHANGED <<request, object, size, mapped, manswer>>

GetAggregateOperations == GetObject("STAGES", "query", "stages", "STAGES_SIZE")

GetPaths == GetObject("PATHS", "query", "paths", "PATHS_SIZE")

GetColumnMetadata == GetObject("COLUMNS", "query", "columns", "COLUMNS_SIZE")

-----------------------------------------------------------------------------
(***************************************************************************)
(* ReadListOfString and ReadJdbcColumnMetadata.                            *)
(***************************************************************************)

(* Where the loop over a list is: its size is read, then its elements. *)
SizeOf == [stages |-> "STAGES_SIZE", paths |-> "PATHS_SIZE", columns |-> "COLUMNS_SIZE"]

GetOf == [stages |-> "STAGES_GET", paths |-> "PATHS_GET", columns |-> "COLUMNS_GET"]

ValueOf == [stages |-> "STAGES_VALUE", paths |-> "PATHS_VALUE", columns |-> "COLUMNS_VALUE"]

After == [stages |-> "PATHS", paths |-> "COLUMNS", columns |-> "RETURN"]

Read(list) == Head(context)[list]

(* ReadListOfString keeps its errors to itself: it returns false, and the  *)
(* mapping returns nothing with errInfo as it was.                         *)
ReadListFails(list, code) ==
    /\ list # "columns"
    /\ Continue("LOST")
    /\ UNCHANGED errInfo

(* Mutant: ReadJdbcColumnMetadata, too, has an errInfo of its own. *)
ReadColumnsFailsAlone(list, code) ==
    /\ list = "columns"
    /\ Continue("RETURN")
    /\ UNCHANGED errInfo

(* ReadJdbcColumnMetadata fills the caller's errInfo, which is all that    *)
(* tells of it: what it returns is not looked at.                          *)
ReadColumnsFails(list, code) ==
    /\ list = "columns"
    /\ Continue("RETURN")
    /\ errInfo' = code

ReadFails(list, code) == ReadListFails(list, code) \/ ReadColumnsFails(list, code)

(* A call on the way that goes well sets the errInfo it was given. *)
ReadGoesOn(list) ==
    errInfo' = IF list = "columns" THEN "SUCCESS" ELSE errInfo

ListSize(list) ==
    /\ mpc = SizeOf[list]
    /\ \E outcome \in Outcomes \ {"NULL"} :
          LET call == CallPlain(object[list], size, outcome, Len(Source[list]))
          IN  /\ size' = call.value
              /\ \/ call.code # "SUCCESS" /\ ReadFails(list, call.code)
                 \/ call.code = "SUCCESS" /\ ReadGoesOn(list) /\ Continue(GetOf[list])
    /\ UNCHANGED <<request, object, context, mapped, manswer>>

(* The loop's condition and ListGet. *)
ListGet(list) ==
    /\ mpc = GetOf[list]
    /\ IF Len(Read(list)) < size
       THEN \E outcome \in Outcomes :
               LET call == CallObject(object[list], None, outcome, Len(Read(list)) + 1)
               IN  /\ object' = [object EXCEPT !["element"] = call.value]
                   /\ \/ call.code # "SUCCESS" /\ ReadFails(list, call.code)
                      \/ call.code = "SUCCESS" /\ ReadGoesOn(list) /\ Continue(ValueOf[list])
       ELSE Continue(After[list]) /\ UNCHANGED <<object, errInfo>>
    /\ UNCHANGED <<request, size, context, mapped, manswer>>

Append1(list) ==
    context' = Some([Head(context) EXCEPT ![list] = Append(@, Head(object["element"]))])

(* JavaStringToCppString: a null element is dereferenced once the thread   *)
(* is attached.                                                            *)
JavaStringToCppString(list) ==
    /\ list # "columns" /\ mpc = ValueOf[list]
    /\ \/ ReadListFails(list, "JVM_ATTACH") /\ UNCHANGED <<context, manswer>>
       \/ /\ object["element"] # None
          /\ Append1(list) /\ Continue(GetOf[list]) /\ UNCHANGED <<errInfo, manswer>>
       \/ /\ object["element"] = None
          /\ manswer' = "TERMINATED" /\ Continue("DONE") /\ UNCHANGED <<errInfo, context>>
    /\ UNCHANGED <<request, object, size, mapped>>

(* One of the calls on a JDBCColumnMetadata. *)
ColumnCall(outcome) == CallCode(object["element"], outcome)

(* All twenty-one of them, up to the first that fails, and the             *)
(* JdbcColumnMetadata made of their results.                               *)
JdbcColumnMetadata ==
    /\ mpc = ValueOf["columns"]
    /\ \E outcome \in Outcomes \ {"NULL"} :
          LET code == ColumnCall(outcome)
          IN  \/ code # "SUCCESS" /\ ReadFails("columns", code) /\ UNCHANGED context
              \/ /\ code = "SUCCESS" /\ ReadGoesOn("columns")
                 /\ Append1("columns") /\ Continue(GetOf["columns"])
    /\ UNCHANGED <<request, object, size, mapped, manswer>>

-----------------------------------------------------------------------------
(***************************************************************************)
(* The end.                                                                *)
(***************************************************************************)

(* GetMqlQueryContext of the service returns a context or null, that of    *)
(* DataQuery an error if errInfo has one.                                  *)
Return ==
    /\ mpc \in {"RETURN", "LOST", "FAILED"}
    /\ mapped' = IF mpc = "RETURN" THEN context ELSE None
    /\ Continue(IF errInfo = "SUCCESS" THEN "USE" ELSE "ERROR")
    /\ UNCHANGED <<request, object, errInfo, size, context, manswer>>

(* The request adds a record and returns an error. *)
ReturnError ==
    /\ mpc = "ERROR"
    /\ manswer' = "ERROR"
    /\ Continue("DONE")
    /\ UNCHANGED <<request, object, errInfo, size, context, mapped>>

(* MakeRequestResultsetMeta looks whether there is a context. *)
UseForMeta ==
    /\ mpc = "USE" /\ request = "META"
    /\ manswer' = IF mapped = None THEN "ERROR" ELSE "SUCCESS"
    /\ Continue("DONE")
    /\ UNCHANGED <<request, object, errInfo, size, context, mapped>>

(* MakeRequestFetch does not.  The aggregation may throw what it catches,  *)
(* and the conversion of a stage what it does not.                         *)
UseForFetch ==
    /\ mpc = "USE" /\ request = "FETCH"
    /\ manswer' \in IF mapped = None THEN {"TERMINATED"}
                   ELSE {"SUCCESS", "ERROR"}
                        \cup (IF Len(Head(mapped).stages) > 0 THEN {"TERMINATED"} ELSE {})
    /\ Continue("DONE")
    /\ UNCHANGED <<request, object, errInfo, size, context, mapped>>

(* The statement may be executed again. *)
Again ==
    /\ mpc = "DONE" /\ manswer # "TERMINATED"
    /\ request' \in Requests
    /\ mpc' = "PROPERTIES"
    /\ object' = [o \in Objects |-> IF o \in Given THEN object[o] ELSE None]
    /\ errInfo' = "SUCCESS" /\ size' = 0
    /\ context' = None /\ mapped' = None /\ manswer' = "NONE"

MappingNext ==
    \/ NotConnected \/ GetConnectionProperties \/ GetDatabaseMetadata \/ CreateService
    \/ QueryMappingServiceGet \/ GetCollectionName
    \/ GetAggregateOperations \/ GetPaths \/ GetColumnMetadata
    \/ \E list \in Lists : ListSize(list) \/ ListGet(list) \/ JavaStringToCppString(list)
    \/ JdbcColumnMetadata
    \/ Return \/ ReturnError \/ UseForMeta \/ UseForFetch \/ Again

MappingSpec == MappingInit /\ [][MappingNext]_mappingVars

(* Each call into Java returns. *)
MappingFairSpec == MappingSpec /\ WF_mappingVars(MappingNext)

-----------------------------------------------------------------------------
(* A context with which DataQuery goes on, to run its stages on the server *)
(* or to describe its columns, is whole: each list has all the elements    *)
(* Java has, in order (GetMqlQueryContext, errInfo after                   *)
(* ReadJdbcColumnMetadata, whose result is ignored).                       *)
UsedIsWhole ==
    mapped # None /\ mpc \in {"USE", "DONE"} /\ manswer # "ERROR" => Head(mapped) = Source

(* What was read of a list is always a beginning of it, and a list is read *)
(* after the ones before it are whole (the order in GetMqlQueryContext).   *)
ListsReadInOrder ==
    context # None =>
        /\ \A list \in Lists :
              /\ Len(Read(list)) <= Len(Source[list])
              /\ Read(list) = SubSeq(Source[list], 1, Len(Read(list)))
        /\ Len(Read("paths")) > 0 => Read("stages") = Source.stages
        /\ Len(Read("columns")) > 0 => Read("paths") = Source.paths

(* DataQuery: a context with which it goes on is whole, and what was read  *)
(* of a list is a beginning of it, list by list.                           *)
UsedContextIsWhole == UsedIsWhole /\ ListsReadInOrder

(* A request ends, one way or another, however its calls come out. *)
RequestEnds == (manswer = "NONE") ~> (manswer # "NONE")
=============================================================================
