------------------------------ MODULE Catalog ------------------------------
(***************************************************************************)
(* How the catalogue queries ask the JDBC driver and read its answer       *)
(* (MakeRequestGetTablesMeta and its like in src/query, src/meta,          *)
(* src/jni/database_metadata.cpp, src/jni/result_set.cpp and the calls of  *)
(* java.cpp they make).  Each row of a Java result set becomes an element  *)
(* of a vector, field by field; the calls that read a row can fail, and    *)
(* mostly nobody looks.                                                    *)
(***************************************************************************)
EXTENDS Types

CONSTANTS
    MaxRows,        \* bound: the rows of an answer
    DataTypes       \* the JDBC types the server may list

ASSUME CatalogAssumption == MaxRows \in Nat /\ DataTypes \subseteq JdbcTypes

VARIABLES
    kind,           \* the query's class
    pc,             \* the call that comes next
    java,           \* the rows of the reply, on the Java side
    position,       \* the row its cursor is on
    resultSet,      \* the result set on the Java side
    object,         \* the Java objects held
    meta,           \* the vector being filled
    prevPosition,   \* the ordinal position of the column before
    types,          \* binaryTypes, with sqlTypes: what TypeInfoQuery found
    wanted,         \* requestedSqlType
    cut,            \* a call of Next has failed
    reply           \* what the request has returned

catalogVars == <<kind, pc, java, position, resultSet, object, meta, prevPosition, types,
                 wanted, cut, reply>>

(* SQL_ALL_TYPES *)
AllTypes == "ALL_TYPES"

(* The SQL type of a JDBC type that is known. *)
SqlTypeFor(d) == BinaryToSqlType(Some(d))[1]

SqlTypesOf(binaryTypes) == {SqlTypeFor(d) : d \in binaryTypes}

Kinds == {"TABLES", "COLUMNS", "PRIMARY_KEYS", "FOREIGN_KEYS", "TYPES"}

(* The fields of a row, one of each sort that TableMeta::Read,             *)
(* ColumnMeta::Read, PrimaryKeyMeta::Read and ForeignKeyMeta::Read read.   *)
Fields ==
    [TABLES |-> {"name"},
     COLUMNS |-> {"name", "number", "ordinal"},
     PRIMARY_KEYS |-> {"name", "number"},
     FOREIGN_KEYS |-> {"name", "number"},
     TYPES |-> {"type"}]

Objects == {"handle", "connection", "metadata", "resultSet"}

Given == {"handle", "connection"}

(* A row of the server: a field is null or tells its row; columns have     *)
(* their ordinal positions or none.                                        *)
Rows(k, r) ==
    IF k = "TYPES" THEN [Fields[k] -> {Some(d) : d \in DataTypes} \cup {None}]
    ELSE [Fields[k] -> {None, Some(r)}]

Answers(k) == UNION {{s \in [1..n -> UNION {Rows(k, r) : r \in 1..n}] :
                        \A r \in 1..n : s[r] \in Rows(k, r)} : n \in 0..MaxRows}

CatalogInit ==
    /\ kind \in Kinds
    /\ pc = "METADATA"
    /\ java = <<>> /\ position = 0 /\ resultSet = "NONE"
    /\ \E valid \in SUBSET Given :
          object = [o \in Objects |-> IF o \in valid THEN Some(o) ELSE None]
    /\ meta = <<>> /\ prevPosition = 0 /\ types = {}
    /\ wanted \in {AllTypes} \cup {s \in SqlTypes : kind = "TYPES" /\ IsSqlTypeSupported(Some(s))}
    /\ cut = FALSE /\ reply = "NONE"

Goto(label) == pc' = label

-----------------------------------------------------------------------------
(***************************************************************************)
(* Asking.                                                                 *)
(***************************************************************************)

(* Connection::GetMetaData and DocumentDbConnection::GetMetaData *)
GetMetaData ==
    /\ pc = "METADATA"
    /\ \E outcome \in Outcomes :
          LET call == CallObject(object["connection"], None, outcome, "metadata")
              fails == object["handle"] = None \/ call.code # "SUCCESS"
          IN  /\ object' = [object EXCEPT !["metadata"] = IF fails THEN @ ELSE call.value]
              /\ Goto(IF fails THEN "ERROR" ELSE "ASK")
    /\ UNCHANGED <<kind, java, position, resultSet, meta, prevPosition, types, wanted,
                   cut, reply>>

(* One of DatabaseMetaDataGetTables, GetColumns, GetPrimaryKeys,           *)
(* GetImportedKeys and GetTypeInfo, wrapped in a ResultSet.  The vector is *)
(* cleared before it is filled.                                            *)
Ask(k) ==
    /\ pc = "ASK" /\ kind = k
    /\ \E outcome \in Outcomes :
          LET call == CallObject(object["metadata"], None, outcome, "resultSet")
          IN  /\ object' = [object EXCEPT !["resultSet"] = call.value]
              /\ IF call.value = None
                 THEN UNCHANGED <<java, resultSet>>
                 ELSE java' \in Answers(k) /\ resultSet' = "OPEN"
              /\ meta' = IF call.code = "SUCCESS" THEN <<>> ELSE meta
              /\ Goto(IF call.code = "SUCCESS" THEN "NEXT" ELSE "ERROR")
    /\ position' = 0 /\ prevPosition' = 0
    /\ UNCHANGED <<kind, types, wanted, cut, reply>>

GetTables == Ask("TABLES")

GetColumns == Ask("COLUMNS")

GetPrimaryKeys == Ask("PRIMARY_KEYS")

GetImportedKeys == Ask("FOREIGN_KEYS")

GetTypeInfo == Ask("TYPES")

-----------------------------------------------------------------------------
(***************************************************************************)
(* Reading.                                                                *)
(***************************************************************************)

(* What is to be read next: row position of the answer. *)
Row == java[position]

(* ResultSet::Next.  The vectors end where it fails; TypeInfoQuery returns *)
(* an error.                                                               *)
NextRow ==
    /\ pc = "NEXT"
    /\ \E outcome \in Outcomes \ {"NULL"} :
          LET code == CallCode(object["resultSet"], outcome)
              hasNext == code = "SUCCESS" /\ position < Len(java)
          IN  /\ position' = IF hasNext THEN position + 1 ELSE position
              /\ cut' = (cut \/ code # "SUCCESS")
              /\ Goto(IF hasNext THEN "READ"
                      ELSE IF code # "SUCCESS" /\ kind = "TYPES" THEN "CLOSE_ERROR"
                      ELSE "CLOSE")
    /\ UNCHANGED <<kind, java, resultSet, object, meta, prevPosition, types, wanted,
                   reply>>

(* What the getter of a field can leave in an element where it held old. *)
Readings(field, old) ==
    CASE field = "name" ->
            {CallString(object["resultSet"], old, o, Row[field]).value : o \in Outcomes}
      [] field = "number" ->
            UNION {GetSmallInt(object["resultSet"], old, o, n, Row[field]) :
                     o \in Outcomes, n \in Outcomes}
      [] OTHER ->
            UNION {GetInt(object["resultSet"], old, o, n, Row[field]) :
                     o \in Outcomes, n \in Outcomes}

(* Mutant: the elements are copies of one that is not made anew. *)
ElementReused(k) ==
    IF meta = <<>> THEN [f \in Fields[k] |-> None] ELSE meta[Len(meta)]

(* meta.emplace_back(TableMeta()) *)
Element(k) == [f \in Fields[k] |-> None]

(* TableMeta::Read, PrimaryKeyMeta::Read, ForeignKeyMeta::Read: whether a  *)
(* field could be read is not looked at.                                   *)
Read ==
    /\ pc = "READ" /\ kind \in {"TABLES", "PRIMARY_KEYS", "FOREIGN_KEYS"}
    /\ \E read \in [Fields[kind] -> UNION {Readings(f, Element(kind)[f]) : f \in Fields[kind]}] :
          /\ \A f \in Fields[kind] : read[f] \in Readings(f, Element(kind)[f])
          /\ meta' = Append(meta, read)
    /\ Goto("NEXT")
    /\ UNCHANGED <<kind, java, position, resultSet, object, prevPosition, types, wanted,
                   cut, reply>>

(* ColumnMeta::Read, which gives a column without a position the one after *)
(* the last.                                                               *)
ReadColumn ==
    /\ pc = "READ" /\ kind = "COLUMNS"
    /\ \E name \in Readings("name", Element(kind).name),
          number \in Readings("number", Element(kind).number),
          ordinal \in Readings("ordinal", Element(kind).ordinal) :
          LET p == IF ordinal = None THEN prevPosition + 1 ELSE ordinal[1]
          IN  /\ prevPosition' = p
              /\ meta' = Append(meta, [name |-> name, number |-> number, ordinal |-> Some(p)])
    /\ Goto("NEXT")
    /\ UNCHANGED <<kind, java, position, resultSet, object, types, wanted, cut, reply>>

(* A type of TypeInfoQuery: the first of each SQL type is kept.  Without a *)
(* value the optional is dereferenced.                                     *)
ReadType ==
    /\ pc = "READ" /\ kind = "TYPES"
    /\ \/ /\ Goto("CLOSE_ERROR")
          /\ UNCHANGED <<types, reply>>
       \/ /\ Row["type"] = None
          /\ reply' = "TERMINATED" /\ Goto("DONE")
          /\ UNCHANGED types
       \/ /\ Row["type"] # None
          /\ LET type == Row["type"][1]
                 take == /\ SqlTypeFor(type) \notin SqlTypesOf(types)
                         /\ wanted \in {AllTypes, SqlTypeFor(type)}
             IN  /\ types' = IF take THEN types \cup {type} ELSE types
                 /\ Goto(IF take /\ wanted # AllTypes THEN "CLOSE" ELSE "NEXT")
          /\ UNCHANGED reply
    /\ UNCHANGED <<kind, java, position, resultSet, object, meta, prevPosition, wanted, cut>>

-----------------------------------------------------------------------------
(***************************************************************************)
(* The end.                                                                *)
(***************************************************************************)

(* ~ResultSet closes the Java result set, if it can. *)
CloseResultSet ==
    \E outcome \in Outcomes \ {"NULL"} :
       resultSet' = IF object["resultSet"] = None THEN resultSet
                    ELSE IF CallCode(object["resultSet"], outcome) = "SUCCESS" THEN "CLOSED"
                    ELSE "CLOSE_FAILED"

(* The request returns; the last pointer to the ResultSet goes. *)
Finish ==
    /\ pc \in {"CLOSE", "CLOSE_ERROR"}
    /\ CloseResultSet
    /\ object' = [object EXCEPT !["resultSet"] = None]
    /\ reply' = IF pc = "CLOSE" THEN "SUCCESS" ELSE "ERROR"
    /\ Goto("DONE")
    /\ UNCHANGED <<kind, java, position, meta, prevPosition, types, wanted, cut>>

(* The request could not be made. *)
ReturnError ==
    /\ pc = "ERROR"
    /\ reply' = "ERROR"
    /\ Goto("DONE")
    /\ UNCHANGED <<kind, java, position, resultSet, object, meta, prevPosition, types,
                   wanted, cut>>

(* The query is executed again: Close drops the vector of a query that was *)
(* executed, and TypeInfoQuery asks only when it has found nothing.        *)
Again ==
    /\ pc = "DONE" /\ reply # "TERMINATED" /\ types = {}
    /\ pc' = "METADATA"
    /\ java' = <<>> /\ position' = 0 /\ resultSet' = "NONE" /\ prevPosition' = 0
    /\ meta' = IF reply = "SUCCESS" THEN <<>> ELSE meta
    /\ object' = [o \in Objects |-> IF o \in Given THEN object[o] ELSE None]
    /\ cut' = FALSE /\ reply' = "NONE"
    /\ UNCHANGED <<kind, types, wanted>>

CatalogNext ==
    \/ GetMetaData
    \/ GetTables \/ GetColumns \/ GetPrimaryKeys \/ GetImportedKeys \/ GetTypeInfo
    \/ NextRow \/ Read \/ ReadColumn \/ ReadType \/ Finish \/ ReturnError \/ Again

CatalogSpec == CatalogInit /\ [][CatalogNext]_catalogVars

-----------------------------------------------------------------------------
(* Uninitialised wasNull: a null was taken for the zero Java returns. *)
Undefined(i, field) == field # "name" /\ java[i][field] = None

(* No element shows anything of another row: a field that is null, or that *)
(* could not be read, is empty and not what the row before had (the        *)
(* getters that leave their variable alone, emplace_back of a new element).*)
FieldsComeFromTheirRow ==
    /\ Len(meta) <= position
    /\ \A i \in DOMAIN meta : \A f \in Fields[kind] \ {"ordinal"} :
          \/ meta[i][f] \in {None, java[i][f]}
          \/ meta[i][f] = Some(0) /\ Undefined(i, f)

(* A request that succeeds lists every row the server has, or every SQL    *)
(* type once, whatever duplicates there are, unless Next has failed.       *)
ListedUnlessCut ==
    reply = "SUCCESS" /\ ~cut =>
        IF kind = "TYPES"
        THEN LET all == {SqlTypeFor(java[i]["type"][1]) : i \in 1..position}
             IN  /\ SqlTypesOf(types) = IF wanted = AllTypes THEN all ELSE all \cap {wanted}
                 /\ \A d, e \in types : SqlTypeFor(d) = SqlTypeFor(e) => d = e
                 /\ wanted = AllTypes => position = Len(java)
        ELSE Len(meta) = Len(java)

(* Columns whose positions the server knows, is silent about or fails to   *)
(* tell are numbered in a row, unless wasNull was used uninitialised       *)
(* (ColumnMeta::Read, prevPosition).                                       *)
ColumnsArePositioned ==
    kind = "COLUMNS" /\ (\A i \in DOMAIN meta : meta[i].ordinal # Some(0)) =>
        \A i \in DOMAIN meta : meta[i].ordinal = Some(i)

(* No request leaves a Java result set open, however it ends (~ResultSet). *)
ResultSetIsClosed == pc = "DONE" /\ reply # "TERMINATED" => resultSet # "OPEN"

(* The catalogue queries: no element shows anything of another row, every  *)
(* row is listed unless Next failed, columns are numbered in a row, and    *)
(* none leaves a Java result set open.                                     *)
CatalogIsRead ==
    FieldsComeFromTheirRow /\ ListedUnlessCut /\ ColumnsArePositioned /\ ResultSetIsClosed
=============================================================================
