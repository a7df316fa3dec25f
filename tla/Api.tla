-------------------------------- MODULE Api --------------------------------
(***************************************************************************)
(* The C interface of the driver: the functions src/entry_points.cpp       *)
(* exports and src/odbc.cpp implements.  Most of them turn the handle into *)
(* an object, call one method of it and return the code the method left in *)
(* its diagnostics; what those methods do is the subject of the modules    *)
(* Statement, Connection and Diagnostics.  Here are the steps the          *)
(* interface takes itself: which handle a function asks for, what it       *)
(* writes through its pointers, and which code it returns.                 *)
(*                                                                         *)
(* One environment, connection and statement; the driver manager lets a    *)
(* function through only with the handle it needs, or a null one.          *)
(***************************************************************************)
EXTENDS Text

CONSTANTS
    NameBuffers,     \* buffers for a name: none, or one of so many characters
    Texts,           \* the lengths of the SQL texts and connection strings
    TextBuffers,     \* buffers for them
    RowArraySize     \* the most rows one fetch returns

(* The most characters whose length in bytes is an SQLSMALLINT. *)
MaxNameChars == IF WCharSize = 2 THEN 16383 ELSE 8191

(* Column names and the buffers for them are no longer. *)
ASSUME ApiAssumption ==
    /\ \A n \in NameLengths : n \in Nat /\ n <= MaxNameChars
    /\ \A b \in NameBuffers : \/ b = None
                              \/ b = Some(b[1]) /\ b[1] \in Nat /\ b[1] <= MaxNameChars
    /\ \A n \in Texts : n \in Nat
    /\ \A b \in TextBuffers : \/ b = None
                              \/ b = Some(b[1]) /\ b[1] \in Nat
    /\ RowArraySize \in Nat

VARIABLES
    live,            \* the handles that are allocated
    columns,         \* the current query: none, or whether it has columns and which
    code,            \* the code in the diagnostics of the statement
    last             \* the last call: its function, arguments, code and output

vars == <<live, columns, code, last>>

Codes == {"SUCCESS", "SUCCESS_WITH_INFO", "ERROR", "NO_DATA"}

Succeeded(c) == c \in {"SUCCESS", "SUCCESS_WITH_INFO"}

(* Outputs nobody wrote, and outputs written from a variable that has no   *)
(* value yet.                                                              *)
NotWritten == -77

Uninitialised == -99

NoOutput ==
    [count |-> NotWritten, size |-> NotWritten, digits |-> NotWritten,
     nullable |-> NotWritten, type |-> <<"not written">>, length |-> NotWritten,
     chars |-> NotWritten, rows |-> 0, handle |-> "not written"]

NoCall == [fn |-> "none", args |-> <<>>, ret |-> "SUCCESS", out |-> NoOutput]

Call(f, args, ret, output) == last' = [fn |-> f, args |-> args, ret |-> ret, out |-> output]

-----------------------------------------------------------------------------
(***************************************************************************)
(* The metadata of the result.                                             *)
(***************************************************************************)

(* Statement::GetMeta: None without a query and without metadata. *)
GetMeta == IF columns = None THEN None ELSE columns[1]

StringAttributes == {"NAME", "TYPE_NAME"}

StringAttribute(c, id) ==
    CASE id = "NAME"      -> Some(c.nameLength)
      [] id = "TYPE_NAME" -> Some(IF BinaryTypeToSqlTypeName(c.type) = None THEN 0 ELSE 7)
      [] OTHER            -> None

(* InternalGetColumnAttribute: numeric tells whether there is a pointer    *)
(* for a number, which is written even when the attribute is not one.      *)
InternalGetColumnAttribute(index, id, buffer, size, numeric) ==
    LET meta    == GetMeta
        outside == meta = None \/ index > Len(meta[1]) \/ index < 1
        c       == meta[1][index]
        number  == numeric /\ id \in NumericAttributes \cup {"TYPE", "NULLABLE"}
        text    == StringAttribute(c, id)
        copied  == IF buffer = None
                   THEN [length |-> text[1], truncated |-> FALSE, written |-> 0]
                   ELSE CopyStringToBuffer(text[1], buffer, SizeT(size), TRUE)
        nothing == [code |-> "ERROR", number |-> Uninitialised, type |-> <<"uninitialised">>,
                    length |-> 0, written |-> 0, truncated |-> FALSE]
    IN  CASE outside -> nothing
          [] ~outside /\ number ->
                [nothing EXCEPT !.code = "SUCCESS",
                    !.type = IF id = "TYPE" THEN BinaryToSqlType(c.type) ELSE @,
                    !.number = CASE id = "TYPE"     -> -1
                                 [] id = "NULLABLE" -> NullabilityToSql(c.nullability[1])
                                 [] OTHER           -> NumericAttribute(c, id)]
          [] ~outside /\ ~number /\ text # None ->
                [code |-> IF copied.truncated THEN "SUCCESS_WITH_INFO" ELSE "SUCCESS",
                 number |-> IF numeric THEN -1 ELSE Uninitialised,
                 type |-> <<"uninitialised">>,
                 length |-> Int16(copied.length), written |-> copied.written,
                 truncated |-> copied.truncated]
          [] OTHER -> [nothing EXCEPT !.number = IF numeric THEN -1 ELSE @]

(* Mutant: there are no columns when there is no metadata, and no error. *)
InternalGetColumnNumberLenient ==
    IF GetMeta = None THEN [code |-> "SUCCESS", number |-> Uninitialised]
    ELSE [code |-> "SUCCESS", number |-> Len(GetMeta[1])]

InternalGetColumnNumber ==
    IF GetMeta = None THEN [code |-> "ERROR", number |-> Uninitialised]
    ELSE [code |-> "SUCCESS", number |-> Len(GetMeta[1])]

SQLNumResultCols ==
    LET r == InternalGetColumnNumber
    IN  /\ "stmt" \in live
        /\ code' = r.code
        /\ Call("SQLNumResultCols", <<>>, r.code, [NoOutput EXCEPT !.count = r.number])
        /\ UNCHANGED <<live, columns>>

SQLColAttribute(index, id, numeric) ==
    LET n == InternalGetColumnNumber
        r == InternalGetColumnAttribute(index, id, Some(32), 32, numeric)
    IN  /\ "stmt" \in live
        /\ \/ /\ id = "COUNT"
              /\ code' = n.code
              /\ Call("SQLColAttribute", <<id>>, n.code, [NoOutput EXCEPT
                     !.count = IF numeric /\ n.code = "SUCCESS" THEN n.number ELSE @])
           \/ /\ id # "COUNT"
              /\ code' = r.code
              /\ Call("SQLColAttribute", <<id>>, r.code, [NoOutput EXCEPT
                     !.count = IF numeric /\ r.number # Uninitialised THEN r.number ELSE @,
                     !.type = r.type])
        /\ UNCHANGED <<live, columns>>

(* Mutant: the code that is in the diagnostics in the end. *)
WorstCodeLast(codes) == codes[Len(codes)]

(* The code of SQLDescribeCol: the first of the five that is not a         *)
(* success, else the first that is not SQL_SUCCESS.                        *)
WorstCode(codes) ==
    LET failed == {i \in DOMAIN codes : ~Succeeded(codes[i])}
        telling == {i \in DOMAIN codes : codes[i] # "SUCCESS"}
        First(S) == CHOOSE i \in S : \A j \in S : i <= j
    IN  CASE failed # {}  -> codes[First(failed)]
          [] failed = {} /\ telling # {} -> codes[First(telling)]
          [] OTHER -> "SUCCESS"

(* Five calls of GetColumnAttribute, each of which resets the diagnostics: *)
(* the code that stays there is the fifth one's.                           *)
SQLDescribeCol(index, buffer) ==
    LET name  == InternalGetColumnAttribute(index, "NAME", buffer,
                     Int16((IF buffer = None THEN 0 ELSE buffer[1]) * WCharSize), FALSE)
        Of(id) == InternalGetColumnAttribute(index, id, None, 0, TRUE)
        codes == <<name.code, Of("TYPE").code, Of("PRECISION").code, Of("SCALE").code,
                   Of("NULLABLE").code>>
    IN  /\ "stmt" \in live
        /\ code' = codes[5]
        /\ Call("SQLDescribeCol", <<index, buffer>>, WorstCode(codes), [NoOutput EXCEPT
               !.length = name.length \div WCharSize, !.chars = name.written,
               !.type = Of("TYPE").type,
               !.size = Of("PRECISION").number, !.digits = Of("SCALE").number,
               !.nullable = Of("NULLABLE").number])
        /\ UNCHANGED <<live, columns>>

-----------------------------------------------------------------------------
(***************************************************************************)
(* Functions that forward to a method of the statement.                    *)
(***************************************************************************)

(* Queries and catalogue functions replace the current query; when they    *)
(* fail there may be none, or one without metadata.                        *)
QueryFunctions ==
    {"SQLPrepare", "SQLExecute", "SQLExecDirect"}

CatalogFunctions ==
    {"SQLTables", "SQLColumns", "SQLForeignKeys", "SQLPrimaryKeys", "SQLGetTypeInfo",
     "SQLSpecialColumns"}

(* The arguments for names, of which SQLForeignKeys has two more.  A null  *)
(* pointer is a pattern for every name, an empty name or no name,          *)
(* depending on the function and the argument.                             *)
SqlWcharToString(arg) == IF arg = None THEN "" ELSE arg[1]

OrPercent(arg) == IF arg = None THEN "%" ELSE arg[1]

SQLTablesFilter(args) ==
    <<args[1], args[2], Some(OrPercent(args[3])), args[4]>>

SQLColumnsFilter(args) ==
    <<args[1], args[2], Some(OrPercent(args[3])), Some(OrPercent(args[4]))>>

SQLForeignKeysFilter(args) ==
    <<Some(SqlWcharToString(args[1])), Some(SqlWcharToString(args[2])),
      Some(SqlWcharToString(args[3])), Some(SqlWcharToString(args[4]))>>

SQLPrimaryKeysFilter(args) == <<args[1], args[2], args[3], None>>

SQLSpecialColumnsFilter(args) ==
    <<Some(SqlWcharToString(args[1])), Some(SqlWcharToString(args[2])),
      Some(SqlWcharToString(args[3])), None>>

Filter(f, args) ==
    CASE f = "SQLTables"         -> SQLTablesFilter(args)
      [] f = "SQLColumns"        -> SQLColumnsFilter(args)
      [] f = "SQLForeignKeys"    -> SQLForeignKeysFilter(args)
      [] f = "SQLPrimaryKeys"    -> SQLPrimaryKeysFilter(args)
      [] f = "SQLSpecialColumns" -> SQLSpecialColumnsFilter(args)
      [] OTHER                   -> <<None, None, None, None>>

Results == {None, Some(None)} \cup {Some(Some(<<c>>)) : c \in ColumnMetas}

ExecuteQuery(f, c) ==
    /\ "stmt" \in live
    /\ columns' \in Results
    /\ columns' # None \/ c = "ERROR"
    /\ code' = c
    /\ Call(f, <<>>, c, NoOutput)
    /\ UNCHANGED live

(* A function of the catalogue; the call records the filter it passes on. *)
ExecuteMetaQuery(f, args, c) ==
    /\ "stmt" \in live
    /\ columns' \in {None, Some(None)} \cup {Some(Some(<<r>>)) : r \in CatalogColumns}
    /\ columns' # None \/ c = "ERROR"
    /\ code' = c
    /\ Call(f, Filter(f, args), c, NoOutput)
    /\ UNCHANGED live

(* The rest: what they do to the statement is not seen here. *)
BindFunctions ==
    {"SQLBindCol", "SQLBindParameter", "SQLSetStmtAttr", "SQLGetStmtAttr",
     "SQLDescribeParam", "SQLRowCount"}

RowFunctions ==
    {"SQLFetch", "SQLFetchScroll", "SQLMoreResults", "SQLGetData", "SQLParamData",
     "SQLPutData"}

Forward(f, c) ==
    /\ "stmt" \in live
    /\ code' = c
    /\ Call(f, <<>>, c, NoOutput)
    /\ UNCHANGED <<live, columns>>

(* SQLCloseCursor, and SQLFreeStmt with SQL_CLOSE. *)
SQLCloseCursor(c) ==
    /\ "stmt" \in live
    /\ columns' = None
    /\ code' = c
    /\ Call("SQLCloseCursor", <<>>, c, NoOutput)
    /\ UNCHANGED live

(* Without a pointer the statement is not asked, and the code is the one   *)
(* its last call left.                                                     *)
SQLNumParams(pointer, c) ==
    /\ "stmt" \in live
    /\ code' = IF pointer THEN c ELSE code
    /\ Call("SQLNumParams", <<pointer>>, code',
            [NoOutput EXCEPT !.count = IF pointer THEN 0 ELSE @])
    /\ UNCHANGED <<live, columns>>

(* What FetchScroll can come to: a code, and the rows of the rowset. *)
FetchResults ==
    {<<c, n>> : c \in {"SUCCESS", "SUCCESS_WITH_INFO"}, n \in 1..RowArraySize}
    \cup {<<"NO_DATA", 0>>, <<"ERROR", 0>>}

SQLExtendedFetch(r) ==
    /\ "stmt" \in live
    /\ code' = r[1]
    /\ Call("SQLExtendedFetch", <<>>, r[1],
            [NoOutput EXCEPT !.rows = r[2],
                !.count = CASE r[1] = "SUCCESS" -> 1
                            [] r[1] = "NO_DATA" -> 0
                            [] OTHER            -> @])
    /\ UNCHANGED <<live, columns>>

-----------------------------------------------------------------------------
(***************************************************************************)
(* The connection and the environment.                                     *)
(***************************************************************************)

(* SQL_NTS: the text ends with its terminating character. *)
NTS == -3

(* The length of a text, given the one the application states. *)
StatedLength(text, given) == IF given = NTS THEN text[1] ELSE given

(* text: None, which is a null pointer, or its length.                     *)
InternalNativeSql(text, given, buffer) ==
    LET length == StatedLength(text, given)
        copied == Least(length, buffer[1] - 1)
        failed == [code |-> "ERROR", length |-> 0, written |-> 0]
    IN  CASE text = None -> failed
          [] text # None /\ buffer = None ->
                [failed EXCEPT !.code = "SUCCESS", !.length = IF length > 0 THEN length ELSE 0]
          [] text # None /\ buffer # None /\ (buffer[1] <= 0 \/ length < 0) -> failed
          [] OTHER ->
                [code |-> IF copied < length THEN "SUCCESS_WITH_INFO" ELSE "SUCCESS",
                 length |-> copied, written |-> copied]

SQLNativeSql(text, given, buffer) ==
    LET r == InternalNativeSql(text, given, buffer)
    IN  /\ "dbc" \in live
        /\ Call("SQLNativeSql", <<text, given, buffer>>, r.code, [NoOutput EXCEPT
               !.length = r.length, !.chars = r.written])
        /\ UNCHANGED <<live, columns, code>>

(* The completed connection string is the one given; whether it was cut is *)
(* not told.                                                               *)
SQLDriverConnect(text, buffer, c) ==
    LET copied == CopyStringToBuffer(text, buffer, IF buffer = None THEN 0 ELSE buffer[1], FALSE)
    IN  /\ "dbc" \in live
        /\ Call("SQLDriverConnect", <<Some(text), NTS, buffer>>, c,
               IF Succeeded(c) THEN [NoOutput EXCEPT !.length = copied.length,
                                        !.chars = IF buffer = None THEN 0 ELSE copied.written]
               ELSE NoOutput)
        /\ UNCHANGED <<live, columns, code>>

(* Functions that forward to a method of the connection. *)
ConnectionFunctions ==
    {"SQLConnect", "SQLDisconnect", "SQLGetInfo", "SQLGetConnectAttr", "SQLSetConnectAttr"}

ForwardConnection(f, c) ==
    /\ "dbc" \in live
    /\ Call(f, <<>>, c, NoOutput)
    /\ UNCHANGED <<live, columns, code>>

EnvironmentAttributes == {"ODBC_VERSION", "OUTPUT_NTS", "UNKNOWN"}

(* The one value an attribute of the environment can have. *)
EnvironmentValue(attr) == IF attr = "ODBC_VERSION" THEN 3 ELSE 1

SQLSetEnvAttr(attr, value) ==
    /\ "env" \in live
    /\ Call("SQLSetEnvAttr", <<attr>>,
            CASE attr = "UNKNOWN"                -> "ERROR"
              [] attr # "UNKNOWN" /\ value # EnvironmentValue(attr) -> "SUCCESS_WITH_INFO"
              [] OTHER                           -> "SUCCESS",
            NoOutput)
    /\ UNCHANGED <<live, columns, code>>

InternalGetAttribute(attr) ==
    IF attr = "UNKNOWN" THEN [code |-> "ERROR", value |-> NotWritten, length |-> Uninitialised]
    ELSE [code |-> "SUCCESS", value |-> EnvironmentValue(attr), length |-> 4]

SQLGetEnvAttr(attr) ==
    LET r == InternalGetAttribute(attr)
    IN  /\ "env" \in live
        /\ Call("SQLGetEnvAttr", <<attr>>, r.code,
               [NoOutput EXCEPT !.count = r.value, !.length = r.length])
        /\ UNCHANGED <<live, columns, code>>

-----------------------------------------------------------------------------
(***************************************************************************)
(* Handles.                                                                *)
(***************************************************************************)

Parent == [env |-> {}, dbc |-> {"env"}, stmt |-> {"env", "dbc"}]

(* SQLAllocEnv, SQLAllocConnect, SQLAllocStmt.  The new statement has no   *)
(* query and no diagnostics.                                               *)
Alloc(type) ==
    /\ type \notin live
    /\ Parent[type] \subseteq live
    /\ live' = live \cup {type}
    /\ Call("SQLAllocHandle", <<type>>, "SUCCESS", [NoOutput EXCEPT !.handle = "given"])
    /\ IF type = "stmt" THEN columns' = None /\ code' = "SUCCESS"
       ELSE UNCHANGED <<columns, code>>

(* With a type that has no handles, or one the driver does not allocate. *)
AllocNothing(type) ==
    /\ type \in {"desc", "other"}
    /\ type = "desc" => "dbc" \in live
    /\ Call("SQLAllocHandle", <<type>>, "ERROR", [NoOutput EXCEPT !.handle = "null"])
    /\ UNCHANGED <<live, columns, code>>

(* SQLFreeEnv, SQLFreeConnect, and SQLFreeStmt with SQL_DROP. *)
Free(type) ==
    /\ type \in live
    /\ \A t \in live : type \notin Parent[t]
    /\ live' = live \ {type}
    /\ Call("SQLFreeHandle", <<type>>, "SUCCESS", NoOutput)
    /\ UNCHANGED <<columns, code>>

FreeNothing ==
    /\ Call("SQLFreeHandle", <<"desc">>, "ERROR", NoOutput)
    /\ UNCHANGED <<live, columns, code>>

(* Every function but SQLCloseCursor looks at the handle first. *)
HandleFunctions ==
    QueryFunctions \cup CatalogFunctions \cup BindFunctions \cup RowFunctions
    \cup ConnectionFunctions

NullHandle(f) ==
    /\ Call(f, <<None, None, None, None>>, "INVALID_HANDLE", NoOutput)
    /\ UNCHANGED <<live, columns, code>>

(* The functions that only log that they were called. *)
UnsupportedCursors ==
    {"SQLEndTran", "SQLCancel", "SQLColAttributes", "SQLGetCursorName", "SQLSetCursorName",
     "SQLGetConnectOption", "SQLGetStmtOption", "SQLSetConnectOption", "SQLSetStmtOption"}

UnsupportedCatalog ==
    {"SQLStatistics", "SQLBrowseConnect", "SQLProcedureColumns", "SQLSetPos",
     "SQLSetScrollOptions", "SQLBulkOperations", "SQLTablePrivileges", "SQLCopyDesc"}

UnsupportedDescriptors ==
    {"SQLGetDescField", "SQLGetDescRec", "SQLSetDescField", "SQLSetDescRec",
     "SQLColumnPrivileges", "SQLParamOptions", "SQLProcedures"}

UnsupportedFunctions == UnsupportedCursors \cup UnsupportedCatalog \cup UnsupportedDescriptors

Unsupported(f) ==
    /\ live # {}
    /\ Call(f, <<>>, "SUCCESS", NoOutput)
    /\ UNCHANGED <<live, columns, code>>

-----------------------------------------------------------------------------

Init ==
    /\ live = {}
    /\ columns = None
    /\ code = "SUCCESS"
    /\ last = NoCall

Names == {None, Some("name")}

StatementNext ==
    \/ SQLNumResultCols
    \/ \E i \in 0..2, id \in NumericAttributes \cup StringAttributes
                              \cup {"TYPE", "NULLABLE", "COUNT", "UNKNOWN"},
          numeric \in BOOLEAN : SQLColAttribute(i, id, numeric)
    \/ \E i \in 0..2, b \in NameBuffers : SQLDescribeCol(i, b)
    \/ \E r \in FetchResults : SQLExtendedFetch(r)
    \/ \E c \in {"SUCCESS", "ERROR"} :
          \/ \E f \in QueryFunctions : ExecuteQuery(f, c)
          \/ \E f \in CatalogFunctions, a \in Names, b \in Names :
                ExecuteMetaQuery(f, <<None, a, b, a>>, c)
    \/ \E c \in Codes :
          \/ \E f \in BindFunctions \cup RowFunctions : Forward(f, c)
          \/ SQLCloseCursor(c)
          \/ \E p \in BOOLEAN : SQLNumParams(p, c)

Calls ==
    \/ StatementNext
    \/ \E b \in TextBuffers :
          \/ \E n \in {NTS} \cup Texts : SQLNativeSql(None, n, b)
          \/ \E t \in Texts, n \in {NTS} \cup Texts : n <= t /\ SQLNativeSql(Some(t), n, b)
          \/ \E t \in Texts, c \in Codes : SQLDriverConnect(t, b, c)
    \/ \E f \in ConnectionFunctions, c \in Codes : ForwardConnection(f, c)
    \/ \E a \in EnvironmentAttributes : SQLGetEnvAttr(a) \/ \E v \in {1, 2, 3} : SQLSetEnvAttr(a, v)
    \/ \E t \in DOMAIN Parent : Alloc(t) \/ Free(t)
    \/ \E t \in {"desc", "other"} : AllocNothing(t)
    \/ FreeNothing
    \/ \E f \in HandleFunctions : NullHandle(f)
    \/ \E f \in UnsupportedFunctions : Unsupported(f)

(* The application has looked at what the call returned. *)
Looked == last # NoCall /\ last' = NoCall /\ UNCHANGED <<live, columns, code>>

Next == (last = NoCall /\ Calls) \/ Looked

Spec == Init /\ [][Next]_vars

-----------------------------------------------------------------------------
(***************************************************************************)
(* Properties.                                                             *)
(***************************************************************************)

TypeOK ==
    /\ live \subseteq {"env", "dbc", "stmt"}
    /\ columns \in Results
    /\ code \in Codes
    /\ last.ret \in Codes \cup {"INVALID_HANDLE"}

(* A function that says it succeeded has written no output from a variable *)
(* without a value.  SQLNumResultCols, SQLDescribeCol and SQLGetEnvAttr    *)
(* write what a local variable holds even when the method failed to set it.*)
OutputsDefined ==
    Succeeded(last.ret) =>
        /\ Uninitialised \notin {last.out.count, last.out.size, last.out.digits,
                                 last.out.nullable, last.out.length}
        /\ last.fn = "SQLDescribeCol" => last.out.type # <<"uninitialised">>

(* The length of the name or text the last call was to copy. *)
WholeLength ==
    IF last.fn = "SQLDescribeCol" THEN GetMeta[1][last.args[1]].nameLength
    ELSE StatedLength(last.args[1], last.args[2])

(* A call that succeeds returns SQL_SUCCESS_WITH_INFO exactly when a part  *)
(* of the name or the SQL text is missing in the buffer, although          *)
(* SQLDescribeCol makes four more calls after the one that cut the name.   *)
(* (SQLDriverConnect does not tell; nor does SQLDescribeCol of a buffer of *)
(* no characters, where not even the end of the text is written.)          *)
CutIsReturned ==
    LET buffer == last.args[Len(last.args)]
    IN  last.fn \in {"SQLDescribeCol", "SQLNativeSql"} /\ Succeeded(last.ret)
            /\ buffer # None /\ buffer[1] > 0 =>
            (last.ret = "SUCCESS_WITH_INFO" <=> last.out.chars < WholeLength)

(* What is copied into a buffer of the application fits there with its     *)
(* terminating character, and the length told is what was copied:          *)
(* SQLDescribeCol, SQLNativeSql, SQLDriverConnect.                         *)
TextFits ==
    LET buffer == last.args[Len(last.args)]
    IN  last.fn \in {"SQLDescribeCol", "SQLNativeSql", "SQLDriverConnect"}
            /\ Succeeded(last.ret) /\ buffer # None =>
            /\ last.out.chars = 0 \/ last.out.chars + 1 <= buffer[1]
            /\ last.out.length = last.out.chars

(* A buffer of the length asked for with no buffer, and one character      *)
(* more, takes the whole SQL text: SQLNativeSql computes the two lengths   *)
(* in different branches.                                                  *)
AskedLengthSuffices ==
    last.fn = "SQLNativeSql" /\ last.args[3] # None /\ Succeeded(last.ret)
        /\ last.args[3][1] > InternalNativeSql(last.args[1], last.args[2], None).length =>
            last.out.chars = WholeLength

(* The functions that forward to a statement. *)
StatementFunctions ==
    QueryFunctions \cup CatalogFunctions \cup BindFunctions \cup RowFunctions \cup
    {"SQLNumResultCols", "SQLColAttribute", "SQLDescribeCol", "SQLExtendedFetch",
     "SQLCloseCursor", "SQLNumParams"}

(* What a function returns is what the diagnostics of its statement say    *)
(* when the application asks for them next.  SQLDescribeCol makes five     *)
(* calls and each forgets what the one before left there: an error it      *)
(* returns is still there, only that the name was cut is not.              *)
ReturnIsRecorded ==
    last.fn \in StatementFunctions /\ last.ret # "INVALID_HANDLE" =>
        \/ code = last.ret
        \/ /\ last.fn = "SQLDescribeCol"
           /\ last.ret = "SUCCESS_WITH_INFO" /\ code = "SUCCESS"

(* A null pointer for the table of SQLTables, the table or the column of   *)
(* SQLColumns reaches the query as a pattern that matches every name, and  *)
(* not as an empty name, which matches none.                               *)
NullPatternIsAny ==
    last.fn \in {"SQLTables", "SQLColumns"} /\ last.ret # "INVALID_HANDLE" =>
        /\ last.args[3] # None /\ last.args[3][1] # ""
        /\ last.fn = "SQLColumns" => last.args[4] # None /\ last.args[4][1] # ""

(* With rowsets of one row, the number of rows SQLExtendedFetch tells is   *)
(* the number it fetched, at the end of the result as well; it tells none, *)
(* and leaves the number of the call before, only with an error or with    *)
(* SQL_SUCCESS_WITH_INFO.                                                  *)
ExtendedFetchCounts ==
    RowArraySize = 1 /\ last.fn = "SQLExtendedFetch" =>
        IF last.ret \in {"SUCCESS", "NO_DATA"} THEN last.out.count = last.out.rows
        ELSE last.out.count = NotWritten

(* The SQL type SQLDescribeCol tells of a column is one that the driver    *)
(* takes when the application binds or asks for that type, whatever the    *)
(* JDBC type of the column is.                                             *)
DescribedTypeIsSupported ==
    last.fn = "SQLDescribeCol" /\ Succeeded(last.ret) /\ last.out.type # None =>
        IsSqlTypeSupported(last.out.type)

(* A value printed into a buffer of the display size of its column has     *)
(* room for all of its digits; and the sizes SQLGetTypeInfo tells of a     *)
(* type, which it looks up by way of a JDBC type, are those of a column.   *)
SizesAgree ==
    GetMeta # None => \A c \in {GetMeta[1][i] : i \in DOMAIN GetMeta[1]} :
        /\ NumericAttribute(c, "DISPLAY_SIZE") >= NumericAttribute(c, "PRECISION")
        /\ LET t == SqlTypeToBinary(BinaryToSqlType(c.type))
           IN  /\ OfBinaryType(SqlTypeDisplaySize, t) = OfBinaryType(SqlTypeDisplaySize, c.type)
               /\ OfBinaryType(SqlTypeColumnSize, t) = OfBinaryType(SqlTypeColumnSize, c.type)

(* The steps of the C interface itself.  What a function returns is in the *)
(* diagnostics of its statement, apart from the cut of SQLDescribeCol; a   *)
(* name or a text that is cut is told to be, what is copied fits, and a    *)
(* buffer of the length asked for takes the whole text (SQLDescribeCol,    *)
(* SQLNativeSql, SQLDriverConnect); null patterns match anything;          *)
(* SQLExtendedFetch counts what it fetched.                                *)
InterfaceForwards ==
    /\ TypeOK /\ ReturnIsRecorded /\ CutIsReturned /\ TextFits /\ AskedLengthSuffices
    /\ NullPatternIsAny /\ ExtendedFetchCounts

(* The type and the sizes SQLDescribeCol and SQLColAttribute tell of a     *)
(* column belong together (type_traits.cpp).                               *)
ColumnsAreDescribed == DescribedTypeIsSupported /\ SizesAgree
=============================================================================
