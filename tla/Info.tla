-------------------------------- MODULE Info --------------------------------
(***************************************************************************)
(* What SQLGetInfo answers (src/config/connection_info.cpp), and how a     *)
(* connection keeps the answers that depend on it up to date               *)
(* (src/connection.cpp).                                                   *)
(*                                                                         *)
(* An information type is named by its constant without SQL_, a text is a  *)
(* word for it; of the masks and numbers only the map they are in matters. *)
(* The three QUALIFIER types are other names of CATALOG types.             *)
(***************************************************************************)
EXTENDS Text, FiniteSets

CONSTANTS
    Requests,        \* the settings an application connects with
    Versions,        \* the versions servers report
    Lengths,         \* how long the texts of the settings and the versions are
    Asked,           \* the information types the application asks for
    Buffers          \* the buffers it offers: none, or one of so many bytes

VARIABLES
    info,            \* the answers that change: strParams after the constructor
    config,          \* config_
    conn,            \* connection_: none, or what it was opened with and whether it is usable
    answer,          \* the last answer of SQLGetInfo
    needed           \* the last length the application was told without a buffer

infoVars == <<info, config, conn, answer, needed>>

-----------------------------------------------------------------------------
(***************************************************************************)
(* InfoTypeToString: the types that have a name in the log.                *)
(***************************************************************************)

NamedTypes1 ==
    {"ACCESSIBLE_PROCEDURES", "ACCESSIBLE_TABLES", "ACTIVE_ENVIRONMENTS",
     "DRIVER_NAME", "DBMS_NAME", "DRIVER_ODBC_VER", "DBMS_VER", "DRIVER_VER",
     "COLUMN_ALIAS", "IDENTIFIER_QUOTE_CHAR", "CATALOG_NAME_SEPARATOR",
     "SPECIAL_CHARACTERS", "CATALOG_TERM", "TABLE_TERM", "SCHEMA_TERM",
     "NEED_LONG_DATA_LEN", "ASYNC_DBC_FUNCTIONS", "ASYNC_NOTIFICATION",
     "GETDATA_EXTENSIONS", "ODBC_INTERFACE_CONFORMANCE", "SQL_CONFORMANCE",
     "CATALOG_USAGE", "SCHEMA_USAGE", "MAX_IDENTIFIER_LEN",
     "AGGREGATE_FUNCTIONS", "NUMERIC_FUNCTIONS", "STRING_FUNCTIONS",
     "TIMEDATE_FUNCTIONS", "TIMEDATE_ADD_INTERVALS", "TIMEDATE_DIFF_INTERVALS",
     "DATETIME_LITERALS", "SYSTEM_FUNCTIONS", "CONVERT_FUNCTIONS",
     "OJ_CAPABILITIES", "POS_OPERATIONS", "MAX_CONCURRENT_ACTIVITIES",
     "TXN_CAPABLE", "QUOTED_IDENTIFIER_CASE", "SQL92_NUMERIC_VALUE_FUNCTIONS",
     "SQL92_STRING_FUNCTIONS", "SQL92_DATETIME_FUNCTIONS", "SQL92_PREDICATES",
     "SQL92_RELATIONAL_JOIN_OPERATORS", "SQL92_VALUE_EXPRESSIONS",
     "STATIC_CURSOR_ATTRIBUTES1", "STATIC_CURSOR_ATTRIBUTES2",
     "CONVERT_BIGINT", "CONVERT_BINARY", "CONVERT_BIT"}

NamedTypes2 ==
    {"CONVERT_CHAR", "CONVERT_DATE", "CONVERT_DECIMAL", "CONVERT_DOUBLE",
     "CONVERT_FLOAT", "CONVERT_INTEGER", "CONVERT_LONGVARCHAR",
     "CONVERT_NUMERIC", "CONVERT_REAL", "CONVERT_SMALLINT", "CONVERT_TIME",
     "CONVERT_TIMESTAMP", "CONVERT_TINYINT", "CONVERT_VARBINARY",
     "CONVERT_VARCHAR", "CONVERT_LONGVARBINARY", "CONVERT_WCHAR",
     "CONVERT_INTERVAL_DAY_TIME", "CONVERT_INTERVAL_YEAR_MONTH",
     "CONVERT_WLONGVARCHAR", "CONVERT_WVARCHAR", "CONVERT_GUID",
     "SCROLL_OPTIONS", "PARAM_ARRAY_ROW_COUNTS", "PARAM_ARRAY_SELECTS",
     "ALTER_DOMAIN", "ASYNC_MODE", "BATCH_ROW_COUNT", "BATCH_SUPPORT",
     "BOOKMARK_PERSISTENCE", "CATALOG_LOCATION", "CATALOG_NAME",
     "COLLATION_SEQ", "CONCAT_NULL_BEHAVIOR", "CORRELATION_NAME",
     "CREATE_ASSERTION", "CREATE_CHARACTER_SET", "CREATE_COLLATION",
     "CREATE_DOMAIN", "CREATE_SCHEMA", "CREATE_TABLE", "CREATE_TRANSLATION",
     "CREATE_VIEW", "CURSOR_SENSITIVITY", "DATA_SOURCE_NAME",
     "DATA_SOURCE_READ_ONLY", "DATABASE_NAME", "DDL_INDEX",
     "DEFAULT_TXN_ISOLATION", "DESCRIBE_PARAMETER"}

NamedTypes3 ==
    {"DROP_ASSERTION", "DROP_CHARACTER_SET", "DROP_COLLATION", "DROP_DOMAIN",
     "DROP_SCHEMA", "DROP_TABLE", "DROP_TRANSLATION", "DROP_VIEW",
     "DYNAMIC_CURSOR_ATTRIBUTES1", "DYNAMIC_CURSOR_ATTRIBUTES2",
     "EXPRESSIONS_IN_ORDERBY", "FILE_USAGE", "FORWARD_ONLY_CURSOR_ATTRIBUTES1",
     "FORWARD_ONLY_CURSOR_ATTRIBUTES2", "GROUP_BY", "IDENTIFIER_CASE",
     "INDEX_KEYWORDS", "INFO_SCHEMA_VIEWS", "INSERT_STATEMENT", "INTEGRITY",
     "KEYSET_CURSOR_ATTRIBUTES1", "KEYSET_CURSOR_ATTRIBUTES2", "KEYWORDS",
     "LIKE_ESCAPE_CLAUSE", "MAX_ASYNC_CONCURRENT_STATEMENTS",
     "MAX_BINARY_LITERAL_LEN", "MAX_CATALOG_NAME_LEN", "MAX_CHAR_LITERAL_LEN",
     "MAX_COLUMN_NAME_LEN", "MAX_COLUMNS_IN_GROUP_BY", "MAX_COLUMNS_IN_INDEX",
     "MAX_COLUMNS_IN_ORDER_BY", "MAX_COLUMNS_IN_SELECT",
     "MAX_COLUMNS_IN_TABLE", "MAX_CURSOR_NAME_LEN", "MAX_DRIVER_CONNECTIONS",
     "MAX_INDEX_SIZE", "MAX_PROCEDURE_NAME_LEN", "MAX_ROW_SIZE",
     "MAX_ROW_SIZE_INCLUDES_LONG", "MAX_SCHEMA_NAME_LEN", "MAX_STATEMENT_LEN",
     "MAX_TABLE_NAME_LEN", "MAX_TABLES_IN_SELECT", "MAX_USER_NAME_LEN",
     "MULT_RESULT_SETS", "MULTIPLE_ACTIVE_TXN", "NON_NULLABLE_COLUMNS",
     "NULL_COLLATION", "ORDER_BY_COLUMNS_IN_SELECT"}

NamedTypes4 ==
    {"PROCEDURE_TERM", "PROCEDURES", "ROW_UPDATES", "SEARCH_PATTERN_ESCAPE",
     "SERVER_NAME", "SQL92_FOREIGN_KEY_DELETE_RULE",
     "SQL92_FOREIGN_KEY_UPDATE_RULE", "SQL92_GRANT", "SQL92_REVOKE",
     "SQL92_ROW_VALUE_CONSTRUCTOR", "STANDARD_CLI_CONFORMANCE", "SUBQUERIES",
     "TXN_ISOLATION_OPTION", "UNION", "USER_NAME", "ALTER_TABLE",
     "FETCH_DIRECTION", "LOCK_TYPES", "ODBC_API_CONFORMANCE",
     "ODBC_SQL_CONFORMANCE", "POSITIONED_STATEMENTS", "SCROLL_CONCURRENCY",
     "STATIC_SENSITIVITY", "DTC_TRANSITION_COST"}

InfoTypeToString(type) ==
    type \in NamedTypes1 \cup NamedTypes2 \cup NamedTypes3 \cup NamedTypes4

-----------------------------------------------------------------------------
(***************************************************************************)
(* The constructor: three maps from types to answers.  Of the two maps of  *)
(* numbers these are the types they have.                                  *)
(***************************************************************************)

(* The entries of two parts of a map; no type is in both. *)
With(f, g) == [t \in DOMAIN f \cup DOMAIN g |-> IF t \in DOMAIN f THEN f[t] ELSE g[t]]

strParams1 ==
    With([t \in {"DBMS_VER", "SPECIAL_CHARACTERS", "CATALOG_TERM",
           "DATA_SOURCE_NAME", "DATABASE_NAME"} |-> ""],
    With([t \in {"COLUMN_ALIAS", "NEED_LONG_DATA_LEN", "ACCESSIBLE_PROCEDURES",
           "ACCESSIBLE_TABLES", "DATA_SOURCE_READ_ONLY"} |-> "Y"],
      [DRIVER_NAME |-> "Amazon DocumentDB",
     DBMS_NAME |-> "Amazon DocumentDB",
     DRIVER_ODBC_VER |-> "03.00",
     DRIVER_VER |-> "version",
     IDENTIFIER_QUOTE_CHAR |-> "dquote",
     CATALOG_NAME_SEPARATOR |-> ".",
     TABLE_TERM |-> "table",
     SCHEMA_TERM |-> "schema",
     CATALOG_NAME |-> "N",
     COLLATION_SEQ |-> "UTF-8"]))

strParams2 ==
    With([t \in {"DESCRIBE_PARAMETER", "EXPRESSIONS_IN_ORDERBY", "INTEGRITY",
           "MULT_RESULT_SETS", "MULTIPLE_ACTIVE_TXN", "PROCEDURES",
           "ROW_UPDATES"} |-> "N"],
    With([t \in {"LIKE_ESCAPE_CLAUSE", "MAX_ROW_SIZE_INCLUDES_LONG",
           "ORDER_BY_COLUMNS_IN_SELECT"} |-> "Y"],
      [KEYWORDS |-> "keywords",
     PROCEDURE_TERM |-> "stored procedure",
     SEARCH_PATTERN_ESCAPE |-> "backslash",
     SERVER_NAME |-> "Amazon DocumentDB",
     USER_NAME |-> ""]))

strParams ==
    With(strParams1, strParams2)

intParams1 ==
    {"BATCH_SUPPORT", "BOOKMARK_PERSISTENCE", "CATALOG_LOCATION",
     "ASYNC_DBC_FUNCTIONS", "ASYNC_MODE", "ASYNC_NOTIFICATION",
     "BATCH_ROW_COUNT", "GETDATA_EXTENSIONS", "ODBC_INTERFACE_CONFORMANCE",
     "SQL_CONFORMANCE"}

intParams2 ==
    {"CATALOG_USAGE", "POS_OPERATIONS", "SCHEMA_USAGE", "AGGREGATE_FUNCTIONS",
     "NUMERIC_FUNCTIONS", "STRING_FUNCTIONS", "TIMEDATE_FUNCTIONS",
     "TIMEDATE_ADD_INTERVALS", "TIMEDATE_DIFF_INTERVALS", "DATETIME_LITERALS",
     "SYSTEM_FUNCTIONS", "CONVERT_FUNCTIONS", "OJ_CAPABILITIES",
     "SQL92_NUMERIC_VALUE_FUNCTIONS"}

intParams3 ==
    {"CONVERT_BINARY", "CONVERT_CHAR", "CONVERT_VARCHAR", "CONVERT_LONGVARCHAR",
     "CONVERT_WCHAR", "CONVERT_WVARCHAR", "SQL92_STRING_FUNCTIONS",
     "SQL92_DATETIME_FUNCTIONS", "SQL92_VALUE_EXPRESSIONS", "SQL92_PREDICATES",
     "SQL92_RELATIONAL_JOIN_OPERATORS", "STATIC_CURSOR_ATTRIBUTES1",
     "STATIC_CURSOR_ATTRIBUTES2", "CONVERT_BIGINT", "CONVERT_BIT"}

intParams4 ==
    {"CONVERT_DECIMAL", "CONVERT_FLOAT", "CONVERT_REAL", "CONVERT_INTEGER",
     "CONVERT_NUMERIC", "CONVERT_SMALLINT", "CONVERT_TINYINT",
     "CONVERT_WLONGVARCHAR", "CONVERT_GUID", "CONVERT_DATE", "CONVERT_DOUBLE",
     "CONVERT_TIME", "CONVERT_TIMESTAMP"}

intParams5 ==
    {"CONVERT_VARBINARY", "CONVERT_LONGVARBINARY", "PARAM_ARRAY_ROW_COUNTS",
     "PARAM_ARRAY_SELECTS", "SCROLL_OPTIONS", "ALTER_DOMAIN"}

intParams6 ==
    {"ALTER_TABLE", "CREATE_ASSERTION", "CREATE_CHARACTER_SET",
     "CREATE_COLLATION", "CREATE_DOMAIN", "CREATE_SCHEMA"}

intParams7 ==
    {"CREATE_TRANSLATION", "CREATE_VIEW", "DDL_INDEX", "DROP_ASSERTION",
     "DROP_CHARACTER_SET", "DROP_COLLATION", "CREATE_TABLE",
     "CURSOR_SENSITIVITY", "DEFAULT_TXN_ISOLATION"}

intParams8 ==
    {"DROP_DOMAIN", "DROP_SCHEMA", "DROP_TABLE", "DROP_TRANSLATION", "DROP_VIEW",
     "DYNAMIC_CURSOR_ATTRIBUTES1"}

intParams9 ==
    {"DYNAMIC_CURSOR_ATTRIBUTES2", "FORWARD_ONLY_CURSOR_ATTRIBUTES2",
     "FORWARD_ONLY_CURSOR_ATTRIBUTES1"}

intParams10 ==
    {"INDEX_KEYWORDS", "INFO_SCHEMA_VIEWS", "INSERT_STATEMENT",
     "KEYSET_CURSOR_ATTRIBUTES1"}

intParams11 ==
    {"KEYSET_CURSOR_ATTRIBUTES2", "MAX_BINARY_LITERAL_LEN",
     "MAX_CATALOG_NAME_LEN", "MAX_CHAR_LITERAL_LEN", "MAX_INDEX_SIZE",
     "MAX_ROW_SIZE", "MAX_STATEMENT_LEN", "SQL92_FOREIGN_KEY_DELETE_RULE",
     "SQL92_FOREIGN_KEY_UPDATE_RULE", "SQL92_GRANT",
     "MAX_ASYNC_CONCURRENT_STATEMENTS"}

intParams12 ==
    {"SQL92_REVOKE", "UNION", "POSITIONED_STATEMENTS",
     "SQL92_ROW_VALUE_CONSTRUCTOR", "STANDARD_CLI_CONFORMANCE", "SUBQUERIES",
     "TXN_ISOLATION_OPTION", "FETCH_DIRECTION", "LOCK_TYPES",
     "ODBC_API_CONFORMANCE", "ODBC_SQL_CONFORMANCE"}

intParams13 ==
    {"SCROLL_CONCURRENCY", "STATIC_SENSITIVITY"}

intParams ==
    UNION {intParams1, intParams2, intParams3, intParams4, intParams5, intParams6,
           intParams7, intParams8, intParams9, intParams10, intParams11, intParams12,
           intParams13}

shortParams1 ==
    {"ACTIVE_ENVIRONMENTS", "MAX_COLUMN_NAME_LEN", "MAX_COLUMNS_IN_GROUP_BY",
     "MAX_CONCURRENT_ACTIVITIES", "TXN_CAPABLE", "QUOTED_IDENTIFIER_CASE",
     "IDENTIFIER_CASE", "CONCAT_NULL_BEHAVIOR", "CORRELATION_NAME", "FILE_USAGE",
     "GROUP_BY"}

shortParams2 ==
    {"MAX_COLUMNS_IN_INDEX", "MAX_COLUMNS_IN_ORDER_BY", "MAX_COLUMNS_IN_SELECT",
     "MAX_COLUMNS_IN_TABLE", "MAX_CURSOR_NAME_LEN", "MAX_DRIVER_CONNECTIONS",
     "MAX_IDENTIFIER_LEN", "MAX_PROCEDURE_NAME_LEN", "MAX_SCHEMA_NAME_LEN",
     "MAX_TABLE_NAME_LEN", "MAX_TABLES_IN_SELECT", "MAX_USER_NAME_LEN",
     "NON_NULLABLE_COLUMNS", "NULL_COLLATION"}

shortParams == shortParams1 \cup shortParams2

-----------------------------------------------------------------------------
(***************************************************************************)
(* ConnectionInfo::SetInfo and GetInfo.                                    *)
(***************************************************************************)

Changing == {"USER_NAME", "DATABASE_NAME", "DATA_SOURCE_NAME", "DBMS_VER"}

SetInfo(map, type, value) ==
    IF type \in DOMAIN strParams THEN [map EXCEPT ![type] = value] ELSE map

StringInfo(type) == IF type \in Changing THEN info[type] ELSE strParams[type]

(* The lengths of the texts, as far as they matter. *)
TextLength(s) ==
    CASE s \in DOMAIN Lengths       -> Lengths[s]
      [] s = ""                     -> 0
      [] s \in {"Y", "N", "."}      -> 1
      [] OTHER                      -> 5

NoAnswer == [type |-> "none", code |-> "SUCCESS", kind |-> "nothing", value |-> "",
             buffer |-> None, chars |-> 0, reslen |-> 0]

(* Mutant: the length of a text is told in characters. *)
GetInfoInChars(type, buffer) ==
    IF type \in DOMAIN strParams
    THEN LET text   == StringInfo(type)
             copied == CopyStringToBuffer(TextLength(text), buffer,
                           IF buffer = None THEN 0 ELSE buffer[1], TRUE)
         IN  [type |-> type, code |-> IF buffer = Some(0) THEN "ERROR" ELSE "SUCCESS",
              kind |-> "text", value |-> text, buffer |-> buffer,
              chars |-> copied.written, reslen |-> copied.written]
    ELSE [NoAnswer EXCEPT !.type = type, !.code = "ERROR"]

(* A text is answered also without a buffer; a number never.  That a text  *)
(* was cut is known here and told nobody.                                  *)
GetInfo(type, buffer) ==
    IF type \in DOMAIN strParams
    THEN LET text   == StringInfo(type)
             copied == CopyStringToBuffer(TextLength(text), buffer,
                           IF buffer = None THEN 0 ELSE buffer[1], TRUE)
         IN  IF buffer = Some(0) THEN [NoAnswer EXCEPT !.type = type, !.code = "ERROR"]
             ELSE [type |-> type, code |-> "SUCCESS", kind |-> "text", value |-> text,
                   buffer |-> buffer, chars |-> copied.written, reslen |-> copied.length]
    ELSE IF buffer # None /\ type \in intParams \cup shortParams
         THEN [NoAnswer EXCEPT !.type = type, !.buffer = buffer,
                               !.kind = IF type \in intParams THEN "int" ELSE "short"]
         ELSE [NoAnswer EXCEPT !.type = type, !.code = "ERROR"]

-----------------------------------------------------------------------------
(***************************************************************************)
(* The connection.                                                         *)
(***************************************************************************)

UpdateConnectionRuntimeInfo(c, map) ==
    SetInfo(SetInfo(SetInfo(map, "USER_NAME", c.user), "DATABASE_NAME", c.database),
            "DATA_SOURCE_NAME", c.dsn)

(* UpdateSqlDbmsVerInfo: a server that reports no version array leaves the *)
(* answer as it is.                                                        *)
UpdateSqlDbmsVerInfo(version, map) ==
    IF version = None THEN map ELSE SetInfo(map, "DBMS_VER", version[1])

Usable(c, version) == Some([with |-> c, version |-> version, usable |-> TRUE])

Unusable(c) == Some([with |-> c, version |-> None, usable |-> FALSE])

(* TryRestoreConnection, with the settings config_ has by then: it fails   *)
(* before there is a connection object, in the JDBC driver or at the       *)
(* tunnel, in the C++ client, or not at all.  The answers change in the    *)
(* last two cases.                                                         *)
TryRestoreConnection(c, outcome, version) ==
    CASE outcome = "noContext"    -> UNCHANGED <<conn, info>>
      [] outcome = "jdbcFailed"   -> conn' = Unusable(c) /\ UNCHANGED info
      [] outcome = "clientFailed" -> /\ conn' = Unusable(c)
                                     /\ info' = UpdateConnectionRuntimeInfo(c, info)
      [] outcome = "connected"    -> /\ conn' = Usable(c, version)
                                     /\ info' = UpdateConnectionRuntimeInfo(c,
                                                    UpdateSqlDbmsVerInfo(version, info))

Attempts == {"noContext", "jdbcFailed", "clientFailed", "connected"}

(* Mutant: the answers are updated with the configuration. *)
InternalEstablishEarly(c, outcome, version) ==
    /\ config' = c
    /\ IF conn # None THEN info' = UpdateConnectionRuntimeInfo(c, info) /\ UNCHANGED conn
       ELSE TryRestoreConnection(c, outcome, version)
    /\ UNCHANGED <<answer, needed>>

(* A handle that has a connection object keeps it; only config_ changes.   *)
InternalEstablish(c, outcome, version) ==
    /\ config' = c
    /\ IF conn # None THEN UNCHANGED <<conn, info>>
       ELSE TryRestoreConnection(c, outcome, version)
    /\ UNCHANGED <<answer, needed>>

InternalRelease ==
    /\ conn # None
    /\ conn' = None
    /\ UNCHANGED <<info, config, answer, needed>>

InternalGetInfo(type, buffer) ==
    /\ answer = NoAnswer
    /\ answer' = GetInfo(type, buffer)
    /\ needed' = IF buffer = None /\ answer'.code = "SUCCESS"
                 THEN Some([type |-> type, bytes |-> answer'.reslen]) ELSE needed
    /\ UNCHANGED <<info, config, conn>>

(* The buffer an application makes of the length it was told. *)
MadeToMeasure(type) ==
    {Some(n.bytes + WCharSize) :
        n \in {m \in {needed[i] : i \in DOMAIN needed} : m.type = type}}

(* The application has looked at the answer. *)
AnswerRead ==
    /\ answer # NoAnswer
    /\ answer' = NoAnswer
    /\ UNCHANGED <<info, config, conn, needed>>

InfoInit ==
    /\ info = [t \in Changing |-> strParams[t]]
    /\ config = None
    /\ conn = None
    /\ answer = NoAnswer
    /\ needed = None

InfoNext ==
    \/ \E c \in Requests, outcome \in Attempts, v \in {None} \cup {Some(w) : w \in Versions} :
            InternalEstablish(c, outcome, v)
    \/ InternalRelease
    \/ \E type \in Asked : \E buffer \in Buffers \cup MadeToMeasure(type) :
            InternalGetInfo(type, buffer)
    \/ AnswerRead

InfoSpec == InfoInit /\ [][InfoNext]_infoVars

-----------------------------------------------------------------------------
(* While a connection is open SQLGetInfo tells the user, the database and  *)
(* the data source the connection was opened with, and the version its     *)
(* server reported, whatever was tried on the handle before or since: an   *)
(* attempt that failed half way, or a second one that only replaced        *)
(* config_ (UpdateConnectionRuntimeInfo, UpdateSqlDbmsVerInfo).            *)
InfoTellsConnection ==
    conn # None /\ conn[1].usable =>
        /\ UpdateConnectionRuntimeInfo(conn[1].with, info) = info
        /\ UpdateSqlDbmsVerInfo(conn[1].version, info) = info

(* SQLGetInfo answers a type from one of its maps, each of them has a name *)
(* in the log, and only a text is answered without a buffer (GetInfo).     *)
InfoAnswersOnce ==
    answer.type # "none" =>
        /\ Cardinality({m \in {DOMAIN strParams, intParams, shortParams} : answer.type \in m}) <= 1
        /\ answer.code = "SUCCESS" =>
              /\ InfoTypeToString(answer.type)
              /\ answer.kind = "text" \/ (answer.kind \in {"int", "short"} /\ answer.buffer # None)

TextGiven == answer.code = "SUCCESS" /\ answer.kind = "text"

(* The code does not tell of a text that was cut, but its length does: a   *)
(* text fits its buffer with the null behind it, the length is in bytes    *)
(* and of what was copied, and a text that was cut fills its buffer.  One  *)
(* that leaves room is whole (CopyStringToBuffer).                         *)
CutTextFills ==
    TextGiven =>
        /\ answer.reslen = WCharSize * answer.chars
        /\ answer.chars <= TextLength(answer.value)
        /\ answer.buffer # None =>
              /\ answer.reslen + WCharSize <= answer.buffer[1]
              /\ answer.reslen + 2 * WCharSize <= answer.buffer[1] =>
                    answer.chars = TextLength(answer.value)

(* The two calls of an application, one for the length and one for the     *)
(* text: a buffer made to measure holds the whole text, unless a           *)
(* connection was made or tried on the handle between the calls and the    *)
(* text is longer since.                                                   *)
MeasuredIsWhole ==
    TextGiven /\ answer.buffer \in MadeToMeasure(answer.type) =>
        /\ answer.reslen <= needed[1].bytes
        /\ answer.chars < TextLength(answer.value) =>
              /\ answer.type \in Changing
              /\ WCharSize * TextLength(answer.value) > needed[1].bytes

(* What SQLGetInfo answers agrees with what it answered before: a type is  *)
(* answered from one map, a length in the unit a buffer is measured in,    *)
(* and a text that fills less than its buffer is whole.                    *)
AnswersAgree == InfoAnswersOnce /\ CutTextFills /\ MeasuredIsWhole
=============================================================================
