---------------------------- MODULE MCInterface ----------------------------
(***************************************************************************)
(* The C interface and what a connection is told and tells, for TLC: the   *)
(* functions of odbc.cpp with names of no, one and four characters and     *)
(* buffers that are too small, just large enough and larger; SQLGetInfo on *)
(* a handle that is connected again and again; connection strings and data *)
(* sources; the rows of a column on their way into the application's       *)
(* buffers; the catalogue queries, which read what Java lists, and their   *)
(* results; the numbers behind a DECIMAL column; the driver's own SQL      *)
(* commands; the configuration window of Windows.  A behaviour is about    *)
(* one of them, its part; the others rest.                                 *)
(***************************************************************************)
EXTENDS Api, Info, Catalog, TLC

VARIABLES
    part,
    given, rest, cfg, records, dsn, stage,
    bound, column, rows, written,
    query, vector, cursor, fetched, executed, shown, returned, asked, tableType,
    decimal, num, ops, heap, doubt,
    tokens, sql, pos, token, at, option, cmd, shifts, sanswer,
    registry, before, request, dconfig, dpc, text, checked, selection, enabled, visible, tab,
    prevTab, tested, saved, steps, danswer

settingsVars == <<given, rest, cfg, records, dsn, stage>>
columnVars == <<bound, column, rows, written>>
resultVars == <<query, vector, cursor, fetched, executed, shown, returned, asked,
                tableType>>
numVars == <<decimal, num, ops, heap, doubt>>
sqlVars == <<tokens, sql, pos, token, at, option, cmd, shifts, sanswer>>
dialogVars == <<registry, before, request, dconfig, dpc, text, checked, selection, enabled,
                visible, tab, prevTab, tested, saved, steps, danswer>>
allVars == <<part, vars, infoVars, settingsVars, columnVars, catalogVars, resultVars, numVars,
             sqlVars, dialogVars>>

MCNameBuffers == {<<0>>, <<1>>, <<4>>, <<5>>}

MCTextBuffers == {<<>>, <<0>>, <<1>>, <<3>>, <<4>>}

-----------------------------------------------------------------------------
(* Two users with names of different lengths, a data source or none, two   *)
(* versions; of each map of answers the types that change, and some that   *)
(* do not, and a type no map has.                                          *)
MCRequests ==
    {[user |-> "u1", database |-> "d1", dsn |-> n] : n \in {"", "n1"}}
    \cup {[user |-> "u2", database |-> "d1", dsn |-> "n1"]}

MCBuffers == {<<>>, <<0>>, <<4>>, <<20>>}

MCLengths == [u1 |-> 2, u2 |-> 5]

(* Attributes with an address, with numbers at and past their limits, with *)
(* spaces, braces and separators, in several spellings, with an empty part *)
(* of a tunnel; and data sources with and without them.                    *)
A(k, v) == [key |-> k, value |-> v]

Attributes ==
    {A("hostname", <<"h">>), A("hostname", <<"h", ":", "27018">>),
     A("hostname", <<"h", ":", "x">>), A("port", <<"1">>), A("port", <<"70000">>),
     A("database", <<"{", "d", " ", "d", "}">>), A("database", <<"a", "=", "b">>),
     A("database", <<"a", ";", "b">>), A("tls", <<"TRUE">>),
     A("scan_limit", <<"4294967295">>), A("login_timeout_sec", <<>>), A("ssh_host", <<>>),
     A("user", <<"u">>), A("uid", <<"v">>), A("password", <<"p">>), A("scan_method", <<"all">>),
     A("other", <<"x">>), A("dsn", <<"name">>)}

Sources ==
    {[x \in {} |-> <<>>],
     ("port" :> <<"70000">>) @@ ("tls" :> <<"TRUE">>) @@ ("database" :> <<"f">>) @@
     ("hostname" :> <<"g">>) @@ ("ssh_host" :> <<"s">>) @@ ("ssh_user" :> <<"t">>) @@
     ("ssh_private_key_file" :> <<"k">>) @@ ("user" :> <<"w">>) @@
     ("login_timeout_sec" :> <<"4464">>),
     ("port" :> <<>>) @@ ("scan_limit" :> <<"0">>) @@ ("user" :> <<"w">>)}

Settings == INSTANCE Settings WITH MaxAttributes <- 3

(* Integers of two to five bits stand for those of 8 to 64.  Elements at   *)
(* the limits of each width and just past them, texts that are numbers,    *)
(* that std::stoll reads otherwise and that are none, moments around 1970. *)
Bits == [char |-> 2, short |-> 3, int |-> 4, big |-> 5]

Data == INSTANCE DataBuffer

Buffer(t, d, i, n) == [type |-> t, data |-> d, ind |-> i, len |-> n, length |-> 0]

Sized == {"CHAR", "WCHAR", "BINARY", "DEFAULT"}

Bound ==
    {b \in {Buffer(t, d, i, n) : t \in Sized, d \in BOOLEAN, i \in BOOLEAN, n \in {0, 4, 40}} \cup
            {Buffer(t, d, i, 0) : t \in Data!NativeTypes \ Sized, d \in BOOLEAN, i \in BOOLEAN} :
        b.data \/ (b.ind /\ b.len = 0)}

El(t, n, ms, len, stoll) == [type |-> t, n |-> n, ms |-> ms, len |-> len, stoll |-> stoll]

Elements ==
    {El("k_int64", <<2 * n>>, 0, 0, <<>>) : n \in {-16, -9, 0, 2, 8, 15}} \cup
    {El("k_int32", <<2 * n>>, 0, 0, <<>>) : n \in {-8, 0, 7}} \cup
    {El("k_double", <<n>>, 0, 0, <<>>) : n \in {-33, 3, 15, 33}} \cup
    {El("k_bool", <<n>>, 0, 0, <<>>) : n \in {0, 2}} \cup
    {El("k_utf8", <<2>>, 0, 1, <<2>>), El("k_utf8", <<20>>, 0, 3, <<16>>), El("k_utf8", <<>>, 0, 3, <<>>),
     El("k_decimal128", <<20>>, 0, 4, <<2>>), El("k_decimal128", <<7>>, 0, 3, <<6>>)} \cup
    {El("k_date", <<>>, ms, 0, <<>>) : ms \in {-1500, -500, 0, 1, 86399999}} \cup
    {El("k_timestamp", <<>>, ms, 0, <<>>) : ms \in {0, 5000}} \cup
    {El("k_binary", <<5>>, 0, 5, <<>>), El("k_oid", <<5>>, 0, 12, <<>>), El("k_null", <<>>, 0, 0, <<>>),
     El("missing", <<>>, 0, 0, <<>>), El("k_regex", <<>>, 0, 4, <<>>), El("k_maxkey", <<>>, 0, 0, <<>>),
     El("k_document", <<>>, 0, 30, <<>>)}

ColumnTypes ==
    {"BOOLEAN", "TINYINT", "INTEGER", "BIGINT", "FLOAT", "DOUBLE", "NCHAR", "NULL", "BINARY",
     "DECIMAL", "DATE", "TIMESTAMP", "TIME", "ARRAY"}

Column == INSTANCE Column WITH
    Buffers <- Bound,
    Columns <- ColumnTypes,
    RowElements <- <<Elements, {El("k_utf8", <<2>>, 0, 1, <<2>>)}>>,
    SqlKinds <- {"VARCHAR", "SMALLINT", "INTEGER", "FLOAT", "DOUBLE", "TINYINT", "BIT", "BIGINT",
                 "TYPE_DATE", "TYPE_TIMESTAMP", "TYPE_TIME", "VARBINARY", "GUID", "DECIMAL"}

(* Rows that have everything, next to nothing, and some; every JDBC type;  *)
(* lists of table types with quotes and spaces.                            *)
CatalogRow(n, lacks, t, nullable) ==
    [number |-> n, lacks |-> lacks, type |-> t, nullable |-> nullable]

Lacking == {"TABLE_CAT", "TABLE_NAME", "COLUMN_NAME", "REMARKS", "KEY_SEQ", "PK_NAME", "FK_NAME"}

Listings ==
    LET any == {CatalogRow(1, {}, <<t>>, <<"NULLABLE">>) :
                  t \in JdbcTypes \cup {"ARRAY", "STRUCT", "CLOB", "ROWID", "NCLOB", "SQLXML"}}
               \cup {CatalogRow(1, {}, <<"DATE">>, <<n>>) : n \in {"NO_NULLS", "UNKNOWN"}}
    IN  {<<>>, <<CatalogRow(1, {}, <<"DATE">>, <<>>), CatalogRow(2, Lacking, <<>>, <<>>)>>} \cup
        {<<r, CatalogRow(2, {"PK_NAME"}, <<"VARCHAR">>, <<"NULLABLE">>)>> : r \in any}

TypeLists ==
    {[text |-> <<>>, names |-> << <<"TABLE">> >>],
     [text |-> <<"V">>, names |-> << <<"V">> >>],
     [text |-> <<" ", "'", "V", "'", " ", ",", "\"", "T", "\"">>, names |-> << <<"V">>, <<"T">> >>],
     [text |-> <<"T", ",", " ", "S", " ", "T", ",">>, names |-> << <<"T">>, <<"S", " ", "T">> >>]}

Result == INSTANCE CatalogResult WITH TableTypes <- TypeLists

(* Bytes of one bit, so that a word is below 16 and an int64 below 128.    *)
(* Integers at those limits, powers of ten, divisors of two and three      *)
(* words that a quotient is estimated too large for, numbers of two words  *)
(* with and without something in the lower one.                            *)
Integers2 ==
    {0, 1, -1, 2, 7, -10, 10, 15, 16, -17, 99, 100, -113, 127, -128, 143, 257, 259, -1000, 9999,
     64224, 65535, -904520}

Text(chars, n) == [chars |-> chars, num |-> n]

Number == INSTANCE BigInteger WITH
    ByteBits <- 1, Operands <- Integers2, Scales <- {-1, 0, 1, 4}, HeapWords <- {0, 13},
    MaxOps <- 2, MaxValue <- 1048576, d <- decimal,
    Texts <- LET m == 10  p == 11  dot == 12  e == 13 IN
        {Text(<<1, dot, 9, 9, 9, 9>>, 19999), Text(<<1, 0, 0, 0, 0, 0>>, 100000),
         Text(<<m, 1, 2, dot, 3, 4, 5>>, -12345), Text(<<0, 0, 0, 0, 7, dot>>, 7),
         Text(<<9, 9, 9, 9, 9>>, 99999), Text(<<1, dot, 5, e, p, 2>>, 15),
         Text(<<5, 0, 0, e, m, 3>>, 500), Text(<<dot, 0, 0, 4>>, 4),
         Text(<<p, 6, 5, 5, 3, 5>>, 65535), Text(<<m, 6, 5, 5, 3, 6>>, -65536), Text(<<m>>, 0)}

(* The driver's own SQL: texts that begin with SET STREAMING or nearly,    *)
(* with options, numbers at their limits, quotes that do not close, and a  *)
(* comment that looks like a command between the words.                    *)
Words ==
    {<<"set">>, <<"SET">>, <<"streaming">>, <<"on">>, <<"off">>, <<"batch_size">>, <<"ordered">>,
     <<"allow_overwrite">>, <<"flush_frequency">>, <<"0">>, <<"1">>, <<"1", "1">>, <<"9", "9">>,
     <<"x">>, <<"-">>, <<";">>, <<"+">>, <<"'", "x", "'", "'", ";", "'">>, <<"'", "x">>}

Begins == {<<"set">>, <<"SET">>, <<"streaming">>, <<"off">>, <<";">>, <<"'", "x">>}

SetStreamingOn == << <<"set">>, <<"streaming">>, <<"on">> >>

Sql == INSTANCE Sql WITH
    Written <- UNION {[1 .. n -> Begins] : n \in 0 .. 4}
               \cup {SetStreamingOn \o <<v, w>> : v, w \in Words}
               \cup {SetStreamingOn \o << <<"batch_size">>, v, w>> : v, w \in Words},
    Gaps <- {<<>>, <<" ", "-", "-", "set", ";", "\n">>},
    MaxInt <- 20, written <- tokens, answer <- sanswer

(* The configuration window: data sources with a tunnel and with neither   *)
(* log nor scan limit, one with a negative timeout; a name the installer   *)
(* refuses; a request that names more than the data source; texts that are *)
(* missing, that are no port, that are too large for the type they are     *)
(* read as; one control of each sort and all that others depend on.        *)
Dialog == INSTANCE Dialog WITH
    Names <- {<<"n1">>, <<"n2">>}, Refused <- {<<"n", ";">>},
    Attributes <- {<<>>, "hostname" :> <<"a">>},
    Loaded <- {("hostname" :> <<"h">>) @@ ("database" :> <<"d">>) @@ ("port" :> <<"27018">>)
                   @@ ("replica_set" :> <<"x">>) @@ ("ssh_enable" :> <<"true">>),
               ("tls" :> <<"false">>) @@ ("scan_method" :> <<"all">>) @@ ("log_level" :> <<"off">>)
                   @@ ("read_preference" :> <<"nearest">>) @@ ("login_timeout_sec" :> <<"-1">>)},
    Typed <- [dsn |-> {<<>>, <<" ", "n2">>}, hostname |-> {<<"h">>}, port |-> {<<"0">>, <<"70000">>},
              database |-> {<<"d">>}, user |-> {<<"u">>}, password |-> {<<"p">>},
              replica_set |-> {<<>>}, scan_limit |-> {<<>>}, log_path |-> {<<"dir">>},
              ssh_known_hosts_file |-> {<<"f">>}],
    Ticked <- {"tls", "ssh_enable", "ssh_strict_host_key_checking"},
    Picked <- {"log_level", "scan_method"},
    Failures <- {{}, {"app_name", "database"}},
    MaxSteps <- 2, config <- dconfig, pc <- dpc, answer <- danswer

(* Bound: one data source, or two that differ. *)
TwoSources ==
    /\ <<"n1">> \in DOMAIN registry
    /\ <<"n2">> \in DOMAIN registry => registry[<<"n1">>] # registry[<<"n2">>]

-----------------------------------------------------------------------------
(* What is not the part of the behaviour rests in one state. *)
MCInit ==
    /\ part \in {"api", "info", "settings", "column", "catalog", "result", "number", "sql",
                "dialog"}
    /\ IF part = "settings" THEN TRUE ELSE given = <<>> /\ dsn = [x \in {} |-> <<>>]
    /\ IF part = "column" THEN TRUE ELSE column = "NULL" /\ bound = Buffer("CHAR", TRUE, TRUE, 4)
    /\ CatalogInit
    /\ part # "catalog" => kind = "TABLES" /\ \A o \in DOMAIN object : object[o] = <<>>
    /\ Result!ResultInit
    /\ part # "result" => query = "SPECIAL"
    /\ Number!Init
    /\ part # "number" => heap = 0
    /\ IF part = "sql" THEN TRUE ELSE tokens = <<>> /\ sql = <<>>
    /\ Sql!SqlInit
    /\ IF part = "dialog" THEN TRUE ELSE registry = <<>>
    /\ Dialog!DialogInit
    /\ part = "dialog" => TwoSources
    /\ Init /\ InfoInit /\ Settings!SettingsInit /\ Column!ColumnInit

MCNext ==
    \/ /\ part = "api" /\ Next
       /\ UNCHANGED <<part, infoVars, settingsVars, columnVars, catalogVars, resultVars, numVars,
                       sqlVars, dialogVars>>
    \/ /\ part = "info" /\ InfoNext
       /\ UNCHANGED <<part, vars, settingsVars, columnVars, catalogVars, resultVars, numVars,
                       sqlVars, dialogVars>>
    \/ /\ part = "settings" /\ Settings!SettingsNext
       /\ UNCHANGED <<part, vars, infoVars, columnVars, catalogVars, resultVars, numVars,
                       sqlVars, dialogVars>>
    \/ /\ part = "column" /\ Column!ColumnNext
       /\ UNCHANGED <<part, vars, infoVars, settingsVars, catalogVars, resultVars, numVars,
                       sqlVars, dialogVars>>
    \/ /\ part = "catalog" /\ CatalogNext
       /\ UNCHANGED <<part, vars, infoVars, settingsVars, columnVars, resultVars, numVars,
                       sqlVars, dialogVars>>
    \/ /\ part = "result" /\ Result!ResultNext
       /\ UNCHANGED <<part, vars, infoVars, settingsVars, columnVars, catalogVars, numVars,
                       sqlVars, dialogVars>>
    \/ /\ part = "number" /\ Number!Next
       /\ UNCHANGED <<part, vars, infoVars, settingsVars, columnVars, catalogVars, resultVars,
                       sqlVars, dialogVars>>
    \/ /\ part = "sql" /\ Sql!SqlNext
       /\ UNCHANGED <<part, vars, infoVars, settingsVars, columnVars, catalogVars, resultVars,
                       numVars, dialogVars>>
    \/ /\ part = "dialog" /\ Dialog!DialogNext
       /\ UNCHANGED <<part, vars, infoVars, settingsVars, columnVars, catalogVars, resultVars,
                       numVars, sqlVars>>

MCSpec == MCInit /\ [][MCNext]_allVars

-----------------------------------------------------------------------------
(* What a user or an application sets.  The settings: an attribute means   *)
(* the same wherever it stands, a data source fills only what was left     *)
(* open, and what is saved as a data source or written as a connection     *)
(* string is read back the same.  The configuration window and ConfigDSN:  *)
(* no button and no control is stale, what is shown is what is tested and  *)
(* saved, and no data source is lost or half renamed                       *)
(* (DsnConfigurationWindow, system_dsn.cpp).  The SET STREAMING command: a *)
(* text is taken for it exactly when it begins with those words, and it    *)
(* means what is written in it (SqlLexer, SqlParser).                      *)
SettingsAreKept ==
    /\ part = "settings" =>
          /\ Settings!GivenIsTaken /\ Settings!SourceFills
          /\ Settings!SavedIsReadBack /\ Settings!ConnectStringIsReadBack
          /\ Settings!ClientsAreTold
    /\ part = "dialog" =>
          /\ Dialog!ButtonsAreFresh /\ Dialog!ControlsFollow
          /\ Dialog!SavedIsShown /\ Dialog!SourcesAreSafe
    /\ part = "sql" => Sql!CommandsAreRead


(* Big numbers: every operation gives what the arithmetic of the integers  *)
(* gives, unless a division borrowed or read before its array; a text is   *)
(* read back equal, the order, the precision, the conversion to an int64   *)
(* and to SQL_NUMERIC_STRUCT are those of the number.                      *)
NumbersAreExact ==
    part = "number" =>
        /\ Number!ValueIsExact /\ Number!BorrowNeedsThreeWords /\ Number!TextIsRead
        /\ Number!PrecisionIsDigits /\ Number!OrderIsExact /\ Number!Int64IsExact
        /\ Number!NumericIsInteger

(* Decimal::SetScale, "@param res Result is placed here": the structure an *)
(* application gets holds the integer part of every number, of one without *)
(* decimal places also.                                                    *)
ScaledIsPlaced == part = "number" => Number!ScaledIsPlaced
=============================================================================
