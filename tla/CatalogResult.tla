--------------------------- MODULE CatalogResult ---------------------------
(***************************************************************************)
(* The results of the catalogue queries as an application sees them (the   *)
(* classes of src/query): the columns they describe, the rows FetchNextRow *)
(* puts into the bound columns and the columns GetColumn reads one by one. *)
(*                                                                         *)
(* A column's place is known three times over: in the enumeration          *)
(* ResultColumn, in columnsMeta, which the application is told, and in the *)
(* switch of GetColumn; the value comes through a member of the element    *)
(* that was read from Java under a name of its own.  How the rows are      *)
(* asked for and read, and how that fails, is in Catalog.                  *)
(***************************************************************************)
EXTENDS Types, SequencesExt

CONSTANTS
    Listings,       \* the rows a query may list
    TableTypes      \* lists of table types, with the names in them

VARIABLES
    query,          \* the class of the query
    vector,         \* meta, or binaryTypes: the rows
    cursor,         \* the iterator, as an index from 1
    fetched, executed,
    shown,          \* what the last call has put, column by column
    returned,       \* the result of the last call
    asked,          \* the columns it was to fill
    tableType       \* the table types that are asked for

resultVars == <<query, vector, cursor, fetched, executed, shown, returned, asked,
                tableType>>

(* A column of columnsMeta: its name, its JDBC type, whether it can be     *)
(* null.                                                                   *)
Described(name, type, nullable) == [name |-> name, type |-> type, nullable |-> nullable]

(* What a buffer is given: a value of a form, or null; a value is a name   *)
(* and the row or the number that belongs to it.                           *)
PutString(v) == [form |-> "string", value |-> v]
PutInt(v) == [form |-> "int", value |-> v]
PutNull == [form |-> "null", value |-> <<"null", 0>>]
Untouched == [form |-> "untouched", value |-> <<"untouched", 0>>]

Put(Form(_), optional) == IF optional = None THEN PutNull ELSE Form(optional[1])

Number(n) == <<"number", n>>
Word(w) == <<w, 0>>

(* What Java has under a name in a row: nothing for a name it lacks. *)
JavaValue(row, name) == IF name \in row.lacks THEN None ELSE Some(<<name, row.number>>)

-----------------------------------------------------------------------------
(***************************************************************************)
(* SQLTables.                                                              *)
(***************************************************************************)

TablesColumns == <<"TABLE_CAT", "TABLE_SCHEM", "TABLE_NAME", "TABLE_TYPE", "REMARKS">>

TablesMeta ==
    <<Described("TABLE_CAT", "VARCHAR", "NULLABLE"),
      Described("TABLE_SCHEM", "VARCHAR", "NULLABLE"),
      Described("TABLE_NAME", "VARCHAR", "NO_NULLS"),
      Described("TABLE_TYPE", "VARCHAR", "NO_NULLS"),
      Described("REMARKS", "VARCHAR", "NULLABLE")>>

(* TableMeta::Read: the Java name of each member. *)
TableRead ==
    [catalogName |-> "TABLE_CAT", schemaName |-> "TABLE_SCHEM", tableName |-> "TABLE_NAME",
     tableType |-> "TABLE_TYPE", remarks |-> "REMARKS"]

(* TableMetadataQuery::GetColumn: the member each column shows. *)
TablesShow ==
    [TABLE_CAT |-> "catalogName", TABLE_SCHEM |-> "schemaName", TABLE_NAME |-> "tableName",
     TABLE_TYPE |-> "tableType", REMARKS |-> "remarks"]

TablesPut(row, column) == Put(PutString, JavaValue(row, TableRead[TablesShow[column]]))

(* TableMetadataQuery::dequote, ltrim and rtrim. *)
Dequote(s) ==
    IF Len(s) >= 2 /\ s[1] \in {"'", "\""} /\ s[Len(s)] = s[1]
    THEN SubSeq(s, 2, Len(s) - 1) ELSE s

Trim(s) ==
    LET solid == {i \in DOMAIN s : s[i] # " "}
    IN  IF solid = {} THEN <<>> ELSE SubSeq(s, Min(solid), Max(solid))

(* std::getline at the commas: nothing after the last one is no line. *)
Lines(s) ==
    LET commas == {i \in DOMAIN s : s[i] = ","}
        starts == SetToSortSeq({1} \cup {i + 1 : i \in commas}, <)
        ends == SetToSortSeq(commas \cup {Len(s) + 1}, <)
        all == [k \in DOMAIN starts |-> SubSeq(s, starts[k], ends[k] - 1)]
    IN  IF Last(all) = <<>> THEN Front(all) ELSE all

(* The types MakeRequestGetTablesMeta passes on. *)
AskedTypes(s) ==
    IF s = <<>> THEN << <<"TABLE">> >>
    ELSE [k \in DOMAIN Lines(s) |-> Dequote(Trim(Lines(s)[k]))]

-----------------------------------------------------------------------------
(***************************************************************************)
(* SQLColumns.  row.type is the JDBC type of the column and row.nullable   *)
(* its nullability, if Java tells them.                                    *)
(***************************************************************************)

ColumnsColumns ==
    <<"TABLE_CAT", "TABLE_SCHEM", "TABLE_NAME", "COLUMN_NAME", "DATA_TYPE", "TYPE_NAME",
      "COLUMN_SIZE", "BUFFER_LENGTH", "DECIMAL_DIGITS", "NUM_PREC_RADIX", "NULLABLE",
      "REMARKS", "COLUMN_DEF", "SQL_DATA_TYPE", "SQL_DATETIME_SUB", "CHAR_OCTET_LENGTH",
      "ORDINAL_POSITION", "IS_NULLABLE">>

ColumnsMeta ==
    <<Described("TABLE_CAT", "VARCHAR", "NULLABLE"),
      Described("TABLE_SCHEM", "VARCHAR", "NULLABLE"),
      Described("TABLE_NAME", "VARCHAR", "NO_NULLS"),
      Described("COLUMN_NAME", "VARCHAR", "NO_NULLS"),
      Described("DATA_TYPE", "SMALLINT", "NO_NULLS"),
      Described("TYPE_NAME", "VARCHAR", "NO_NULLS"),
      Described("COLUMN_SIZE", "INTEGER", "NULLABLE"),
      Described("BUFFER_LENGTH", "INTEGER", "NULLABLE"),
      Described("DECIMAL_DIGITS", "SMALLINT", "NULLABLE"),
      Described("NUM_PREC_RADIX", "SMALLINT", "NULLABLE"),
      Described("NULLABLE", "SMALLINT", "NO_NULLS"),
      Described("REMARKS", "VARCHAR", "NULLABLE"),
      Described("COLUMN_DEF", "VARCHAR", "NULLABLE"),
      Described("SQL_DATA_TYPE", "SMALLINT", "NO_NULLS"),
      Described("SQL_DATETIME_SUB", "SMALLINT", "NULLABLE"),
      Described("CHAR_OCTET_LENGTH", "INTEGER", "NULLABLE"),
      Described("ORDINAL_POSITION", "INTEGER", "NO_NULLS"),
      Described("IS_NULLABLE", "VARCHAR", "NULLABLE")>>

(* The members of ColumnMeta that are shown as they were read. *)
ColumnRead ==
    [catalogName |-> "TABLE_CAT", schemaName |-> "TABLE_SCHEM", tableName |-> "TABLE_NAME",
     columnName |-> "COLUMN_NAME", remarks |-> "REMARKS", columnDef |-> "COLUMN_DEF"]

ColumnsShow ==
    [TABLE_CAT |-> "catalogName", TABLE_SCHEM |-> "schemaName", TABLE_NAME |-> "tableName",
     COLUMN_NAME |-> "columnName", REMARKS |-> "remarks", COLUMN_DEF |-> "columnDef"]

(* A number of a type, if there is a type and the number is no -1. *)
SizePut(Size(_), type) ==
    LET n == OfBinaryType(Size, type)
    IN  IF n = None \/ (n # None /\ n[1] < 0) THEN PutNull ELSE PutInt(Number(n[1]))

TypePut(type) ==
    IF type = None THEN PutNull ELSE PutInt(Word(BinaryToSqlType(type)[1]))

NamePut(type) ==
    IF type = None THEN PutNull ELSE PutString(Word(BinaryTypeToSqlTypeName(type)[1]))

(* ColumnMetadataQuery::GetColumn *)
ColumnsPut(row, column) ==
    CASE column \in DOMAIN ColumnsShow ->
            Put(PutString, JavaValue(row, ColumnRead[ColumnsShow[column]]))
      [] column \in {"DATA_TYPE", "SQL_DATA_TYPE"} -> TypePut(row.type)
      [] column = "TYPE_NAME"         -> NamePut(row.type)
      [] column = "COLUMN_SIZE"       -> SizePut(SqlTypeColumnSize, row.type)
      [] column = "BUFFER_LENGTH"     -> SizePut(SqlTypeTransferLength, row.type)
      [] column = "DECIMAL_DIGITS"    -> SizePut(SqlTypeDecimalDigits, row.type)
      [] column = "NUM_PREC_RADIX"    -> SizePut(SqlTypeNumPrecRadix, row.type)
      [] column = "CHAR_OCTET_LENGTH" -> SizePut(SqlTypeCharOctetLength, row.type)
      [] column = "NULLABLE" ->
            IF row.nullable = None THEN PutNull ELSE PutInt(Word(row.nullable[1]))
      [] column = "IS_NULLABLE" ->
            LET is == NullabilityToIsNullable(row.nullable)
            IN  IF is = None THEN PutNull ELSE PutString(Word(is[1]))
      [] column = "SQL_DATETIME_SUB"  -> PutNull
      [] column = "ORDINAL_POSITION"  -> PutInt(Number(row.number))

-----------------------------------------------------------------------------
(***************************************************************************)
(* SQLPrimaryKeys and SQLForeignKeys.                                      *)
(***************************************************************************)

PrimaryKeysColumns ==
    <<"TABLE_CAT", "TABLE_SCHEM", "TABLE_NAME", "COLUMN_NAME", "KEY_SEQ", "PK_NAME">>

PrimaryKeysMeta ==
    <<Described("TABLE_CAT", "VARCHAR", "NULLABLE"),
      Described("TABLE_SCHEM", "VARCHAR", "NULLABLE"),
      Described("TABLE_NAME", "VARCHAR", "NO_NULLS"),
      Described("COLUMN_NAME", "VARCHAR", "NO_NULLS"),
      Described("KEY_SEQ", "SMALLINT", "NO_NULLS"),
      Described("PK_NAME", "VARCHAR", "NULLABLE")>>

(* PrimaryKeyMeta::Read *)
PrimaryKeyRead ==
    [catalog |-> "TABLE_CAT", schema |-> "TABLE_SCHEM", table |-> "TABLE_NAME",
     column |-> "COLUMN_NAME", keySeq |-> "KEY_SEQ", keyName |-> "PK_NAME"]

PrimaryKeysShow ==
    [TABLE_CAT |-> "catalog", TABLE_SCHEM |-> "schema", TABLE_NAME |-> "table",
     COLUMN_NAME |-> "column", KEY_SEQ |-> "keySeq", PK_NAME |-> "keyName"]

(* PrimaryKeysQuery::GetColumn *)
PrimaryKeysPut(row, column) ==
    LET value == JavaValue(row, PrimaryKeyRead[PrimaryKeysShow[column]])
    IN  IF column = "KEY_SEQ" THEN Put(PutInt, value) ELSE Put(PutString, value)

ForeignKeysColumns ==
    <<"PKTABLE_CAT", "PKTABLE_SCHEM", "PKTABLE_NAME", "PKCOLUMN_NAME", "FKTABLE_CAT",
      "FKTABLE_SCHEM", "FKTABLE_NAME", "FKCOLUMN_NAME", "KEY_SEQ", "UPDATE_RULE",
      "DELETE_RULE", "FK_NAME", "PK_NAME", "DEFERRABILITY">>

ForeignKeysMeta ==
    <<Described("PKTABLE_CAT", "VARCHAR", "NULLABLE"),
      Described("PKTABLE_SCHEM", "VARCHAR", "NULLABLE"),
      Described("PKTABLE_NAME", "VARCHAR", "NO_NULLS"),
      Described("PKCOLUMN_NAME", "VARCHAR", "NO_NULLS"),
      Described("FKTABLE_CAT", "VARCHAR", "NULLABLE"),
      Described("FKTABLE_SCHEM", "VARCHAR", "NULLABLE"),
      Described("FKTABLE_NAME", "VARCHAR", "NO_NULLS"),
      Described("FKCOLUMN_NAME", "VARCHAR", "NO_NULLS"),
      Described("KEY_SEQ", "SMALLINT", "NO_NULLS"),
      Described("UPDATE_RULE", "SMALLINT", "NO_NULLS"),
      Described("DELETE_RULE", "SMALLINT", "NO_NULLS"),
      Described("FK_NAME", "VARCHAR", "NULLABLE"),
      Described("PK_NAME", "VARCHAR", "NULLABLE"),
      Described("DEFERRABILITY", "SMALLINT", "NO_NULLS")>>

(* ForeignKeyMeta::Read *)
ForeignKeyRead ==
    [PKCatalogName |-> "PKTABLE_CAT", PKSchemaName |-> "PKTABLE_SCHEM",
     PKTableName |-> "PKTABLE_NAME", PKColumnName |-> "PKCOLUMN_NAME",
     FKCatalogName |-> "FKTABLE_CAT", FKSchemaName |-> "FKTABLE_SCHEM",
     FKTableName |-> "FKTABLE_NAME", FKColumnName |-> "FKCOLUMN_NAME",
     keySeq |-> "KEY_SEQ", updateRule |-> "UPDATE_RULE", deleteRule |-> "DELETE_RULE",
     FKName |-> "FK_NAME", PKName |-> "PK_NAME", deferrability |-> "DEFERRABILITY"]

ForeignKeysShow ==
    [PKTABLE_CAT |-> "PKCatalogName", PKTABLE_SCHEM |-> "PKSchemaName",
     PKTABLE_NAME |-> "PKTableName", PKCOLUMN_NAME |-> "PKColumnName",
     FKTABLE_CAT |-> "FKCatalogName", FKTABLE_SCHEM |-> "FKSchemaName",
     FKTABLE_NAME |-> "FKTableName", FKCOLUMN_NAME |-> "FKColumnName",
     KEY_SEQ |-> "keySeq", UPDATE_RULE |-> "updateRule", DELETE_RULE |-> "deleteRule",
     FK_NAME |-> "FKName", PK_NAME |-> "PKName", DEFERRABILITY |-> "deferrability"]

(* ForeignKeysQuery::GetColumn *)
ForeignKeysPut(row, column) ==
    LET value == JavaValue(row, ForeignKeyRead[ForeignKeysShow[column]])
    IN  IF column \in {"KEY_SEQ", "UPDATE_RULE", "DELETE_RULE", "DEFERRABILITY"}
        THEN Put(PutInt, value) ELSE Put(PutString, value)

-----------------------------------------------------------------------------
(***************************************************************************)
(* SQLGetTypeInfo.  A row is the number of a JDBC type, which GetColumn    *)
(* copies into eight bits.                                                 *)
(***************************************************************************)

JdbcNumber ==
    [BIT |-> -7, TINYINT |-> -6, SMALLINT |-> 5, INTEGER |-> 4, BIGINT |-> -5, FLOAT |-> 6,
     REAL |-> 7, DOUBLE |-> 8, NUMERIC |-> 2, DECIMAL |-> 3, CHAR |-> 1, VARCHAR |-> 12,
     LONGVARCHAR |-> -1, DATE |-> 91, TIME |-> 92, TIMESTAMP |-> 93, BINARY |-> -2,
     VARBINARY |-> -3, LONGVARBINARY |-> -4, BLOB |-> 2004, BOOLEAN |-> 16, NCHAR |-> -15,
     NVARCHAR |-> -9, LONGNVARCHAR |-> -16, NULL |-> 0, ARRAY |-> 2003, STRUCT |-> 2002,
     CLOB |-> 2005, ROWID |-> -8, NCLOB |-> 2011, SQLXML |-> 2009]

(* static_cast< int8_t >, and the type that has the number; the functions  *)
(* of type_traits take a number that is no type's for their default.       *)
Int8(n) == ((n + 128) % 256) - 128

CurrentType(type) ==
    LET n == Int8(JdbcNumber[type])
    IN  IF \E t \in DOMAIN JdbcNumber : JdbcNumber[t] = n
        THEN CHOOSE t \in DOMAIN JdbcNumber : JdbcNumber[t] = n ELSE "UNKNOWN"

TypesColumns ==
    <<"TYPE_NAME", "DATA_TYPE", "COLUMN_SIZE", "LITERAL_PREFIX", "LITERAL_SUFFIX",
      "CREATE_PARAMS", "NULLABLE", "CASE_SENSITIVE", "SEARCHABLE", "UNSIGNED_ATTRIBUTE",
      "FIXED_PREC_SCALE", "AUTO_UNIQUE_VALUE", "LOCAL_TYPE_NAME", "MINIMUM_SCALE",
      "MAXIMUM_SCALE", "SQL_DATA_TYPE", "SQL_DATETIME_SUB", "NUM_PREC_RADIX",
      "INTERVAL_PRECISION">>

TypesMeta ==
    LET name(n) == Described(n, "VARCHAR", "UNKNOWN")
        small(n) == Described(n, "SMALLINT", "UNKNOWN")
        integer(n) == Described(n, "INTEGER", "UNKNOWN")
    IN  <<name("TYPE_NAME"), small("DATA_TYPE"), integer("COLUMN_SIZE"), name("LITERAL_PREFIX"),
          name("LITERAL_SUFFIX"), name("CREATE_PARAMS"), small("NULLABLE"),
          small("CASE_SENSITIVE"), small("SEARCHABLE"), small("UNSIGNED_ATTRIBUTE"),
          small("FIXED_PREC_SCALE"), small("AUTO_UNIQUE_VALUE"), name("LOCAL_TYPE_NAME"),
          small("MINIMUM_SCALE"), small("MAXIMUM_SCALE"), small("SQL_DATA_TYPE"),
          small("SQL_DATETIME_SUB"), integer("NUM_PREC_RADIX"), small("INTERVAL_PRECISION")>>

Texts8 == {"CHAR", "VARCHAR", "LONGVARCHAR", "NCHAR", "NVARCHAR", "LONGNVARCHAR"}

LiteralPrefix(type) ==
    CASE type \in Texts8 -> PutString(Word("'"))
      [] type \in {"BINARY", "VARBINARY", "LONGVARBINARY"} -> PutString(Word("0x"))
      [] OTHER -> PutNull

Flag(b) == PutInt(Number(IF b THEN 1 ELSE 0))

(* TypeInfoQuery::GetColumn *)
TypesPut(row, column) ==
    LET type == CurrentType(row.type[1])
        sql == BinaryToSqlType(Some(type))[1]
    IN  CASE column = "TYPE_NAME" -> NamePut(Some(type))
          [] column \in {"DATA_TYPE", "SQL_DATA_TYPE"} -> TypePut(Some(type))
          [] column = "COLUMN_SIZE" -> PutInt(Number(SqlTypeColumnSize(sql)))
          [] column = "LITERAL_PREFIX" -> LiteralPrefix(type)
          [] column = "LITERAL_SUFFIX" ->
                IF type \in Texts8 THEN PutString(Word("'")) ELSE PutNull
          [] column = "NULLABLE" -> PutInt(Word("NULLABLE"))
          [] column = "CASE_SENSITIVE" -> Flag(type \in Texts8)
          [] column = "SEARCHABLE" -> PutInt(Word("SEARCHABLE"))
          [] column = "UNSIGNED_ATTRIBUTE" -> Flag(SqlTypeUnsigned(sql))
          [] column \in {"FIXED_PREC_SCALE", "AUTO_UNIQUE_VALUE"} -> Flag(FALSE)
          [] column \in {"MINIMUM_SCALE", "MAXIMUM_SCALE"} ->
                PutInt(Number(SqlTypeDecimalDigits(sql)))
          [] column = "NUM_PREC_RADIX" -> PutInt(Number(SqlTypeNumPrecRadix(sql)))
          [] OTHER -> PutNull

-----------------------------------------------------------------------------
(***************************************************************************)
(* SQLSpecialColumns, which never has a row.  Its columns are described    *)
(* with the numbers of Ignite's types, which are other JDBC types.         *)
(***************************************************************************)
SpecialMeta ==
    LET short(n) == Described(n, "NUMERIC", "UNKNOWN")
        string(n) == Described(n, "UNKNOWN", "UNKNOWN")
        integer(n) == Described(n, "DECIMAL", "UNKNOWN")
    IN  <<short("SCOPE"), string("COLUMN_NAME"), short("DATA_TYPE"), string("TYPE_NAME"),
          integer("COLUMN_SIZE"), integer("BUFFER_LENGTH"), short("DECIMAL_DIGITS"),
          short("PSEUDO_COLUMN")>>

-----------------------------------------------------------------------------
(***************************************************************************)
(* The queries.                                                            *)
(***************************************************************************)

QueryClasses == {"TABLES", "COLUMNS", "PRIMARY_KEYS", "FOREIGN_KEYS", "TYPES", "SPECIAL"}

(* GetMeta: the columns the application is told of. *)
GetMeta(q) ==
    CASE q = "TABLES"       -> TablesMeta
      [] q = "COLUMNS"      -> ColumnsMeta
      [] q = "PRIMARY_KEYS" -> PrimaryKeysMeta
      [] q = "FOREIGN_KEYS" -> ForeignKeysMeta
      [] q = "TYPES"        -> TypesMeta
      [] q = "SPECIAL"      -> SpecialMeta

ResultColumns(q) ==
    CASE q = "TABLES"       -> TablesColumns
      [] q = "COLUMNS"      -> ColumnsColumns
      [] q = "PRIMARY_KEYS" -> PrimaryKeysColumns
      [] q = "FOREIGN_KEYS" -> ForeignKeysColumns
      [] q = "TYPES"        -> TypesColumns
      [] q = "SPECIAL"      -> <<>>

(* What the switch puts into the buffer of a column. *)
Switch(q, row, column) ==
    CASE q = "TABLES"       -> TablesPut(row, column)
      [] q = "COLUMNS"      -> ColumnsPut(row, column)
      [] q = "PRIMARY_KEYS" -> PrimaryKeysPut(row, column)
      [] q = "FOREIGN_KEYS" -> ForeignKeysPut(row, column)
      [] q = "TYPES"        -> TypesPut(row, column)

MaxColumn == Len(TypesColumns) + 1

Nothing == [c \in 1..MaxColumn |-> Untouched]

(* Every column is bound, and one there is not. *)
BindingsOf(q) == 1..(Len(GetMeta(q)) + 1)

ResultInit ==
    /\ query \in QueryClasses
    /\ vector = <<>> /\ cursor = 1
    /\ fetched = FALSE /\ executed = FALSE
    /\ shown = Nothing
    /\ returned = "NONE" /\ asked = {}
    /\ tableType \in IF query = "TABLES" THEN TableTypes ELSE {CHOOSE t \in TableTypes : TRUE}

(* The buffers after the columns of cols are put; an index that is no      *)
(* column's is left alone.                                                 *)
Filled(cols, row) ==
    [c \in 1..MaxColumn |->
        IF c \in cols \cap DOMAIN ResultColumns(query)
        THEN Switch(query, row, ResultColumns(query)[c]) ELSE Untouched]

(* A type that is listed has a number; there are no special columns. *)
ListingsOf(q) ==
    CASE q = "TYPES"   -> {l \in Listings : \A i \in DOMAIN l : l[i].type # None}
      [] q = "SPECIAL" -> {<<>>}
      [] OTHER         -> Listings

(* Execute, where the request succeeds.  TypeInfoQuery keeps the types it  *)
(* has; an old vector of the others goes.                                  *)
ExecuteQuery ==
    /\ vector' \in IF query = "TYPES" /\ vector # <<>> THEN {vector} ELSE ListingsOf(query)
    /\ executed' = TRUE /\ fetched' = FALSE /\ cursor' = 1
    /\ returned' = "SUCCESS" /\ asked' = {} /\ shown' = Nothing
    /\ UNCHANGED <<query, tableType>>

AtEnd(c) == c > Len(vector)

(* FetchNextRow, which does not look at what GetColumn returns. *)
FetchNextRow ==
    LET next == IF fetched /\ ~AtEnd(cursor) THEN cursor + 1 ELSE cursor
    IN  /\ IF ~executed
           THEN returned' = "ERROR" /\ shown' = Nothing /\ UNCHANGED <<fetched, cursor>>
           ELSE /\ fetched' = TRUE /\ cursor' = next
                /\ returned' = IF AtEnd(next) THEN "NO_DATA" ELSE "SUCCESS"
                /\ shown' = IF AtEnd(next) THEN Nothing ELSE Filled(BindingsOf(query), vector[next])
        /\ asked' = BindingsOf(query)
        /\ UNCHANGED <<query, vector, executed, tableType>>

(* GetColumn of one column: past the end it is an error, or no data for    *)
(* the keys; only ColumnMetadataQuery refuses an index that is no column's.*)
GetColumn(c) ==
    /\ returned' =
          CASE ~executed -> "ERROR"
            [] executed /\ AtEnd(cursor) ->
                  IF query \in {"PRIMARY_KEYS", "FOREIGN_KEYS", "SPECIAL"} THEN "NO_DATA"
                  ELSE "ERROR"
            [] OTHER ->
                  IF query = "COLUMNS" /\ c \notin DOMAIN ColumnsColumns THEN "ERROR"
                  ELSE "SUCCESS"
    /\ shown' = IF executed /\ ~AtEnd(cursor) THEN Filled({c}, vector[cursor]) ELSE Nothing
    /\ asked' = {c}
    /\ UNCHANGED <<query, vector, cursor, fetched, executed, tableType>>

(* Close: the type information keeps its types and moves the cursor to the *)
(* end; the others clear the vector, and the keys forget the fetch.        *)
CloseResult ==
    /\ vector' = IF query \in {"TYPES", "SPECIAL"} THEN vector ELSE <<>>
    /\ cursor' = IF query = "TYPES" THEN Len(vector) + 1 ELSE cursor
    /\ fetched' = (fetched /\ query \notin {"PRIMARY_KEYS", "FOREIGN_KEYS"})
    /\ executed' = FALSE
    /\ returned' = "SUCCESS" /\ asked' = {} /\ shown' = Nothing
    /\ UNCHANGED <<query, tableType>>

ResultNext ==
    \/ ExecuteQuery \/ FetchNextRow \/ CloseResult
    \/ \E c \in BindingsOf(query) : GetColumn(c)

-----------------------------------------------------------------------------
(* The names a class of rows has in Java. *)
JavaNames(q) ==
    CASE q = "TABLES"       -> {TableRead[m] : m \in DOMAIN TableRead}
      [] q = "COLUMNS"      -> {ColumnRead[m] : m \in DOMAIN ColumnRead}
      [] q = "PRIMARY_KEYS" -> {PrimaryKeyRead[m] : m \in DOMAIN PrimaryKeyRead}
      [] q = "FOREIGN_KEYS" -> {ForeignKeyRead[m] : m \in DOMAIN ForeignKeyRead}
      [] OTHER              -> {}

(* The columns the last call has filled. *)
Delivered == IF returned = "SUCCESS" THEN asked \cap DOMAIN GetMeta(query) ELSE {}

Shows(name) == {shown[c] : c \in {d \in Delivered : GetMeta(query)[d].name = name}}

(* The column the application is told is called so holds what Java has     *)
(* under that name in the row the query is on, or null where Java has      *)
(* nothing, through enumeration, description, switch, getter and reader.   *)
DescribedIsDelivered ==
    \A c \in Delivered :
        LET name == GetMeta(query)[c].name
        IN  name \in JavaNames(query) =>
                shown[c].value = IF name \in vector[cursor].lacks THEN PutNull.value
                                 ELSE <<name, vector[cursor].number>>

(* A value has the form of the described type, and a column that is said   *)
(* never to be null is null only where Java tells nothing.                 *)
DescribedTypeIsDelivered ==
    \A c \in Delivered :
        LET m == GetMeta(query)[c]
        IN  /\ shown[c].form \in {"null", IF m.type = "VARCHAR" THEN "string" ELSE "int"}
            /\ m.nullable = "NO_NULLS" /\ shown[c].form = "null" =>
                   \/ m.name \in vector[cursor].lacks
                   \/ m.name = "NULLABLE" /\ vector[cursor].nullable = None
                   \/ vector[cursor].type = None

(* The columns of a row tell of one type, the one Java listed, though its  *)
(* number was cut to eight bits on the way; a literal's suffix is its      *)
(* prefix, and the two columns on nullability agree.                       *)
TypesAgree ==
    query \in {"TYPES", "COLUMNS"} /\ Delivered # {} =>
        LET type == vector[cursor].type
        IN  /\ \A v \in Shows("DATA_TYPE") \cup Shows("SQL_DATA_TYPE") :
                  v.value[1] = IF type = None THEN "null" ELSE BinaryToSqlType(type)[1]
            /\ \A v \in Shows("TYPE_NAME") :
                  v.value[1] = IF type = None THEN "null" ELSE BinaryTypeToSqlTypeName(type)[1]
            /\ \A v \in Shows("LITERAL_SUFFIX"), w \in Shows("LITERAL_PREFIX") :
                  v.form # "null" => v = w
            /\ \A v \in Shows("NULLABLE"), w \in Shows("IS_NULLABLE") :
                  w.value[1] = "NO" <=> v.value[1] = "NO_NULLS"

(* The types a list of table types asks for are the ones it names, with    *)
(* quotes or without, whatever spaces stand around them.                   *)
TableTypesAreAsked == AskedTypes(tableType.text) = tableType.names
=============================================================================
