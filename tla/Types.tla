------------------------------- MODULE Types -------------------------------
(***************************************************************************)
(* The type tables of src/type_traits.cpp: JDBC types (which the code calls*)
(* binary types), SQL types and the types of application buffers, and the  *)
(* sizes that belong to them; and the metadata of a column of a result     *)
(* (src/meta/column_meta.cpp), whose attributes are computed from them.    *)
(*                                                                         *)
(* A boost::optional is a sequence of length at most one.  A type is named *)
(* by the end of its constant: "WCHAR" is SQL_WCHAR as an SQL type.        *)
(***************************************************************************)
EXTENDS Integers, Jni

CONSTANT
    WCharSize      \* sizeof(SQLWCHAR)

ASSUME TypesAssumption == WCharSize \in {2, 4}

(* DOCUMENTDB_SQL_MAX_LENGTH *)
SqlMaxLength == 65532

(* The JDBC types that have an SQL type of their own. *)
SqlTypeOf ==
    [BIT |-> "BIT", BOOLEAN |-> "BIT", TINYINT |-> "TINYINT", SMALLINT |-> "SMALLINT",
     INTEGER |-> "INTEGER", BIGINT |-> "BIGINT", FLOAT |-> "FLOAT", REAL |-> "REAL",
     DOUBLE |-> "DOUBLE", NUMERIC |-> "NUMERIC", DECIMAL |-> "DECIMAL", CHAR |-> "CHAR",
     NCHAR |-> "WCHAR", VARCHAR |-> "VARCHAR", NVARCHAR |-> "WVARCHAR",
     LONGVARCHAR |-> "LONGVARCHAR", LONGNVARCHAR |-> "WLONGVARCHAR", DATE |-> "TYPE_DATE",
     TIME |-> "TYPE_TIME", TIMESTAMP |-> "TYPE_TIMESTAMP", LONGVARBINARY |-> "LONGVARBINARY",
     NULL |-> "TYPE_NULL", VARBINARY |-> "VARBINARY"]

(* BLOB stands for the JDBC types the code lists with the default. *)
JdbcTypes == DOMAIN SqlTypeOf \cup {"BINARY", "BLOB"}

BinaryToSqlType(t) ==
    IF t = None THEN None
    ELSE Some(IF t[1] \in DOMAIN SqlTypeOf THEN SqlTypeOf[t[1]] ELSE "BINARY")

BinaryTypeToSqlTypeName(t) ==
    IF t = None THEN None
    ELSE Some(CASE t[1] \in {"BIT", "BOOLEAN"}     -> "BIT"
                [] t[1] \in DOMAIN SqlTypeOf       -> t[1]
                [] OTHER                           -> "BINARY")

SqlTypes == {SqlTypeOf[t] : t \in DOMAIN SqlTypeOf} \cup {"BINARY", "GUID"}

(* Mutant: a type is forgotten. *)
IsSqlTypeSupportedNotNull(s) == s # None /\ s[1] \in SqlTypes \ {"GUID", "TYPE_NULL"}

IsSqlTypeSupported(s) == s # None /\ s[1] \in SqlTypes \ {"GUID"}

SqlTypeToBinary(s) ==
    IF s = None THEN None
    ELSE Some(CASE s[1] = "BIT"                             -> "BOOLEAN"
                [] s[1] \in {"CHAR", "WCHAR"}               -> "CHAR"
                [] s[1] \in {"VARCHAR", "WVARCHAR"}         -> "VARCHAR"
                [] s[1] \in {"LONGVARCHAR", "WLONGVARCHAR"} -> "LONGVARCHAR"
                [] s[1] \notin {SqlTypeOf[t] : t \in DOMAIN SqlTypeOf} -> "BINARY"
                [] OTHER -> CHOOSE t \in DOMAIN SqlTypeOf : SqlTypeOf[t] = s[1])

-----------------------------------------------------------------------------
(***************************************************************************)
(* Sizes.                                                                  *)
(***************************************************************************)

CharTypes == {"CHAR", "VARCHAR", "LONGVARCHAR"}
WideTypes == {"WCHAR", "WVARCHAR", "WLONGVARCHAR"}
BinaryTypes == {"BINARY", "VARBINARY", "LONGVARBINARY"}
LongTypes == CharTypes \cup WideTypes \cup BinaryTypes \cup {"DECIMAL", "NUMERIC"}

SqlTypeDisplaySize(s) ==
    CASE s \in LongTypes              -> SqlMaxLength
      [] s \in {"BIT", "TYPE_NULL"}   -> 1
      [] s = "TINYINT"                -> 4
      [] s = "SMALLINT"               -> 6
      [] s = "INTEGER"                -> 11
      [] s = "BIGINT"                 -> 20
      [] s = "REAL"                   -> 14
      [] s \in {"FLOAT", "DOUBLE"}    -> 24
      [] s = "TYPE_DATE"              -> 10
      [] s = "TYPE_TIME"              -> 8
      [] s = "TYPE_TIMESTAMP"         -> 19
      [] s = "GUID"                   -> 36
      [] OTHER                        -> 0

SqlTypeColumnSize(s) ==
    CASE s \in LongTypes              -> SqlMaxLength
      [] s \in {"BIT", "TYPE_NULL"}   -> 1
      [] s = "TINYINT"                -> 3
      [] s = "SMALLINT"               -> 5
      [] s = "INTEGER"                -> 10
      [] s = "BIGINT"                 -> 19
      [] s = "REAL"                   -> 7
      [] s \in {"FLOAT", "DOUBLE"}    -> 15
      [] s = "TYPE_DATE"              -> 10
      [] s = "TYPE_TIME"              -> 8
      [] s = "TYPE_TIMESTAMP"         -> 19
      [] s = "GUID"                   -> 36
      [] OTHER                        -> 0

SqlTypeTransferLength(s) ==
    CASE s \in LongTypes                        -> SqlMaxLength
      [] s \in {"BIT", "TINYINT", "TYPE_NULL"}  -> 1
      [] s = "SMALLINT"                         -> 2
      [] s \in {"INTEGER", "FLOAT", "REAL"}     -> 4
      [] s \in {"BIGINT", "DOUBLE"}             -> 8
      [] s \in {"TYPE_DATE", "TYPE_TIME"}       -> 6
      [] s \in {"TYPE_TIMESTAMP", "GUID"}       -> 16
      [] OTHER                                  -> 0

SqlTypeNumPrecRadix(s) ==
    CASE s \in {"REAL", "FLOAT", "DOUBLE"}                          -> 2
      [] s \in {"BIT", "TINYINT", "SMALLINT", "INTEGER", "BIGINT"}  -> 10
      [] OTHER                                                      -> 0

SqlTypeDecimalDigits(s) ==
    IF s \in {"TINYINT", "SMALLINT", "INTEGER", "BIGINT"} THEN 0 ELSE -1

SqlTypeCharOctetLength(s) ==
    CASE s \in CharTypes \cup {"BINARY", "LONGVARBINARY"} -> SqlMaxLength
      [] s \in WideTypes                                  -> WCharSize * SqlMaxLength
      [] OTHER                                            -> 0

SqlTypeUnsigned(s) ==
    s \notin {"BIT", "TINYINT", "SMALLINT", "INTEGER", "BIGINT", "REAL", "FLOAT",
              "DOUBLE", "DECIMAL", "NUMERIC"}

(* The function of an SQL type, for the SQL type of a JDBC type; none when *)
(* the type is not known.  It stands for BinaryTypeDisplaySize and the     *)
(* other functions of that shape.                                          *)
OfBinaryType(Op(_), t) == IF t = None THEN None ELSE Some(Op(BinaryToSqlType(t)[1]))

(* Nullability::ToSql *)
NullabilityToSql(n) ==
    CASE n = "NO_NULLS" -> 0 [] n = "NULLABLE" -> 1 [] OTHER -> 2

NullabilityToIsNullable(n) ==
    CASE n = Some("NO_NULLS") -> Some("NO")
      [] n = Some("NULLABLE") -> Some("YES")
      [] OTHER                -> None

-----------------------------------------------------------------------------
(***************************************************************************)
(* Columns of a result.  precision, scale and decimalDigits are optional;  *)
(* -1 means there is none as well.  nameLength stands for the name.        *)
(***************************************************************************)

CONSTANTS
    NameLengths,    \* the lengths of column names, in characters
    Nullabilities   \* the values of NULLABLE

(* Columns of a catalogue result, whose metadata the driver writes. *)
CatalogColumn(type, length) ==
    [type |-> Some(type), precision |-> Some(-1), decimalDigits |-> Some(-1),
     scale |-> Some(-1), nullability |-> Some("NULLABLE"), nameLength |-> length]

(* Columns of a data query: what the JDBC metadata has of it. *)
ReadJdbcMetadata(type, nullability, length) ==
    [type |-> type, precision |-> None, decimalDigits |-> None, scale |-> None,
     nullability |-> nullability, nameLength |-> length]

CatalogColumns ==
    {CatalogColumn(t, n) : t \in {"VARCHAR", "SMALLINT", "INTEGER"}, n \in NameLengths}

ColumnMetas ==
    CatalogColumns
    \cup {ReadJdbcMetadata(t, u, n) :
            t \in {None} \cup {Some(j) : j \in JdbcTypes},
            u \in {Some(v) : v \in Nullabilities}, n \in NameLengths}

Missing(v) == v = None \/ v = Some(-1)

OrMinusOne(v) == IF v = None THEN -1 ELSE v[1]

(* The attributes with an integer value, the type left out; -1 when there  *)
(* is nothing to say.                                                      *)
NumericAttribute(c, id) ==
    CASE id = "DISPLAY_SIZE" -> OrMinusOne(OfBinaryType(SqlTypeDisplaySize, c.type))
      [] id \in {"LENGTH", "OCTET_LENGTH"} ->
            OrMinusOne(OfBinaryType(SqlTypeTransferLength, c.type))
      [] id = "NUM_PREC_RADIX" -> OrMinusOne(OfBinaryType(SqlTypeNumPrecRadix, c.type))
      [] id = "FIXED_PREC_SCALE" ->
            IF Missing(c.precision) \/ Missing(c.scale) \/ c.scale = Some(0) THEN 0 ELSE 1
      [] id = "PRECISION" ->
            CASE c.type # None /\ ~Missing(c.decimalDigits)
                 /\ c.type[1] \in {"TIME", "DATE", "TIMESTAMP"} -> c.decimalDigits[1]
              [] c.type # None /\ Missing(c.precision) ->
                    OrMinusOne(OfBinaryType(SqlTypeColumnSize, c.type))
              [] OTHER -> OrMinusOne(c.precision)
      [] id = "SCALE" ->
            CASE c.type # None /\ ~Missing(c.decimalDigits)
                 /\ c.type[1] \in {"DECIMAL", "NUMERIC"} -> c.decimalDigits[1]
              [] c.type # None /\ Missing(c.scale) ->
                    OrMinusOne(OfBinaryType(SqlTypeDecimalDigits, c.type))
              [] OTHER -> OrMinusOne(c.scale)
      [] id = "UNSIGNED" -> IF c.type = None \/ ~SqlTypeUnsigned(BinaryToSqlType(c.type)[1])
                            THEN 0 ELSE 1
      [] id = "UNNAMED" -> IF c.nameLength > 0 THEN 0 ELSE 1
      [] id = "CASE_SENSITIVE" ->
            IF c.type # None /\ BinaryToSqlType(c.type)[1] \in CharTypes \cup WideTypes
            THEN 1 ELSE 0

NumericAttributes ==
    {"DISPLAY_SIZE", "LENGTH", "OCTET_LENGTH", "NUM_PREC_RADIX", "FIXED_PREC_SCALE",
     "PRECISION", "SCALE", "UNSIGNED", "UNNAMED", "CASE_SENSITIVE"}
=============================================================================
