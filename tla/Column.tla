------------------------------- MODULE Column -------------------------------
(***************************************************************************)
(* A column of a result on its way into the application's buffers          *)
(* (src/documentdb_column.cpp), and a parameter on its way out of them     *)
(* (src/app/parameter.cpp).                                                *)
(*                                                                         *)
(* An element of a document has a BSON type and a value: a number, a       *)
(* moment in milliseconds, or a text, which is a number or is not; stoll   *)
(* is what std::stoll makes of it, which takes "010" for 8 and "1E+1" for  *)
(* 1.  A column is bound once, and its rows are elements of an array.      *)
(***************************************************************************)
EXTENDS DataBuffer, Sequences

CONSTANTS
    Buffers,       \* the buffers that are bound
    Columns,       \* the JDBC types of the column
    RowElements,   \* for each row of a fetch, the elements it may have
    SqlKinds       \* the SQL types of the parameters

VARIABLES
    bound,         \* the buffer
    column,        \* the JDBC type of the column
    rows,          \* the rows fetched: element, place, result and what was put
    written        \* what was written of the buffer as a parameter

columnVars == <<bound, column, rows, written>>

Null == "k_null"

(* The conversion, and what it put. *)
Read(conv, put) == [conv |-> conv, put |-> put]

NotRead(conv) == Read(conv, Untouched(conv))

-----------------------------------------------------------------------------
(***************************************************************************)
(* Integers.  What dataBuf.Put... returns is dropped.                      *)
(***************************************************************************)

(* A value that does not fit is a failure. *)
ToValidLong(n, type) ==
    IF n # None /\ DivC(n[1], 2) \in Lowest(type)..Highest(type) THEN n ELSE None

(* From a text: one std::stoll refuses is a failure, too. *)
ToValidLongText(e, type) == ToValidLong(e.stoll, type)

(* The limit a double is compared with is the int64_t one rounded up. *)
DoubleLimit(kind) == Highest(KindType[kind]) + (IF kind = "int64" THEN 1 ELSE 0)

FromDouble(e, kind) ==
    IF e.n[1] > 2 * DoubleLimit(kind) \/ e.n[1] < 2 * Lowest(KindType[kind]) THEN None
    ELSE Some(StaticCast([kind |-> "double", n |-> e.n[1]], KindType[kind]))

PutValue(buf, kind, n) ==
    Read("SUCCESS", PutOptional(buf, IF n = None THEN None ELSE Some([kind |-> kind, n |-> n[1]])))

(* A value or a failure. *)
PutValid(buf, kind, n) == IF n = None THEN NotRead("FAILURE") ELSE PutValue(buf, kind, n)

(* A double that has no defined value as an integer is any number. *)
PutCast(buf, kind, n) ==
    IF n = None THEN NotRead("FAILURE")
    ELSE IF n[1] # None THEN PutValue(buf, kind, n[1])
    ELSE [PutValue(buf, kind, Some(0)) EXCEPT !.put.content.n = None]

PutInt8(buf, e) ==
    LET type == KindType["int8"]
    IN  CASE e.type \in {"k_int32", "k_int64"} -> PutValid(buf, "int8", ToValidLong(e.n, type))
          [] e.type = "k_double" ->
                PutCast(buf, "int8", IF FromDouble(e, "int8") = None THEN None
                                     ELSE Some(Some(IF e.n[1] = 0 THEN 0 ELSE 2)))
          [] e.type \in {"k_decimal128", "k_utf8"} ->
                PutValid(buf, "int8", ToValidLongText(e, type))
          [] e.type = "k_bool" -> PutValue(buf, "int8", e.n)
          [] e.type = Null     -> PutValue(buf, "int8", None)
          [] OTHER             -> NotRead("UNSUPPORTED_CONVERSION")

(* The moments are cast to the type. *)
PutMoment(buf, kind, n) ==
    PutValue(buf, kind, Some(2 * Wrap(n, KindType[kind])))

PutInt16(buf, e) ==
    LET type == KindType["int16"]
    IN  CASE e.type \in {"k_int32", "k_int64"} -> PutValid(buf, "int16", ToValidLong(e.n, type))
          [] e.type = "k_double" -> PutCast(buf, "int16", FromDouble(e, "int16"))
          [] e.type \in {"k_decimal128", "k_utf8"} ->
                PutValid(buf, "int16", ToValidLongText(e, type))
          [] e.type = "k_bool"      -> PutValue(buf, "int16", e.n)
          [] e.type = "k_date"      -> PutMoment(buf, "int16", e.ms)
          [] e.type = "k_timestamp" -> PutMoment(buf, "int16", Seconds(e.ms))
          [] e.type = Null          -> PutValue(buf, "int16", None)
          [] OTHER                  -> NotRead("UNSUPPORTED_CONVERSION")


PutInt32(buf, e) ==
    LET type == KindType["int32"]
    IN  CASE e.type = "k_int32"  -> PutValue(buf, "int32", e.n)
          [] e.type = "k_int64"  -> PutValid(buf, "int32", ToValidLong(e.n, type))
          [] e.type = "k_double" -> PutCast(buf, "int32", FromDouble(e, "int32"))
          [] e.type \in {"k_decimal128", "k_utf8"} ->
                PutValid(buf, "int32", ToValidLongText(e, type))
          [] e.type = "k_bool"      -> PutValue(buf, "int32", e.n)
          [] e.type = "k_date"      -> PutMoment(buf, "int32", e.ms)
          [] e.type = "k_timestamp" -> PutMoment(buf, "int32", Seconds(e.ms))
          [] e.type = Null          -> PutValue(buf, "int32", None)
          [] OTHER                  -> NotRead("UNSUPPORTED_CONVERSION")

PutInt64(buf, e) ==
    LET type == KindType["int64"]
    IN  CASE e.type \in {"k_int32", "k_int64"} -> PutValue(buf, "int64", e.n)
          [] e.type = "k_double" -> PutCast(buf, "int64", FromDouble(e, "int64"))
          [] e.type \in {"k_decimal128", "k_utf8"} ->
                PutValid(buf, "int64", ToValidLongText(e, type))
          [] e.type = "k_bool"      -> PutValue(buf, "int64", e.n)
          [] e.type = "k_date"      -> PutMoment(buf, "int64", e.ms)
          [] e.type = "k_timestamp" -> PutMoment(buf, "int64", Seconds(e.ms))
          [] e.type = Null          -> PutValue(buf, "int64", None)
          [] OTHER                  -> NotRead("UNSUPPORTED_CONVERSION")

-----------------------------------------------------------------------------
(***************************************************************************)
(* Other types.                                                            *)
(***************************************************************************)

(* std::stof and std::stod throw at a text that is no number; nobody       *)
(* catches it.                                                             *)
PutFloat(buf, e) ==
    CASE e.type \in {"k_int32", "k_int64", "k_double", "k_bool"} -> PutValue(buf, "float", e.n)
      [] e.type \in {"k_decimal128", "k_utf8"} ->
            IF e.n = None THEN NotRead("EXCEPTION") ELSE PutValue(buf, "float", e.n)
      [] e.type = "k_date"      -> PutValue(buf, "float", Some(2 * e.ms))
      [] e.type = "k_timestamp" -> PutValue(buf, "float", Some(2 * Seconds(e.ms)))
      [] e.type = Null          -> PutValue(buf, "float", None)
      [] OTHER                  -> NotRead("UNSUPPORTED_CONVERSION")

PutDouble(buf, e) ==
    CASE e.type \in {"k_int32", "k_int64", "k_double", "k_bool"} -> PutValue(buf, "double", e.n)
      [] e.type \in {"k_decimal128", "k_utf8"} ->
            IF e.n = None THEN NotRead("EXCEPTION") ELSE PutValue(buf, "double", e.n)
      [] e.type = "k_date"      -> PutValue(buf, "double", Some(2 * e.ms))
      [] e.type = "k_timestamp" -> PutValue(buf, "double", Some(2 * Seconds(e.ms)))
      [] e.type = Null          -> PutValue(buf, "double", None)
      [] OTHER                  -> NotRead("UNSUPPORTED_CONVERSION")

(* The text of an element: std::to_string writes six decimals, the moments *)
(* are written to the second, a binary takes two digits a byte.            *)
TextOf(e) ==
    CASE e.type \in {"k_int32", "k_int64", "k_bool"} -> [n |-> e.n, chars |-> Chars(e.n[1])]
      [] e.type = "k_double" -> [n |-> e.n, chars |-> Chars(2 * DivC(e.n[1], 2)) + 7]
      [] e.type \in {"k_date", "k_timestamp"} -> [n |-> None, chars |-> 19]
      [] e.type = "k_binary" -> [n |-> None, chars |-> 2 * e.len]
      [] e.type = "k_oid"    -> [n |-> None, chars |-> 24]
      [] e.type \in {"k_maxkey", "k_minkey"} -> [n |-> None, chars |-> 6]
      [] OTHER -> [n |-> e.n, chars |-> e.len]

PutStringOf(buf, e) ==
    CASE e.type = Null        -> Read("SUCCESS", PutNull(buf))
      [] e.type = "k_regex" -> NotRead("UNSUPPORTED_CONVERSION")
      [] OTHER                -> Read("SUCCESS", PutString(buf, TextOf(e)))

(* The decimal places of the text an element is read from: of a double     *)
(* std::to_string writes six, an exponent ("1E+1") makes them negative.    *)
ScaleOf(e) ==
    CASE e.type = "k_double" -> 6
      [] e.type # "k_double" /\ e.n # None /\ e.n[1] % 2 = 1 -> 1
      [] e.type = "k_decimal128" /\ e.n[1] % 2 = 0 /\ e.stoll # e.n -> -1
      [] OTHER -> 0

(* Null is not among the types. *)
PutDecimalOf(buf, e) ==
    IF e.type \in {"k_int32", "k_int64", "k_double", "k_decimal128", "k_utf8", "k_bool"}
    THEN Read("SUCCESS", PutDecimal(buf, IF e.n = None THEN 0 ELSE e.n[1], ScaleOf(e)))
    ELSE NotRead("UNSUPPORTED_CONVERSION")

PutTimeOf(buf, e) ==
    CASE e.type = "k_int64" -> Read("SUCCESS", PutTime(buf, DivC(e.n[1], 2)))
      [] e.type \in {"k_date", "k_timestamp"} -> Read("SUCCESS", PutTime(buf, e.ms))
      [] OTHER -> NotRead("UNSUPPORTED_CONVERSION")

(* The case of an int64 ends before its value is taken. *)
PutDateOf(buf, e) ==
    CASE e.type = "k_int64" -> Read("SUCCESS", PutNull(buf))
      [] e.type \in {"k_date", "k_timestamp"} -> Read("SUCCESS", PutDate(buf, e.ms))
      [] OTHER -> NotRead("UNSUPPORTED_CONVERSION")

PutTimestampOf(buf, e) ==
    LET t == Timestamp(IF e.type = "k_int64" THEN DivC(e.n[1], 2) ELSE e.ms)
    IN  IF e.type \in {"k_int64", "k_date", "k_timestamp"}
        THEN Read("SUCCESS", PutTimestamp(buf, t.s, t.fraction))
        ELSE NotRead("UNSUPPORTED_CONVERSION")

(* The bytes of a text are those of a string that is gone by then.  Here   *)
(* the result of the Put is the result.                                    *)
PutBinaryDataOf(buf, e) ==
    LET put == CASE e.type = "k_utf8"   -> [PutBinaryData(buf, 0, e.len) EXCEPT !.content.n = None]
                 [] e.type = "k_binary" -> PutBinaryData(buf, e.n[1], e.len)
                 [] e.type = "k_oid"    -> PutBinaryData(buf, e.n[1], 12)
                 [] e.type = Null       -> PutNull(buf)
                 [] OTHER               -> Untouched("UNSUPPORTED_CONVERSION")
    IN  Read(put.result, put)

TextColumns == {"VARCHAR", "CHAR", "NCHAR", "NVARCHAR", "LONGVARCHAR", "LONGNVARCHAR"}

ReadToBuffer(buf, type, e) ==
    IF e.type = "missing" THEN Read("SUCCESS", PutNull(buf))
    ELSE CASE type \in {"BOOLEAN", "SMALLINT"} -> PutInt8(buf, e)
           [] type = "TINYINT"   -> PutInt16(buf, e)
           [] type = "INTEGER"   -> PutInt32(buf, e)
           [] type = "BIGINT"    -> PutInt64(buf, e)
           [] type = "FLOAT"     -> PutFloat(buf, e)
           [] type = "DOUBLE"    -> PutDouble(buf, e)
           [] type \in TextColumns -> PutStringOf(buf, e)
           [] type = "NULL"      -> Read(PutNull(buf).result, PutNull(buf))
           [] type \in {"BINARY", "VARBINARY"} -> PutBinaryDataOf(buf, e)
           [] type = "DECIMAL"   -> PutDecimalOf(buf, e)
           [] type = "DATE"      -> PutDateOf(buf, e)
           [] type = "TIMESTAMP" -> PutTimestampOf(buf, e)
           [] type = "TIME"      -> PutTimeOf(buf, e)
           [] OTHER              -> NotRead("UNSUPPORTED_CONVERSION")

-----------------------------------------------------------------------------
(***************************************************************************)
(* Parameters.                                                             *)
(***************************************************************************)

(* What is written for the server: its type and its value. *)
Object(kind, n) == [kind |-> kind, n |-> n]

Numbers ==
    [SMALLINT |-> "int16", INTEGER |-> "int32", FLOAT |-> "float", DOUBLE |-> "double",
     TINYINT |-> "int8", BIGINT |-> "int64"]

(* Parameter::Write, for a buffer with a content, or with the data stored  *)
(* at execution.                                                           *)
Write(buf, content, stored, columnSize, sqlType) ==
    LET atExec == IsDataAtExec(buf)
        from   == IF atExec THEN [buf EXCEPT !.len = stored.len, !.length = stored.len] ELSE buf
        held   == IF atExec THEN stored ELSE content
    IN  IF GetInputSize(buf) = NullData THEN Object("null", None)
        ELSE CASE sqlType = "VARCHAR" -> Object("string", Some(GetString(from, held, columnSize)))
               [] sqlType \in DOMAIN Numbers ->
                     Object(Numbers[sqlType], GetNum(from, held, Numbers[sqlType]))
               [] sqlType = "BIT" ->
                     LET n == GetNum(from, held, "int8")
                     IN  Object("bool", IF n = None THEN None ELSE Some(IF n[1] = 0 THEN 0 ELSE 2))
               [] sqlType = "TYPE_DATE"      -> Object("date", GetDate(from, held))
               [] sqlType = "TYPE_TIMESTAMP" -> Object("timestamp", GetTimestamp(from, held).s)
               [] sqlType = "TYPE_TIME"      -> Object("time", GetTime(from, held))
               [] sqlType = "VARBINARY" ->
                     IF from.ind THEN Object("bytes", Some(from.length)) ELSE Object("nothing", None)
               [] sqlType = "GUID"    -> Object("guid", GetGuid(from, held))
               [] sqlType = "DECIMAL" -> Object("decimal", GetDecimal(from, held))
               [] OTHER               -> Object("nothing", None)

-----------------------------------------------------------------------------
(***************************************************************************)
(* The rows of a fetch, and the buffer of the last one as a parameter.     *)
(***************************************************************************)

NotWrittenYet == Object("none", None)

ColumnInit ==
    /\ bound \in Buffers
    /\ column \in Columns
    /\ rows = <<>>
    /\ written = NotWrittenYet

RowOf(e, read) ==
    [element |-> e, at |-> ApplyOffset(bound, 0, Len(rows)), conv |-> read.conv, put |-> read.put]

FetchRow(e) ==
    /\ written = NotWrittenYet
    /\ rows' = Append(rows, RowOf(e, ReadToBuffer(bound, column, e)))
    /\ UNCHANGED <<bound, column, written>>

Last1 == rows[Len(rows)]

(* The length word is what the last row left there. *)
WriteParameter(sqlType) ==
    /\ rows # <<>> /\ written = NotWrittenYet
    /\ Last1.conv = "SUCCESS" /\ Last1.put.result = "SUCCESS"
    /\ Last1.put.content.as # "nothing"
    /\ written' = Write([bound EXCEPT !.length = IF Last1.put.reslen = None THEN 0
                                                 ELSE Last1.put.reslen[1]],
                        Last1.put.content, Nothing, 255, sqlType)
    /\ UNCHANGED <<bound, column, rows>>

ColumnNext ==
    \/ Len(rows) < Len(RowElements) /\ \E e \in RowElements[Len(rows) + 1] : FetchRow(e)
    \/ \E sqlType \in SqlKinds : WriteParameter(sqlType)

-----------------------------------------------------------------------------
(* The types of buffers a column is meant for, and of parameters. *)
OwnBuffers ==
    [TINYINT |-> {"SIGNED_SHORT", "SIGNED_LONG", "SIGNED_BIGINT"},
     INTEGER |-> {"SIGNED_LONG", "SIGNED_BIGINT"}, BIGINT |-> {"SIGNED_BIGINT"},
     BOOLEAN |-> {"BIT", "SIGNED_TINYINT", "SIGNED_SHORT"},
     FLOAT |-> {"FLOAT", "DOUBLE"}, DOUBLE |-> {"DOUBLE"}]

Integral == {"TINYINT", "INTEGER", "BIGINT", "BOOLEAN"}

Moments == {"k_date", "k_timestamp"}

(* A text that std::stoll reads otherwise than it is meant, a double at    *)
(* the rounded limit, and a moment cut to an integer.                      *)
Misread(e) ==
    \/ column \in Integral /\ e.type \in {"k_utf8", "k_decimal128"}
          /\ e.stoll # (IF e.n = None THEN None ELSE Some(2 * DivC(e.n[1], 2)))
    \/ column = "BIGINT" /\ e.type = "k_double" /\ e.n[1] = 2 * DoubleLimit("int64")
    \/ column \in {"TINYINT", "INTEGER", "BIGINT"} /\ e.type \in Moments

(* The number an element is in the column. *)
Meaning(e) ==
    CASE e.type \in Moments -> 2 * IF e.type = "k_date" THEN e.ms ELSE Seconds(e.ms)
      [] column = "BOOLEAN" /\ e.type = "k_double" -> IF e.n[1] = 0 THEN 0 ELSE 2
      [] column \in Integral -> 2 * DivC(e.n[1], 2)
      [] OTHER -> e.n[1]

Absent == {"missing", Null}

NumberColumns == DOMAIN OwnBuffers

(* Whether a buffer's type has the number: an integer type has those of    *)
(* its width and drops a fraction, a floating point type has all.          *)
Holds(type, n) ==
    type \in DOMAIN Reals1
        \/ DivC(n, 2) \in Lowest(Integers1[type])..Highest(Integers1[type])

(* A number is a row's own only where the buffer's type has it.  What does *)
(* not fit the column is an error, never another number, and a buffer that *)
(* is as wide as its column always holds the number of the document.  A    *)
(* narrower or an unsigned buffer holds it if it can; if not, the low bits *)
(* of an integer are delivered as a success, and no defined number of a    *)
(* double (PutInt8 ... PutDouble, PutNumToNumBuffer).                      *)
SuccessIsTheNumber ==
    \A i \in DOMAIN rows :
        LET r == rows[i]
            n == Meaning(r.element)
        IN  /\ r.conv = "SUCCESS" /\ r.element.type \notin Absent
            /\ column \in NumberColumns /\ bound.data
            /\ bound.type \in DOMAIN Integers1 \cup DOMAIN Reals1
            /\ ~Misread(r.element)
            => /\ bound.type \in OwnBuffers[column] /\ bound.type # "BIT" => Holds(bound.type, n)
               /\ Holds(bound.type, n) =>
                     r.put.content.n = Some(IF bound.type \in DOMAIN Reals1 THEN n ELSE 2 * DivC(n, 2))
               /\ ~Holds(bound.type, n) =>
                     IF column \in Integral
                     THEN (r.put.content.n[1] - n) % 2 ^ (Bits[Integers1[bound.type].c] + 1) = 0
                     ELSE r.put.content.n = None

(* With an indicator, a row is told to be null exactly when its element is *)
(* missing or null, whatever the types; but for an int64 in a column of    *)
(* dates, and for the columns that refuse null (PutNull, ReadToBuffer).    *)
NullIsTold ==
    \A i \in DOMAIN rows :
        LET r == rows[i] IN
            bound.ind /\ r.conv = "SUCCESS" /\ column # "NULL"
                /\ ~(column = "DATE" /\ r.element.type = "k_int64")
            => (r.put.reslen = Some(NullData)) = (r.element.type \in Absent)

(* The rows of a fetch lie apart: what is written for one is in its own    *)
(* element of the array, so that a later row leaves the earlier ones alone *)
(* (GetElementSize, ApplyOffset).  SQL_C_DEFAULT has no size, and the size *)
(* of a wide text of a moment is taken in the wrong unit.                  *)
RowsLieApart ==
    bound.type # "DEFAULT"
        /\ ~(bound.type = "WCHAR" /\ column \in {"DATE", "TIME", "TIMESTAMP"}) =>
        \A i \in DOMAIN rows :
            /\ rows[i].at = (i - 1) * GetElementSize(bound)
            /\ rows[i].put.bytes <= GetElementSize(bound)

(* The second a moment is in, and the one it is delivered as: before 1970  *)
(* a moment within a second is taken for the next second.                  *)
SecondOf(ms) == ms \div 1000

DeliveredSecond(ms) == SecondOf(ms) + (IF ms < 0 /\ ms % 1000 # 0 THEN 1 ELSE 0)

(* A moment is delivered in every structure that takes it.  A date is its  *)
(* day, a time its time of day, a timestamp its second and, of a column of *)
(* timestamps, its millisecond.  From 1970 on these are exact; before, the *)
(* second is the next one, which may be of the next day, and the fraction  *)
(* counts back from it (PutDate, PutTime, PutTimestamp, Date, Timestamp).  *)
MomentIsKept ==
    \A i \in DOMAIN rows :
        LET r == rows[i]
            s == DeliveredSecond(r.element.ms)
            n == r.put.content.n
        IN  /\ r.conv = "SUCCESS" /\ r.element.type \in Moments /\ bound.data
            /\ column \in {"DATE", "TIME", "TIMESTAMP"}
            => /\ bound.type = "TDATE" /\ column # "TIME" => n = Some(Day(s))
               /\ bound.type = "TTIME" => n = Some(OfDay(s))
               /\ bound.type = "TTIMESTAMP" =>
                     /\ n = Some(s)
                     /\ column = "TIMESTAMP" =>
                           /\ 1000 * s + r.put.content.len = r.element.ms
                           /\ (r.put.content.len \in 0..999) = (s = SecondOf(r.element.ms))

GivenAs == [INTEGER |-> "INTEGER", BIGINT |-> "BIGINT", TINYINT |-> "SMALLINT",
            FLOAT |-> "FLOAT", DOUBLE |-> "DOUBLE"]

(* A number that was fetched into a buffer and is given back from the same *)
(* buffer as a parameter of its type is the same number, in a number or in *)
(* a text, and null is null; but for a long given as a BIGINT, which is    *)
(* read with the bytes behind it (Parameter::Write, GetNum).               *)
ParameterIsGivenBack ==
    written # NotWrittenYet =>
        /\ (written.kind = "null") = (bound.ind /\ Last1.put.reslen = Some(NullData))
        /\ column \in DOMAIN GivenAs /\ bound.ind /\ written.kind = Numbers[GivenAs[column]]
              /\ bound.type \in OwnBuffers[column] \cup {"CHAR", "WCHAR"}
            => written.n = Last1.put.content.n
=============================================================================
