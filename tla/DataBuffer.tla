----------------------------- MODULE DataBuffer -----------------------------
(***************************************************************************)
(* A buffer of the application (src/app/application_data_buffer.cpp): what *)
(* a Put writes through its two pointers, and what a Get makes of it.      *)
(*                                                                         *)
(* A number is counted in halves, so that a fraction can be lost; a moment *)
(* is a number of milliseconds since 1970.  The content of a buffer is     *)
(* what the application can read in it: a number, a text or bytes of a     *)
(* length, a date, a time, a timestamp; n is None where it is not          *)
(* determined.                                                             *)
(***************************************************************************)
EXTENDS Text, FiniteSets

CONSTANT
    Bits           \* the widths of char, short, int and int64_t, scaled down

(* The C types of numbers: the bytes they take and how they are cast. *)
IntType(c, signed, bytes) == [c |-> c, signed |-> signed, bytes |-> bytes]

Integers1 ==
    [SIGNED_TINYINT |-> IntType("char", TRUE, 1), BIT |-> IntType("char", FALSE, 1),
     UNSIGNED_TINYINT |-> IntType("char", FALSE, 1), SIGNED_SHORT |-> IntType("short", TRUE, 2),
     UNSIGNED_SHORT |-> IntType("short", FALSE, 2), SIGNED_LONG |-> IntType("int", TRUE, 4),
     UNSIGNED_LONG |-> IntType("int", FALSE, 4), SIGNED_BIGINT |-> IntType("big", TRUE, 8),
     UNSIGNED_BIGINT |-> IntType("big", FALSE, 8)]

Reals1 == [FLOAT |-> 4, DOUBLE |-> 8]

Structs == [TDATE |-> 6, TTIME |-> 6, TTIMESTAMP |-> 16, NUMERIC |-> 19, GUID |-> 16]

Texts1 == {"CHAR", "WCHAR", "BINARY"}

NativeTypes ==
    DOMAIN Integers1 \cup DOMAIN Reals1 \cup DOMAIN Structs \cup Texts1 \cup {"DEFAULT"}

(* The C++ types of the values that are put, as integer types. *)
KindType ==
    [int8 |-> IntType("char", TRUE, 1), int16 |-> IntType("short", TRUE, 2),
     int32 |-> IntType("int", TRUE, 4), int64 |-> IntType("big", TRUE, 8),
     uint64 |-> IntType("big", FALSE, 8)]

SizeOf(kind) ==
    IF kind \in DOMAIN KindType THEN KindType[kind].bytes ELSE IF kind = "float" THEN 4 ELSE 8

Wrap(n, type) ==
    LET m == n % 2 ^ Bits[type.c]
    IN  IF type.signed /\ 2 * m >= 2 ^ Bits[type.c] THEN m - 2 ^ Bits[type.c] ELSE m

Lowest(type) == IF type.signed THEN -(2 ^ (Bits[type.c] - 1)) ELSE 0

Highest(type) == Lowest(type) + 2 ^ Bits[type.c] - 1

(* operator>> of a stream: what does not fit becomes the limit. *)
Clamp(n, type) ==
    IF n < Lowest(type) THEN Lowest(type) ELSE IF n > Highest(type) THEN Highest(type) ELSE n

(* Division as C rounds it. *)
DivC(a, b) == IF a >= 0 THEN a \div b ELSE -((-a) \div b)

(* static_cast: an integer wraps; a floating point number loses its        *)
(* fraction, and one that does not fit has no defined result.              *)
StaticCast(v, type) ==
    LET whole == DivC(v.n, 2)
    IN  IF v.kind \in {"float", "double"} /\ Wrap(whole, type) # whole THEN None
        ELSE Some(2 * Wrap(whole, type))

-----------------------------------------------------------------------------
(***************************************************************************)
(* What a Put leaves behind.  reslen is None where nothing is written to   *)
(* the length; a crash is a null pointer dereferenced.                     *)
(***************************************************************************)

Content(as, n, len) == [as |-> as, n |-> n, len |-> len]

Nothing == Content("nothing", None, 0)

Put(result, content, bytes, reslen) ==
    [result |-> result, content |-> content, bytes |-> bytes, reslen |-> reslen]

Untouched(result) == Put(result, Nothing, 0, None)

(* Into the buffer if there is one, and the length if it is asked for. *)
Writes(buf, result, content, bytes, length) ==
    Put(result, IF buf.data THEN content ELSE Nothing, IF buf.data THEN bytes ELSE 0,
        IF buf.ind THEN Some(length) ELSE None)

WritesStruct(buf, result, content, type) ==
    IF buf.data THEN Writes(buf, result, content, Structs[type], Structs[type])
    ELSE Untouched("CRASH")

PutNumToNumBuffer(buf, v) ==
    IF buf.type \in DOMAIN Reals1
    THEN Writes(buf, "SUCCESS", Content("number", Some(v.n), 0), Reals1[buf.type], Reals1[buf.type])
    ELSE LET type == Integers1[buf.type]
         IN  Writes(buf, "SUCCESS", Content("number", StaticCast(v, type), 0),
                    type.bytes, type.bytes)

(* A text of so many characters.  Without a buffer, and in one too small   *)
(* for a character, the length is not written; else it is what was copied. *)
PutStrToStrBuffer(buf, charSize, n, chars) ==
    LET room   == buf.len \div charSize - 1
        copied == Least(chars, room)
    IN  CASE ~buf.data          -> Untouched("SUCCESS")
          [] buf.data /\ buf.len < charSize -> Untouched("VARLEN_DATA_TRUNCATED")
          [] OTHER -> Writes(buf, IF copied < chars THEN "VARLEN_DATA_TRUNCATED" ELSE "SUCCESS",
                             Content("text", IF copied < chars THEN None ELSE n, copied),
                             (copied + 1) * charSize, copied * charSize)

(* The characters of a number, with a sign and ".5". *)
Chars(n) ==
    LET whole == DivC(IF n < 0 THEN -n ELSE n, 2)
    IN  (IF n < 0 THEN 1 ELSE 0) + (IF whole < 10 THEN 1 ELSE IF whole < 100 THEN 2 ELSE 3)
            + (IF n % 2 = 1 THEN 2 ELSE 0)

PutValToStrBuffer(buf, charSize, n) == PutStrToStrBuffer(buf, charSize, Some(n), Chars(n))

PutRawDataToBuffer(buf, n, len) ==
    LET copied == Least(buf.len, len)
    IN  Writes(buf, IF copied < len THEN "VARLEN_DATA_TRUNCATED" ELSE "SUCCESS",
               Content("bytes", IF copied < len THEN None ELSE n, copied), copied, len)

PutNull(buf) ==
    IF buf.ind THEN Put("SUCCESS", Content("null", None, 0), 0, Some(-1))
    ELSE Untouched("INDICATOR_NEEDED")

-----------------------------------------------------------------------------
(***************************************************************************)
(* Moments.  gmtime takes the seconds, which are rounded towards 1970.     *)
(***************************************************************************)

Seconds(ms) == DivC(ms, 1000)

Day(s) == s \div 86400

OfDay(s) == s % 86400

(* A text made by strftime: in a buffer too small for it its content is    *)
(* not defined.  For wide characters the size in bytes is taken for a      *)
(* number of characters.                                                   *)
PutTimeText(buf, n, chars) ==
    LET fits  == chars + 1 <= buf.len
        width == IF buf.type = "WCHAR" THEN WCharSize ELSE 1
        used  == IF fits THEN chars + 1 ELSE buf.len
    IN  Writes(buf, IF fits THEN "SUCCESS" ELSE "VARLEN_DATA_TRUNCATED",
               Content("text", IF fits THEN Some(n) ELSE None, chars), used * width, chars)

(* A struct of each type, from the seconds. *)
PutTimeStruct(buf, s, fraction) ==
    CASE buf.type = "TDATE"      -> Content("date", Some(Day(s)), 0)
      [] buf.type = "TTIME"      -> Content("time", Some(OfDay(s)), 0)
      [] buf.type = "TTIMESTAMP" -> Content("timestamp", Some(s), fraction)

PutDate(buf, ms) ==
    LET s == Seconds(ms)
    IN  CASE buf.type \in {"CHAR", "WCHAR"} -> PutTimeText(buf, Day(s), 10)
          [] buf.type \in {"TDATE", "TTIME", "TTIMESTAMP"} ->
                WritesStruct(buf, "SUCCESS", PutTimeStruct(buf, s, 0), buf.type)
          [] OTHER -> Untouched("UNSUPPORTED_CONVERSION")

(* The timestamp is its seconds and a fraction of them; the fraction of a  *)
(* moment before 1970 is negative, and wraps in the unsigned field.        *)
PutTimestamp(buf, s, fraction) ==
    CASE buf.type \in {"CHAR", "WCHAR"} -> PutTimeText(buf, s, 19)
      [] buf.type \in {"TDATE", "TTIME"} ->
            WritesStruct(buf, "FRACTIONAL_TRUNCATED", PutTimeStruct(buf, s, 0), buf.type)
      [] buf.type = "TTIMESTAMP" ->
            WritesStruct(buf, "SUCCESS", PutTimeStruct(buf, s, fraction), buf.type)
      [] OTHER -> Untouched("UNSUPPORTED_CONVERSION")

PutTime(buf, ms) ==
    LET s == Seconds(ms)
    IN  CASE buf.type \in {"CHAR", "WCHAR"} -> PutTimeText(buf, OfDay(s), 8)
          [] buf.type \in {"TTIME", "TTIMESTAMP"} ->
                WritesStruct(buf, "SUCCESS", PutTimeStruct(buf, s, 0), buf.type)
          [] OTHER -> Untouched("UNSUPPORTED_CONVERSION")

Timestamp(ms) == [s |-> Seconds(ms), fraction |-> ms - 1000 * Seconds(ms)]

-----------------------------------------------------------------------------
(***************************************************************************)
(* The Puts of values.                                                     *)
(***************************************************************************)

PutNum(buf, v) ==
    LET whole == DivC(v.n, 2)
        bytes == SizeOf(v.kind)
    IN  CASE buf.type \in DOMAIN Integers1 \cup DOMAIN Reals1 -> PutNumToNumBuffer(buf, v)
          [] buf.type = "CHAR"    -> PutValToStrBuffer(buf, 1, v.n)
          [] buf.type = "WCHAR"   -> PutValToStrBuffer(buf, WCharSize, v.n)
          [] buf.type = "NUMERIC" ->
                Writes(buf, "SUCCESS", Content("number", Some(2 * whole), 0), 19, 19)
          [] buf.type \in {"BINARY", "DEFAULT"} ->
                Writes(buf, IF buf.len < bytes THEN "VARLEN_DATA_TRUNCATED" ELSE "SUCCESS",
                       Content("number", IF buf.len < bytes THEN None ELSE Some(v.n), 0),
                       Least(bytes, buf.len), bytes)
          [] buf.type = "TDATE"      -> PutDate(buf, whole)
          [] buf.type = "TTIMESTAMP" -> PutTimestamp(buf, Timestamp(whole).s, Timestamp(whole).fraction)
          [] buf.type = "TTIME"      -> PutTime(buf, whole)
          [] OTHER -> Untouched("UNSUPPORTED_CONVERSION")

(* PutInt8, PutInt16, PutInt32, PutInt64, PutFloat, PutDouble of an        *)
(* optional.                                                               *)
PutOptional(buf, v) == IF v = None THEN PutNull(buf) ELSE PutNum(buf, v[1])

(* From a text that is no number a stream reads 0. *)
PutString(buf, text) ==
    LET n == IF text.n = None THEN 0 ELSE text.n[1]
    IN  CASE buf.type \in DOMAIN Integers1 \cup {"NUMERIC"} ->
                PutNum(buf, [kind |-> "int64", n |-> 2 * Clamp(DivC(n, 2), KindType["int64"])])
          [] buf.type \in DOMAIN Reals1 -> PutNum(buf, [kind |-> "double", n |-> n])
          [] buf.type \in {"CHAR", "BINARY", "DEFAULT"} ->
                PutStrToStrBuffer(buf, 1, text.n, text.chars)
          [] buf.type = "WCHAR" -> PutStrToStrBuffer(buf, WCharSize, text.n, text.chars)
          [] OTHER -> Untouched("UNSUPPORTED_CONVERSION")

(* As text, two digits for a byte. *)
PutBinaryData(buf, n, len) ==
    CASE buf.type \in {"BINARY", "DEFAULT"} -> PutRawDataToBuffer(buf, Some(n), len)
      [] buf.type = "CHAR"  -> PutStrToStrBuffer(buf, 1, Some(n), 2 * len)
      [] buf.type = "WCHAR" -> PutStrToStrBuffer(buf, WCharSize, Some(n), 2 * len)
      [] OTHER -> Untouched("UNSUPPORTED_CONVERSION")

(* A number in an integer or a floating point buffer always tells of a     *)
(* fraction that was lost.  SetScale leaves its result alone when the      *)
(* scale is 0 already, so that the structure then holds the zero it had    *)
(* (BigInteger has the numbers themselves).                                *)
PutDecimal(buf, n, scale) ==
    CASE buf.type \in DOMAIN Integers1 ->
            [PutNum(buf, [kind |-> "int64", n |-> 2 * DivC(n, 2)])
                EXCEPT !.result = "FRACTIONAL_TRUNCATED"]
      [] buf.type \in DOMAIN Reals1 ->
            [PutNum(buf, [kind |-> "double", n |-> n]) EXCEPT !.result = "FRACTIONAL_TRUNCATED"]
      [] buf.type \in {"CHAR", "WCHAR"} -> PutString(buf, [n |-> Some(n), chars |-> Chars(n)])
      [] buf.type = "NUMERIC" ->
            WritesStruct(buf, "SUCCESS", Content("number", Some(IF scale = 0 THEN 0 ELSE 2 * DivC(n, 2)), 0),
                         "NUMERIC")
      [] OTHER -> Untouched("UNSUPPORTED_CONVERSION")

-----------------------------------------------------------------------------
(***************************************************************************)
(* Elements of an array of buffers.                                        *)
(***************************************************************************)

GetElementSize(buf) ==
    CASE buf.type \in Texts1            -> buf.len
      [] buf.type \in DOMAIN Integers1  -> Integers1[buf.type].bytes
      [] buf.type \in DOMAIN Reals1     -> Reals1[buf.type]
      [] buf.type \in DOMAIN Structs    -> Structs[buf.type]
      [] OTHER                          -> 0

(* Where the element is: GetData. *)
ApplyOffset(buf, byteOffset, elementOffset) == byteOffset + GetElementSize(buf) * elementOffset

(* The length word of a parameter: SQL_NTS, SQL_NULL_DATA, a length, or a  *)
(* promise of data at execution.                                           *)
NTSL == -3

NullData == -1

AtExecOffset == -100

IsDataAtExec(buf) ==
    buf.ind /\ (buf.length <= AtExecOffset \/ buf.length = -2)

GetDataAtExecSize(buf) ==
    LET promised == IF buf.length <= AtExecOffset THEN AtExecOffset - buf.length ELSE 0
    IN  CASE buf.type \in Texts1 -> IF ~buf.ind THEN 0
                                    ELSE IF buf.type = "WCHAR" THEN 2 * promised ELSE promised
          [] buf.type \in {"SIGNED_LONG", "UNSIGNED_LONG"} -> 8
          [] buf.type = "DEFAULT" -> 0
          [] OTHER -> GetElementSize(buf)

GetInputSize(buf) ==
    IF IsDataAtExec(buf) THEN GetDataAtExecSize(buf) ELSE IF buf.ind THEN buf.length ELSE NTSL

-----------------------------------------------------------------------------
(***************************************************************************)
(* The Gets, of a buffer that holds a content.                             *)
(***************************************************************************)

(* A long is read as 8 bytes, of which its element has 4. *)
Longs == {"SIGNED_LONG", "UNSIGNED_LONG"}

(* A stream reads a char as a short. *)
Streamed(n, kind) ==
    IF kind = "int8" THEN Wrap(Clamp(n, KindType["int16"]), KindType[kind])
    ELSE Clamp(n, KindType[kind])

GetNum(buf, content, kind) ==
    LET read  == IF content.n = None THEN 0 ELSE content.n[1]
        whole == DivC(read, 2)
        asInt == kind \in DOMAIN KindType
    IN  CASE buf.type \in {"CHAR", "WCHAR"} /\ GetInputSize(buf) = 0 -> Some(0)
          [] buf.type \in Longs /\ kind \notin {"int8", "int16", "int32"} -> None
          [] OTHER ->
                IF buf.type \notin DOMAIN Integers1 \cup DOMAIN Reals1 \cup {"CHAR", "WCHAR", "NUMERIC"}
                THEN Some(0)
                ELSE IF content.n = None THEN None
                ELSE CASE buf.type \in {"CHAR", "WCHAR"} ->
                             Some(IF asInt THEN 2 * Streamed(whole, kind) ELSE read)
                       [] buf.type \in DOMAIN Integers1 \cup {"NUMERIC"} ->
                             Some(2 * IF asInt THEN Wrap(whole, KindType[kind]) ELSE whole)
                       [] OTHER -> IF asInt THEN StaticCast([kind |-> "double", n |-> read], KindType[kind])
                                   ELSE Some(read)

(* The characters of the text, at most maxLen. *)
GetString(buf, content, maxLen) ==
    LET size == GetInputSize(buf)
        num  == GetNum(buf, content, IF buf.type \notin DOMAIN Integers1 THEN "double"
                                     ELSE IF Integers1[buf.type].signed THEN "int64" ELSE "uint64")
        take == IF size = NTSL THEN content.len ELSE Least(content.len,
                    IF buf.type = "WCHAR" THEN size \div WCharSize ELSE size)
    IN  CASE buf.type \in {"CHAR", "WCHAR"} -> IF size = 0 THEN 0 ELSE Least(take, maxLen)
          [] buf.type \in DOMAIN Integers1 \cup DOMAIN Reals1 \cup {"NUMERIC"} ->
                IF num = None THEN 0 ELSE Chars(num[1])
          [] OTHER -> 0

(* The last of the eight bytes replaces the others; a text is read whole.  *)
GetGuid(buf, content) ==
    IF buf.type \in {"CHAR", "WCHAR"} /\ GetInputSize(buf) # 0 THEN content.n
    ELSE IF buf.type = "GUID" THEN None ELSE Some(0)

(* The seconds a date, a timestamp and a time are made of.  A time counts  *)
(* from 1970; any other type, and no text, gives the day before 1900,      *)
(* which is further back than this number of seconds.                      *)
NoDay == -2000000000

MidnightOf(day) == IF day = None THEN None ELSE Some(86400 * day[1])

GetDate(buf, content) ==
    CASE buf.type = "TDATE"      -> MidnightOf(content.n)
      [] buf.type \in {"TTIME", "TTIMESTAMP"} -> content.n
      [] buf.type \in {"CHAR", "WCHAR"} /\ GetInputSize(buf) # 0 -> content.n
      [] OTHER -> Some(NoDay)

GetTimestamp(buf, content) ==
    [s |-> CASE buf.type = "TDATE" -> MidnightOf(content.n)
             [] buf.type \in {"TTIME", "TTIMESTAMP"} -> content.n
             [] buf.type \in {"CHAR", "WCHAR"} /\ GetInputSize(buf) # 0 -> content.n
             [] OTHER -> Some(NoDay),
     fraction |-> IF buf.type = "TTIMESTAMP" THEN content.len ELSE 0]

GetTime(buf, content) ==
    CASE buf.type = "TTIME"      -> content.n
      [] buf.type = "TTIMESTAMP" -> IF content.n = None THEN None ELSE Some(OfDay(content.n[1]))
      [] buf.type \in {"CHAR", "WCHAR"} /\ GetInputSize(buf) # 0 -> content.n
      [] OTHER -> Some(0)

GetDecimal(buf, content) ==
    CASE buf.type \in {"CHAR", "WCHAR"} -> IF GetInputSize(buf) = 0 THEN Some(0) ELSE content.n
      [] buf.type \in DOMAIN Integers1  ->
            GetNum(buf, content, IF Integers1[buf.type].signed \/ buf.type = "BIT" THEN "int64"
                                 ELSE "uint64")
      [] buf.type \in DOMAIN Reals1     -> GetNum(buf, content, "double")
      [] buf.type = "NUMERIC"           -> content.n
      [] OTHER                          -> Some(0)
=============================================================================
