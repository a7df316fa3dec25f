-------------------------- MODULE InterfaceProofs --------------------------
(***************************************************************************)
(* Api, for names and texts of any lengths and any buffers; Info, for any  *)
(* settings, versions and order of connections; Catalog, for any answers.  *)
(***************************************************************************)
EXTENDS Api, Info, Catalog, TLAPS

(* What is to be shown of a call, whatever it is. *)
CallIsSound ==
    /\ last.ret \in Codes \cup {"INVALID_HANDLE"}
    /\ OutputsDefined
    /\ CutIsReturned /\ TextFits /\ AskedLengthSuffices
    /\ NullPatternIsAny /\ ExtendedFetchCounts
    /\ DescribedTypeIsSupported

(* The functions the properties single out. *)
Singled ==
    {"SQLDescribeCol", "SQLNativeSql", "SQLDriverConnect", "SQLTables", "SQLColumns",
     "SQLExtendedFetch"}

(* Of any other function only the outputs matter. *)
LEMMA OrdinaryCall ==
    ASSUME NEW f, NEW args, NEW ret \in Codes \cup {"INVALID_HANDLE"}, NEW output,
           Call(f, args, ret, output), f \notin Singled,
           Succeeded(ret) => Uninitialised \notin {output.count, output.size, output.digits,
                                                   output.nullable, output.length}
    PROVE  CallIsSound'
<1>1. last' = [fn |-> f, args |-> args, ret |-> ret, out |-> output]
  BY Zenon DEF Call
<1>2. last'.fn = f /\ last'.ret = ret /\ last'.out = output
  BY <1>1, Zenon
<1>3. OutputsDefined'
  BY <1>2, Zenon DEF OutputsDefined, Singled
<1>4. CutIsReturned' /\ TextFits' /\ AskedLengthSuffices'
  BY <1>2, Zenon DEF CutIsReturned, TextFits, AskedLengthSuffices, Singled
<1>5. NullPatternIsAny' /\ ExtendedFetchCounts' /\ DescribedTypeIsSupported'
  BY <1>2, Zenon DEF NullPatternIsAny, ExtendedFetchCounts, DescribedTypeIsSupported, Singled
<1> QED
  BY <1>2, <1>3, <1>4, <1>5, Zenon DEF CallIsSound

LEMMA NothingWritten ==
    Uninitialised \notin {NoOutput.count, NoOutput.size, NoOutput.digits, NoOutput.nullable,
                         NoOutput.length}
BY SMTT(30) DEF NoOutput, Uninitialised, NotWritten

(* A function that writes nothing. *)
LEMMA SilentCall ==
    ASSUME NEW f, NEW args, NEW ret \in Codes \cup {"INVALID_HANDLE"},
           Call(f, args, ret, NoOutput), f \notin Singled
    PROVE  CallIsSound'
BY OrdinaryCall, Zenon, NothingWritten

-----------------------------------------------------------------------------
(***************************************************************************)
(* Columns.                                                                *)
(***************************************************************************)

(* What the metadata of a column can hold. *)
LEMMA ColumnHolds ==
    ASSUME NEW c \in ColumnMetas
    PROVE  /\ c.type \in {None} \cup {Some(j) : j \in JdbcTypes}
           /\ c.precision \in {None, Some(-1)} /\ c.scale \in {None, Some(-1)}
           /\ c.decimalDigits \in {None, Some(-1)}
           /\ c.nameLength \in NameLengths
<1>1. CASE c \in CatalogColumns
  <2>1. PICK t \in {"VARCHAR", "SMALLINT", "INTEGER"}, n \in NameLengths :
           c = CatalogColumn(t, n)
    BY <1>1, SMTT(30) DEF CatalogColumns
  <2>2. t \in JdbcTypes
    BY <2>1, Zenon DEF JdbcTypes, SqlTypeOf
  <2> QED
    BY <2>1, <2>2, Zenon DEF CatalogColumn
<1>2. CASE c \notin CatalogColumns
  BY <1>2, SMTT(30) DEF ColumnMetas, ReadJdbcMetadata
<1> QED
  BY <1>1, <1>2, Zenon

(* BinaryToSqlType gives a type of the driver, and not the text that       *)
(* stands for a variable without a value.                                  *)
LEMMA SqlTypeOfColumn ==
    ASSUME NEW j \in JdbcTypes
    PROVE  /\ BinaryToSqlType(Some(j)) = Some(BinaryToSqlType(Some(j))[1])
           /\ BinaryToSqlType(Some(j))[1] \in SqlTypes \ {"GUID"}
           /\ BinaryToSqlType(Some(j))[1] # "uninitialised"
BY SMTT(30) DEF BinaryToSqlType, JdbcTypes, SqlTypeOf, SqlTypes, Some, None

(* The numbers told of a column are not the one that stands for a variable *)
(* without a value.                                                        *)
LEMMA NumbersDefined ==
    ASSUME NEW c \in ColumnMetas
    PROVE  /\ NumericAttribute(c, "PRECISION") # Uninitialised
           /\ NumericAttribute(c, "SCALE") # Uninitialised
<1>1. c.precision \in {None, Some(-1)} /\ c.scale \in {None, Some(-1)}
      /\ c.decimalDigits \in {None, Some(-1)}
  BY ColumnHolds, Zenon
<1>2. Missing(c.precision) /\ Missing(c.scale) /\ Missing(c.decimalDigits)
  BY <1>1, Zenon DEF Missing
<1>3. OrMinusOne(c.precision) = -1 /\ OrMinusOne(c.scale) = -1
  BY <1>1, SMTT(30) DEF OrMinusOne, None, Some
<1>4. ASSUME NEW s PROVE SqlTypeColumnSize(s) \in Nat /\ SqlTypeDecimalDigits(s) \in {-1, 0}
  BY SMTT(30) DEF SqlTypeColumnSize, SqlTypeDecimalDigits, SqlMaxLength
<1>5. OrMinusOne(OfBinaryType(SqlTypeColumnSize, c.type)) \in Nat \cup {-1}
  BY <1>4, Zenon DEF OrMinusOne, OfBinaryType, None, Some
<1>6. OrMinusOne(OfBinaryType(SqlTypeDecimalDigits, c.type)) \in {-1, 0}
  BY <1>4, Zenon DEF OrMinusOne, OfBinaryType, None, Some
<1>7. NumericAttribute(c, "PRECISION") \in Nat \cup {-1}
  BY <1>2, <1>3, <1>5, Zenon DEF NumericAttribute
<1>8. NumericAttribute(c, "SCALE") \in {-1, 0}
  BY <1>2, <1>3, <1>6, Zenon DEF NumericAttribute
<1> QED
  BY <1>7, <1>8, SMTT(30) DEF Uninitialised

(* The metadata of the current query: none, or one column. *)
LEMMA MetaHolds ==
    ASSUME columns \in Results, GetMeta # None
    PROVE  \E c \in ColumnMetas : GetMeta = Some(<<c>>)
BY SMTT(30) DEF Results, GetMeta, None, Some

-----------------------------------------------------------------------------
(***************************************************************************)
(* The calls that copy a text or ask for several attributes.               *)
(***************************************************************************)

LEMMA FirstIsThere ==
    ASSUME NEW S \in SUBSET (1 .. 5), S # {}
    PROVE  (CHOOSE i \in S : \A j \in S : i <= j) \in S
<1>1. \E i \in S : \A j \in S : i <= j
  <2>1. CASE 1 \in S
    BY <2>1, SMTT(30)
  <2>2. CASE 1 \notin S /\ 2 \in S
    BY <2>2, SMTT(30)
  <2>3. CASE 1 \notin S /\ 2 \notin S /\ 3 \in S
    BY <2>3, SMTT(30)
  <2>4. CASE 1 \notin S /\ 2 \notin S /\ 3 \notin S /\ 4 \in S
    BY <2>4, SMTT(30)
  <2>5. CASE 1 \notin S /\ 2 \notin S /\ 3 \notin S /\ 4 \notin S
    <3>1. \A j \in S : j = 5
      BY <2>5, SMTT(30)
    <3>2. PICK i : i \in S
      BY Zenon
    <3> QED
      BY <3>1, <3>2, SMTT(30)
  <2> QED
    BY <2>1, <2>2, <2>3, <2>4, <2>5, Zenon
<1> QED
  BY <1>1, Zenon

(* The code of SQLDescribeCol tells an error of any of the five calls, and *)
(* is the code of the first when the others have nothing to tell.          *)
LEMMA WorstIsTold ==
    ASSUME NEW codes, DOMAIN codes = 1 .. 5, \A i \in 1 .. 5 : codes[i] \in Codes
    PROVE  /\ WorstCode(codes) \in Codes
           /\ Succeeded(WorstCode(codes)) => \A i \in 1 .. 5 : Succeeded(codes[i])
           /\ (\A i \in 2 .. 5 : codes[i] = "SUCCESS") => WorstCode(codes) = codes[1]
           /\ (\A i \in 1 .. 5 : codes[i] = "ERROR") => WorstCode(codes) = "ERROR"
<1> DEFINE failed == {i \in DOMAIN codes : ~Succeeded(codes[i])}
           telling == {i \in DOMAIN codes : codes[i] # "SUCCESS"}
           First(S) == CHOOSE i \in S : \A j \in S : i <= j
<1>1. failed \in SUBSET (1 .. 5) /\ telling \in SUBSET (1 .. 5)
  BY Zenon
<1>2. CASE failed # {}
  <2>1. First(failed) \in failed
    BY <1>1, <1>2, FirstIsThere, Zenon
  <2>2. WorstCode(codes) = codes[First(failed)]
    BY <1>2, Zenon DEF WorstCode
  <2>3. ~Succeeded(WorstCode(codes)) /\ WorstCode(codes) \in Codes
    <3> HIDE DEF First
    <3> QED BY <2>1, <2>2, Zenon
  <2>4. First(failed) \in 1 .. 5
    BY <1>1, <2>1, Zenon
  <2>5. ASSUME \A i \in 2 .. 5 : codes[i] = "SUCCESS" PROVE WorstCode(codes) = codes[1]
    <3>1. First(failed) \notin 2 .. 5
      <4> HIDE DEF First
      <4> QED BY <2>1, <2>5, Zenon DEF Succeeded
    <3>2. First(failed) = 1
      <4> HIDE DEF First, failed
      <4> QED BY <2>4, <3>1, SMTT(30)
    <3> QED
      BY <2>2, <3>2, Zenon
  <2>6. ASSUME \A i \in 1 .. 5 : codes[i] = "ERROR" PROVE WorstCode(codes) = "ERROR"
    <3> HIDE DEF First, failed
    <3> QED BY <2>2, <2>4, <2>6, Zenon
  <2> QED
    BY <2>3, <2>5, <2>6, Zenon
<1>3. CASE failed = {} /\ telling # {}
  <2>1. First(telling) \in telling
    BY <1>1, <1>3, FirstIsThere, Zenon
  <2>2. WorstCode(codes) = codes[First(telling)]
    BY <1>3, Zenon DEF WorstCode
  <2>3. WorstCode(codes) \in Codes \ {"SUCCESS"} /\ Succeeded(WorstCode(codes))
    <3> HIDE DEF First
    <3> QED BY <1>3, <2>1, <2>2, Zenon
  <2>4. \A i \in 1 .. 5 : Succeeded(codes[i])
    BY <1>3, Zenon
  <2>5. First(telling) \in 1 .. 5
    BY <1>1, <2>1, Zenon
  <2>6. ASSUME \A i \in 2 .. 5 : codes[i] = "SUCCESS" PROVE WorstCode(codes) = codes[1]
    <3>1. First(telling) \notin 2 .. 5
      <4> HIDE DEF First
      <4> QED BY <2>1, <2>6, Zenon
    <3>2. First(telling) = 1
      <4> HIDE DEF First, telling
      <4> QED BY <2>5, <3>1, SMTT(30)
    <3> QED
      BY <2>2, <3>2, Zenon
  <2>7. ~(\A i \in 1 .. 5 : codes[i] = "ERROR")
    <3> HIDE DEF First, telling
    <3> QED BY <2>4, <2>5, Zenon DEF Succeeded
  <2> QED
    BY <2>3, <2>4, <2>6, <2>7, Zenon
<1>4. CASE failed = {} /\ telling = {}
  <2>1. WorstCode(codes) = "SUCCESS"
    BY <1>4, Zenon DEF WorstCode
  <2>2. \A i \in 1 .. 5 : codes[i] = "SUCCESS"
    BY <1>4, Zenon
  <2>3. 1 \in 1 .. 5
    BY SMTT(30)
  <2> QED
    BY <2>1, <2>2, <2>3, Zenon DEF Succeeded, Codes
<1> QED
  BY <1>2, <1>3, <1>4, Zenon

(* Lengths up to MaxNameChars survive the conversions to 16 bits and to    *)
(* size_t.                                                                 *)
LEMMA NameLengthFits ==
    ASSUME NEW n \in Nat, n <= MaxNameChars
    PROVE  n * WCharSize \in Nat /\ n * WCharSize <= 32767
<1>1. CASE WCharSize = 2
  <2>1. n * 2 \in Nat /\ n * 2 <= 32767
    BY <1>1, SMTT(30) DEF MaxNameChars
  <2> QED
    BY <1>1, <2>1, SMTT(30)
<1>2. CASE WCharSize = 4
  <2>1. n * 4 \in Nat /\ n * 4 <= 32767
    BY <1>2, SMTT(30) DEF MaxNameChars
  <2> QED
    BY <1>2, <2>1, SMTT(30)
<1> QED
  BY <1>1, <1>2, TypesAssumption, SMTT(30)

LEMMA Int16Keeps ==
    ASSUME NEW n \in Nat, n <= 32767
    PROVE  Int16(n) = n /\ SizeT(n) = n
BY SMTT(30) DEF Int16, SizeT

LEMMA WideToChars ==
    ASSUME NEW n \in Nat
    PROVE  (n * WCharSize) \div WCharSize = n /\ n \div WCharSize \in Nat
<1>1. CASE WCharSize = 2
  BY <1>1, SMTT(30)
<1>2. CASE WCharSize = 4
  BY <1>2, SMTT(30)
<1> QED
  BY <1>1, <1>2, TypesAssumption, Zenon

(* CopyStringToBuffer with a buffer of so many characters: what is copied  *)
(* fits with the character that ends it, and a part is missing when that   *)
(* is told, unless there is no room at all.                                *)
LEMMA CopyFits ==
    ASSUME NEW length \in Nat, NEW chars \in Nat, NEW inBytes \in BOOLEAN
    PROVE  LET r == CopyStringToBuffer(length, Some(chars),
                        IF inBytes THEN chars * WCharSize ELSE chars, inBytes)
           IN  /\ r.written \in Nat /\ r.written <= length
               /\ r.written = 0 \/ r.written + 1 <= chars
               /\ r.length = IF inBytes THEN r.written * WCharSize ELSE r.written
               /\ chars > 0 => (r.truncated <=> r.written < length)
<1> DEFINE bytes == chars * WCharSize
           copied == CopyUtf8StringToWcharString(length, Some(chars), bytes)
<1>1. bytes \div WCharSize = chars /\ (bytes = 0 <=> chars = 0)
  BY WideToChars, TypesAssumption, SMTT(30)
<1> HIDE DEF bytes
<1>2. Some(chars) # None
  BY Zenon DEF Some, None
<1>3. copied = IF chars = 0 THEN [chars |-> 0, truncated |-> FALSE]
               ELSE [chars |-> Least(length, chars - 1),
                     truncated |-> Least(length, chars - 1) < length]
  BY <1>1, <1>2, Zenon DEF CopyUtf8StringToWcharString
<1>4. /\ copied.chars \in Nat /\ copied.chars <= length
      /\ copied.chars = 0 \/ copied.chars + 1 <= chars
      /\ chars > 0 => (copied.truncated <=> copied.chars < length)
  <2> HIDE DEF copied
  <2>1. CASE chars = 0
    BY <1>3, <2>1, SMTT(30)
  <2>2. CASE chars # 0
    <3>1. /\ Least(length, chars - 1) \in Nat /\ Least(length, chars - 1) <= length
          /\ Least(length, chars - 1) + 1 <= chars
      BY <2>2, SMTT(30) DEF Least
    <3>2. /\ copied.chars = Least(length, chars - 1)
          /\ copied.truncated = (Least(length, chars - 1) < length)
      BY <1>3, <2>2, Zenon
    <3> QED
      BY <3>1, <3>2, Zenon
  <2> QED
    BY <2>1, <2>2, Zenon
<1>5. CopyStringToBuffer(length, Some(chars), IF inBytes THEN bytes ELSE chars, inBytes)
         = [written |-> copied.chars, truncated |-> copied.truncated,
            length |-> IF inBytes THEN copied.chars * WCharSize ELSE copied.chars]
  <2> HIDE DEF copied
  <2>1. CASE inBytes
    BY <2>1, Zenon DEF CopyStringToBuffer, copied, bytes
  <2>2. CASE ~inBytes
    BY <2>2, Zenon DEF CopyStringToBuffer, copied, bytes
  <2> QED
    BY <2>1, <2>2, Zenon
<1> QED
  <2> HIDE DEF copied
  <2> QED BY <1>4, <1>5, SMTT(30) DEF bytes

(* The column an attribute is asked of, unless there is none. *)
Outside(index) == GetMeta = None \/ index > Len(GetMeta[1]) \/ index < 1

LEMMA InsideIsAColumn ==
    ASSUME columns \in Results, NEW index \in Int, ~Outside(index)
    PROVE  GetMeta[1][index] \in ColumnMetas
<1>1. PICK c \in ColumnMetas : GetMeta = Some(<<c>>)
  BY MetaHolds, Zenon DEF Outside
<1>2. Len(GetMeta[1]) = 1 /\ GetMeta[1][1] = c
  BY <1>1, Zenon DEF Some
<1> QED
  BY <1>2, SMTT(30) DEF Outside

(* GetColumnAttribute for the name, into a buffer or not. *)
LEMMA NameIsCopied ==
    ASSUME columns \in Results, NEW index \in Int, NEW buffer \in NameBuffers
    PROVE  LET size == Int16((IF buffer = None THEN 0 ELSE buffer[1]) * WCharSize)
               name == InternalGetColumnAttribute(index, "NAME", buffer, size, FALSE)
           IN  /\ Outside(index) => name.code = "ERROR"
               /\ ~Outside(index) =>
                     /\ name.code \in {"SUCCESS", "SUCCESS_WITH_INFO"}
                     /\ name.length \div WCharSize \in Nat
                     /\ buffer # None =>
                           /\ name.written = 0 \/ name.written + 1 <= buffer[1]
                           /\ name.length \div WCharSize = name.written
                           /\ buffer[1] > 0 =>
                                 (name.code = "SUCCESS_WITH_INFO"
                                     <=> name.written < GetMeta[1][index].nameLength)
<1> DEFINE size == Int16((IF buffer = None THEN 0 ELSE buffer[1]) * WCharSize)
           name == InternalGetColumnAttribute(index, "NAME", buffer, size, FALSE)
           c == GetMeta[1][index]
           copied == IF buffer = None
                     THEN [length |-> c.nameLength, truncated |-> FALSE, written |-> 0]
                     ELSE CopyStringToBuffer(c.nameLength, buffer, SizeT(size), TRUE)
<1>1. CASE Outside(index)
  <2>1. name.code = "ERROR"
    BY <1>1, Zenon DEF InternalGetColumnAttribute, Outside
  <2> HIDE DEF name, size
  <2> QED
    BY <1>1, <2>1, Zenon DEF name, size
<1>2. CASE ~Outside(index)
  <2>1. c \in ColumnMetas
    BY <1>2, InsideIsAColumn, Zenon
  <2>2. c.nameLength \in Nat /\ c.nameLength <= MaxNameChars
    BY <2>1, ColumnHolds, ApiAssumption, Zenon
  <2>3. StringAttribute(c, "NAME") = Some(c.nameLength)
    BY Zenon DEF StringAttribute
  <2>4. /\ name.code = IF copied.truncated THEN "SUCCESS_WITH_INFO" ELSE "SUCCESS"
        /\ name.length = Int16(copied.length) /\ name.written = copied.written
    <3>1. StringAttribute(c, "NAME") # None /\ StringAttribute(c, "NAME")[1] = c.nameLength
      BY <2>3, SMTT(30) DEF Some, None
    <3> QED
      BY <1>2, <3>1, Zenon DEF InternalGetColumnAttribute, Outside
  <2>5. CASE buffer = None
    <3>1. copied.length = c.nameLength /\ copied.truncated = FALSE
      BY <2>5, Zenon
    <3> HIDE DEF c, copied, name
    <3>2. c.nameLength <= 32767
      BY <2>2, SMTT(30) DEF MaxNameChars
    <3>3. Int16(c.nameLength) = c.nameLength /\ c.nameLength \div WCharSize \in Nat
      BY <2>2, <3>2, Int16Keeps, WideToChars, SMTT(30)
    <3>4. name.code = "SUCCESS" /\ name.length \div WCharSize \in Nat
      BY <2>4, <3>1, <3>3, Zenon
    <3> QED
      BY <1>2, <2>5, <3>4, Zenon DEF name, size
  <2>6. CASE buffer # None
    <3>1. PICK n \in Nat : buffer = Some(n) /\ n <= MaxNameChars
      BY <2>6, ApiAssumption, Zenon
    <3>2. n * WCharSize \in Nat /\ n * WCharSize <= 32767
      BY <3>1, NameLengthFits, SMTT(30)
    <3>3. buffer[1] = n
      BY <3>1, Zenon DEF Some
    <3>4. size = n * WCharSize /\ SizeT(size) = n * WCharSize
      <4>1. size = Int16(n * WCharSize)
        BY <2>6, <3>3, Zenon
      <4> HIDE DEF size
      <4> QED
        BY <3>2, <4>1, Int16Keeps, SMTT(30)
    <3>5. copied = CopyStringToBuffer(c.nameLength, Some(n), n * WCharSize, TRUE)
      <4> HIDE DEF size, c
      <4> QED
        BY <2>6, <3>1, <3>4, Zenon
    <3> HIDE DEF c, copied, name
    <3>6. /\ copied.written \in Nat /\ copied.written <= c.nameLength
          /\ copied.written = 0 \/ copied.written + 1 <= n
          /\ copied.length = copied.written * WCharSize
          /\ n > 0 => (copied.truncated <=> copied.written < c.nameLength)
      BY <2>2, <3>5, CopyFits, Zenon
    <3>7. Int16(copied.length) = copied.length
          /\ copied.length \div WCharSize = copied.written
      <4>1. copied.written <= MaxNameChars
        BY <2>2, <3>6, SMTT(30) DEF MaxNameChars
      <4>2. copied.length \in Nat /\ copied.length <= 32767
        BY <3>6, <4>1, NameLengthFits, SMTT(30)
      <4> QED
        BY <3>6, <4>2, Int16Keeps, WideToChars, SMTT(30)
    <3>8. /\ name.code \in {"SUCCESS", "SUCCESS_WITH_INFO"}
          /\ name.length \div WCharSize = name.written /\ name.written \in Nat
          /\ name.written = 0 \/ name.written + 1 <= n
          /\ n > 0 => (name.code = "SUCCESS_WITH_INFO" <=> name.written < c.nameLength)
      BY <2>4, <3>6, <3>7, Zenon
    <3> QED
      BY <1>2, <3>3, <3>8, Zenon DEF name, size, c
  <2> QED
    BY <2>5, <2>6, Zenon
<1> QED
  BY <1>1, <1>2, Zenon

(* GetColumnAttribute for the type and the numbers SQLDescribeCol asks     *)
(* for: they are set whenever there is such a column.                      *)
LEMMA NumberIsSet ==
    ASSUME columns \in Results, NEW index \in Int,
           NEW id \in {"TYPE", "PRECISION", "SCALE", "NULLABLE"}
    PROVE  LET r == InternalGetColumnAttribute(index, id, None, 0, TRUE)
           IN  /\ r.code = IF Outside(index) THEN "ERROR" ELSE "SUCCESS"
               /\ ~Outside(index) => r.number # Uninitialised
               /\ ~Outside(index) /\ id = "TYPE" =>
                     /\ r.type # <<"uninitialised">>
                     /\ r.type # None => IsSqlTypeSupported(r.type)
<1> DEFINE r == InternalGetColumnAttribute(index, id, None, 0, TRUE)
           c == GetMeta[1][index]
<1>1. CASE Outside(index)
  <2>1. r.code = "ERROR"
    BY <1>1, Zenon DEF InternalGetColumnAttribute, Outside
  <2> HIDE DEF r
  <2> QED
    BY <1>1, <2>1, Zenon DEF r
<1>2. CASE ~Outside(index)
  <2>1. c \in ColumnMetas
    BY <1>2, InsideIsAColumn, Zenon
  <2>2. id \in NumericAttributes \cup {"TYPE", "NULLABLE"}
    BY Zenon DEF NumericAttributes
  <2>3. /\ r.code = "SUCCESS"
        /\ id = "TYPE" => r.number = -1 /\ r.type = BinaryToSqlType(c.type)
        /\ id = "NULLABLE" => r.number = NullabilityToSql(c.nullability[1])
        /\ id \in {"PRECISION", "SCALE"} => r.number = NumericAttribute(c, id)
    BY <1>2, <2>2, Zenon DEF InternalGetColumnAttribute, Outside
  <2>4. NullabilityToSql(c.nullability[1]) \in {0, 1, 2}
    BY Zenon DEF NullabilityToSql
  <2> HIDE DEF r, c
  <2>5. r.number # Uninitialised
    <3>1. CASE id = "TYPE"
      BY <2>3, <3>1, SMTT(30) DEF Uninitialised
    <3>2. CASE id = "NULLABLE"
      BY <2>3, <2>4, <3>2, SMTT(30) DEF Uninitialised
    <3>3. CASE id \in {"PRECISION", "SCALE"}
      BY <2>1, <2>3, <3>3, NumbersDefined, Zenon
    <3> QED
      BY <3>1, <3>2, <3>3, Zenon
  <2>6. /\ BinaryToSqlType(c.type) # <<"uninitialised">>
        /\ BinaryToSqlType(c.type) # None => IsSqlTypeSupported(BinaryToSqlType(c.type))
    <3>1. CASE c.type = None
      BY <3>1, Zenon DEF BinaryToSqlType, None
    <3>2. CASE c.type # None
      <4>1. PICK j \in JdbcTypes : c.type = Some(j)
        BY <2>1, <3>2, ColumnHolds, Zenon
      <4>2. /\ BinaryToSqlType(c.type) = Some(BinaryToSqlType(c.type)[1])
            /\ BinaryToSqlType(c.type)[1] \in SqlTypes \ {"GUID"}
            /\ BinaryToSqlType(c.type)[1] # "uninitialised"
        BY <4>1, SqlTypeOfColumn, Zenon
      <4> QED
        BY <4>2, SMTT(30) DEF IsSqlTypeSupported, Some, None
    <3> QED
      BY <3>1, <3>2, Zenon
  <2> QED
    BY <1>2, <2>3, <2>5, <2>6, Zenon DEF r
<1> QED
  BY <1>1, <1>2, Zenon

LEMMA SQLDescribeColSound ==
    ASSUME columns \in Results, NEW index \in Int, NEW buffer \in NameBuffers,
           SQLDescribeCol(index, buffer)
    PROVE  CallIsSound' /\ ReturnIsRecorded' /\ code' \in Codes
<1> DEFINE name == InternalGetColumnAttribute(index, "NAME", buffer,
                       Int16((IF buffer = None THEN 0 ELSE buffer[1]) * WCharSize), FALSE)
           Of(id) == InternalGetColumnAttribute(index, id, None, 0, TRUE)
           codes == <<name.code, Of("TYPE").code, Of("PRECISION").code, Of("SCALE").code,
                      Of("NULLABLE").code>>
           output == [NoOutput EXCEPT
               !.length = name.length \div WCharSize, !.chars = name.written,
               !.type = Of("TYPE").type,
               !.size = Of("PRECISION").number, !.digits = Of("SCALE").number,
               !.nullable = Of("NULLABLE").number]
<1>1. /\ last' = [fn |-> "SQLDescribeCol", args |-> <<index, buffer>>,
                  ret |-> WorstCode(codes), out |-> output]
      /\ code' = codes[5]
  BY Zenon DEF SQLDescribeCol, Call
<1>2. /\ Outside(index) => name.code = "ERROR"
      /\ ~Outside(index) =>
            /\ name.code \in {"SUCCESS", "SUCCESS_WITH_INFO"}
            /\ name.length \div WCharSize \in Nat
            /\ buffer # None =>
                  /\ name.written = 0 \/ name.written + 1 <= buffer[1]
                  /\ name.length \div WCharSize = name.written
                  /\ buffer[1] > 0 => (name.code = "SUCCESS_WITH_INFO"
                                          <=> name.written < GetMeta[1][index].nameLength)
  BY NameIsCopied, Zenon
<1>3. ASSUME NEW id \in {"TYPE", "PRECISION", "SCALE", "NULLABLE"}
      PROVE  /\ Of(id).code = IF Outside(index) THEN "ERROR" ELSE "SUCCESS"
             /\ ~Outside(index) => Of(id).number # Uninitialised
             /\ ~Outside(index) /\ id = "TYPE" =>
                   /\ Of(id).type # <<"uninitialised">>
                   /\ Of(id).type # None => IsSqlTypeSupported(Of(id).type)
  BY NumberIsSet, Zenon
<1> HIDE DEF name, Of
<1>4. DOMAIN codes = 1 .. 5 /\ (\A i \in 1 .. 5 : codes[i] \in Codes) /\ codes[1] = name.code
  BY <1>2, <1>3, SMTT(30) DEF Codes
<1>5. /\ output.length = name.length \div WCharSize /\ output.chars = name.written
      /\ output.type = Of("TYPE").type
      /\ output.size = Of("PRECISION").number /\ output.digits = Of("SCALE").number
      /\ output.nullable = Of("NULLABLE").number /\ output.count = NotWritten
  BY Zenon DEF NoOutput
<1> HIDE DEF codes, output
<1>6. /\ last'.fn = "SQLDescribeCol" /\ last'.args = <<index, buffer>>
      /\ last'.ret = WorstCode(codes) /\ last'.out = output
  BY <1>1, Zenon
<1>7. /\ WorstCode(codes) \in Codes
      /\ Outside(index) => WorstCode(codes) = "ERROR" /\ code' = "ERROR"
      /\ ~Outside(index) => WorstCode(codes) = name.code /\ code' = "SUCCESS"
  <2>1. CASE Outside(index)
    <3>1. \A i \in 1 .. 5 : codes[i] = "ERROR"
      BY <1>2, <1>3, <2>1, SMTT(30) DEF codes
    <3>2. 5 \in 1 .. 5
      BY SMTT(30)
    <3> QED
      BY <1>1, <1>4, <2>1, <3>1, <3>2, WorstIsTold, Zenon
  <2>2. CASE ~Outside(index)
    <3>1. \A i \in 2 .. 5 : codes[i] = "SUCCESS"
      BY <1>3, <2>2, SMTT(30) DEF codes
    <3>2. 5 \in 2 .. 5
      BY SMTT(30)
    <3> QED
      BY <1>1, <1>4, <2>2, <3>1, <3>2, WorstIsTold, Zenon
  <2> QED
    BY <2>1, <2>2, Zenon
<1>8. OutputsDefined'
  <2>1. SUFFICES ASSUME Succeeded(WorstCode(codes))
                 PROVE  /\ Uninitialised \notin {output.count, output.size, output.digits,
                                                 output.nullable, output.length}
                        /\ output.type # <<"uninitialised">>
    BY <1>6, Zenon DEF OutputsDefined
  <2>2. ~Outside(index) /\ name.length \div WCharSize \in Nat
    BY <1>2, <1>7, <2>1, Zenon DEF Succeeded
  <2>3. output.length # Uninitialised /\ output.count # Uninitialised
    BY <1>5, <2>2, SMTT(30) DEF Uninitialised, NotWritten
  <2> QED
    BY <1>3, <1>5, <2>2, <2>3, Zenon
<1>9. CutIsReturned'
  <2>1. SUFFICES ASSUME Succeeded(WorstCode(codes)), buffer # None, buffer[1] > 0
                 PROVE  WorstCode(codes) = "SUCCESS_WITH_INFO"
                           <=> output.chars < GetMeta'[1][index].nameLength
    <3>1. last'.args[Len(last'.args)] = buffer /\ last'.args[1] = index
      BY <1>6, SMTT(30)
    <3>2. WholeLength' = GetMeta'[1][index].nameLength
      BY <1>6, <3>1, Zenon DEF WholeLength
    <3> QED
      BY <1>6, <3>1, <3>2, Zenon DEF CutIsReturned
  <2>2. ~Outside(index) /\ WorstCode(codes) = name.code
    BY <1>7, <2>1, Zenon DEF Succeeded
  <2>3. GetMeta' = GetMeta
    BY Zenon DEF SQLDescribeCol, GetMeta
  <2> QED
    BY <1>2, <1>5, <2>1, <2>2, <2>3, Zenon
<1>10. TextFits'
  BY <1>2, <1>5, <1>6, <1>7, SMTT(30) DEF TextFits, Succeeded
<1>11. DescribedTypeIsSupported'
  BY <1>3, <1>5, <1>6, <1>7, Zenon DEF DescribedTypeIsSupported, Succeeded
<1>12. AskedLengthSuffices' /\ NullPatternIsAny' /\ ExtendedFetchCounts'
  BY <1>6, Zenon DEF AskedLengthSuffices, NullPatternIsAny, ExtendedFetchCounts
<1>13. ReturnIsRecorded' /\ code' \in Codes
  BY <1>2, <1>6, <1>7, Zenon DEF ReturnIsRecorded, Codes
<1> QED
  BY <1>6, <1>7, <1>8, <1>9, <1>10, <1>11, <1>12, <1>13, Zenon DEF CallIsSound

LEMMA SQLNativeSqlSound ==
    ASSUME NEW text, text = None \/ \E t \in Texts : text = Some(t),
           NEW given \in {NTS} \cup Texts, NEW buffer \in TextBuffers,
           SQLNativeSql(text, given, buffer)
    PROVE  CallIsSound'
<1> DEFINE r == InternalNativeSql(text, given, buffer)
           length == StatedLength(text, given)
           output == [NoOutput EXCEPT !.length = r.length, !.chars = r.written]
<1>1. text # None => length \in Nat
  <2>1. ASSUME NEW t \in Texts PROVE t \in Nat /\ Some(t)[1] = t
    BY ApiAssumption, Zenon DEF Some
  <2> QED
    BY <2>1, Zenon DEF StatedLength
<1> HIDE DEF length
<1>2. /\ r.code \in {"SUCCESS", "SUCCESS_WITH_INFO", "ERROR"}
      /\ r.length \in Nat /\ r.written \in Nat
      /\ buffer # None => /\ r.written = 0 \/ r.written + 1 <= buffer[1]
                          /\ r.length = r.written
      /\ buffer # None /\ r.code # "ERROR" =>
            /\ text # None
            /\ r.code = "SUCCESS_WITH_INFO" <=> r.written < length
            /\ buffer[1] > length => r.written = length
  <2>1. CASE text = None
    <3>1. r = [code |-> "ERROR", length |-> 0, written |-> 0]
      BY <2>1, Zenon DEF InternalNativeSql
    <3> HIDE DEF r
    <3> QED
      BY <3>1, Zenon
  <2>2. CASE text # None /\ buffer = None
    <3>1. r = [code |-> "SUCCESS", length |-> IF length > 0 THEN length ELSE 0, written |-> 0]
      BY <2>2, Zenon DEF InternalNativeSql, length
    <3> HIDE DEF r
    <3>2. (IF length > 0 THEN length ELSE 0) \in Nat
      BY <1>1, <2>2, SMTT(30)
    <3> QED
      BY <2>2, <3>1, <3>2, Zenon
  <2>3. CASE text # None /\ buffer # None
    <3>1. PICK n \in Nat : buffer = Some(n)
      BY <2>3, ApiAssumption, Zenon
    <3>2. buffer[1] = n
      BY <3>1, Zenon DEF Some
    <3>3. CASE n = 0
      <4>1. buffer[1] <= 0
        BY <3>2, <3>3, SMTT(30)
      <4>2. r = [code |-> "ERROR", length |-> 0, written |-> 0]
        BY <2>3, <4>1, Zenon DEF InternalNativeSql, length
      <4> HIDE DEF r
      <4> QED
        BY <4>2, Zenon
    <3>4. CASE n # 0
      <4> DEFINE copied == Least(length, n - 1)
      <4>1. ~(buffer[1] <= 0 \/ length < 0)
        BY <1>1, <2>3, <3>2, <3>4, SMTT(30)
      <4>2. r = [code |-> IF copied < length THEN "SUCCESS_WITH_INFO" ELSE "SUCCESS",
                 length |-> copied, written |-> copied]
        BY <2>3, <3>2, <4>1, Zenon DEF InternalNativeSql, length
      <4>3. copied \in Nat /\ copied + 1 <= n /\ (n > length => copied = length)
        BY <1>1, <2>3, <3>4, SMTT(30) DEF Least
      <4> HIDE DEF r, copied
      <4>4. /\ r.length = copied /\ r.written = copied
            /\ r.code = IF copied < length THEN "SUCCESS_WITH_INFO" ELSE "SUCCESS"
        BY <4>2, Zenon
      <4> QED
        BY <2>3, <3>2, <4>3, <4>4, Zenon
    <3> QED
      BY <3>3, <3>4, Zenon
  <2> QED
    BY <2>1, <2>2, <2>3, Zenon
<1>3. text # None => InternalNativeSql(text, given, None).length = length
  <2>1. SUFFICES ASSUME text # None PROVE InternalNativeSql(text, given, None).length = length
    BY Zenon
  <2>2. (IF length > 0 THEN length ELSE 0) = length
    BY <1>1, <2>1, SMTT(30)
  <2>3. InternalNativeSql(text, given, None).length = IF length > 0 THEN length ELSE 0
    BY <2>1, Zenon DEF InternalNativeSql, length
  <2> QED
    BY <2>2, <2>3, Zenon
<1>4. last' = [fn |-> "SQLNativeSql", args |-> <<text, given, buffer>>, ret |-> r.code,
               out |-> output]
  BY Zenon DEF SQLNativeSql, Call
<1> HIDE DEF r
<1>5. /\ output.length = r.length /\ output.chars = r.written
      /\ output.count = NotWritten /\ output.size = NotWritten /\ output.digits = NotWritten
      /\ output.nullable = NotWritten
  BY Zenon DEF NoOutput
<1> HIDE DEF output
<1>6. /\ last'.fn = "SQLNativeSql" /\ last'.args = <<text, given, buffer>>
      /\ last'.ret = r.code /\ last'.out = output
  BY <1>4, Zenon
<1>7. OutputsDefined'
  BY <1>2, <1>5, <1>6, SMTT(30) DEF OutputsDefined, Uninitialised, NotWritten
<1>8. /\ last'.args[1] = text /\ last'.args[2] = given /\ last'.args[3] = buffer
      /\ Len(last'.args) = 3 /\ WholeLength' = length
  <2>1. /\ last'.args[1] = text /\ last'.args[2] = given /\ last'.args[3] = buffer
        /\ Len(last'.args) = 3
    BY <1>6, SMTT(30)
  <2> QED
    BY <1>6, <2>1, Zenon DEF WholeLength, length
<1>9. CutIsReturned' /\ TextFits' /\ AskedLengthSuffices'
  BY <1>2, <1>3, <1>5, <1>6, <1>8, ZenonT(60) DEF CutIsReturned, TextFits, AskedLengthSuffices,
     Succeeded
<1>10. NullPatternIsAny' /\ ExtendedFetchCounts' /\ DescribedTypeIsSupported'
  BY <1>6, Zenon DEF NullPatternIsAny, ExtendedFetchCounts, DescribedTypeIsSupported
<1>11. r.code \in Codes
  BY <1>2, Zenon DEF Codes
<1> QED
  BY <1>6, <1>7, <1>9, <1>10, <1>11, Zenon DEF CallIsSound

LEMMA SQLDriverConnectSound ==
    ASSUME NEW text \in Texts, NEW buffer \in TextBuffers, NEW c \in Codes,
           SQLDriverConnect(text, buffer, c)
    PROVE  CallIsSound'
<1> DEFINE copied == CopyStringToBuffer(text, buffer,
                         IF buffer = None THEN 0 ELSE buffer[1], FALSE)
           given == [NoOutput EXCEPT !.length = copied.length,
                        !.chars = IF buffer = None THEN 0 ELSE copied.written]
           output == IF Succeeded(c) THEN given ELSE NoOutput
<1>1. text \in Nat
  BY ApiAssumption, Zenon
<1>2. copied.length \in Nat
      /\ (buffer # None => /\ copied.written = 0 \/ copied.written + 1 <= buffer[1]
                           /\ copied.length = copied.written)
  <2>1. CASE buffer = None
    BY <1>1, <2>1, Zenon DEF CopyStringToBuffer, CopyUtf8StringToWcharString
  <2>2. CASE buffer # None
    <3>1. PICK n \in Nat : buffer = Some(n)
      BY <2>2, ApiAssumption, Zenon
    <3>2. buffer[1] = n
      BY <3>1, Zenon DEF Some
    <3>3. copied = CopyStringToBuffer(text, Some(n), IF FALSE THEN n * WCharSize ELSE n, FALSE)
      BY <2>2, <3>1, <3>2, Zenon
    <3> HIDE DEF copied
    <3>4. /\ copied.written \in Nat
          /\ copied.written = 0 \/ copied.written + 1 <= n
          /\ copied.length = IF FALSE THEN copied.written * WCharSize ELSE copied.written
      BY <1>1, <3>3, CopyFits, Zenon
    <3> QED
      BY <3>2, <3>4, Zenon
  <2> QED
    BY <2>1, <2>2, Zenon
<1>3. last' = [fn |-> "SQLDriverConnect", args |-> <<Some(text), NTS, buffer>>, ret |-> c,
               out |-> output]
  BY Zenon DEF SQLDriverConnect, Call
<1> HIDE DEF copied
<1>4. /\ given.length = copied.length /\ (buffer # None => given.chars = copied.written)
      /\ given.count = NotWritten /\ given.size = NotWritten /\ given.digits = NotWritten
      /\ given.nullable = NotWritten
  BY Zenon DEF NoOutput
<1>5. Succeeded(c) => output = given
  BY Zenon
<1> HIDE DEF given, output
<1>6. /\ last'.fn = "SQLDriverConnect" /\ last'.args = <<Some(text), NTS, buffer>>
      /\ last'.ret = c /\ last'.out = output
  BY <1>3, Zenon
<1>7. OutputsDefined'
  BY <1>2, <1>4, <1>5, <1>6, SMTT(30) DEF OutputsDefined, Uninitialised, NotWritten
<1>8. TextFits'
  BY <1>2, <1>4, <1>5, <1>6, SMTT(30) DEF TextFits
<1>9. CutIsReturned' /\ AskedLengthSuffices' /\ NullPatternIsAny' /\ ExtendedFetchCounts'
      /\ DescribedTypeIsSupported'
  BY <1>6, Zenon DEF CutIsReturned, AskedLengthSuffices, NullPatternIsAny, ExtendedFetchCounts,
              DescribedTypeIsSupported
<1> QED
  BY <1>6, <1>7, <1>8, <1>9, Zenon DEF CallIsSound

(* The type SQLGetTypeInfo comes back to by way of an SQL type has the     *)
(* sizes of the type it began with, though it may be another one.          *)
LEMMA SizesOfTypes ==
    ASSUME NEW j \in JdbcTypes
    PROVE  LET s == BinaryToSqlType(Some(j))[1]
               t == BinaryToSqlType(SqlTypeToBinary(Some(s)))[1]
           IN  /\ SqlTypeToBinary(Some(s)) # None
               /\ SqlTypeDisplaySize(t) = SqlTypeDisplaySize(s)
               /\ SqlTypeColumnSize(t) = SqlTypeColumnSize(s)
               /\ SqlTypeDisplaySize(s) >= SqlTypeColumnSize(s)
<1> DEFINE s == BinaryToSqlType(Some(j))[1]
           k == SqlTypeToBinary(Some(s))[1]
           t == BinaryToSqlType(SqlTypeToBinary(Some(s)))[1]
<1>1. s \in SqlTypes \ {"GUID"}
  BY SqlTypeOfColumn, Zenon
<1> HIDE DEF s
<1>2. SqlTypeToBinary(Some(s)) = Some(k) /\ SqlTypeToBinary(Some(s)) # None
  BY SMTT(30) DEF SqlTypeToBinary, Some, None
<1>3. \/ t = s
      \/ s \in LongTypes /\ t \in LongTypes
  <2>0. \A x \in CharTypes \cup WideTypes \cup {"BIT"} :
           x \in {SqlTypeOf[y] : y \in DOMAIN SqlTypeOf}
    BY ZenonT(60) DEF CharTypes, WideTypes, SqlTypeOf
  <2>1. CASE s = "BIT"
    <3>1. k = "BOOLEAN"
      BY <2>0, <2>1, Zenon DEF SqlTypeToBinary, Some, None
    <3> HIDE DEF k
    <3> QED
      BY <1>2, <2>1, <3>1, SMTT(30) DEF BinaryToSqlType, SqlTypeOf, Some, None
  <2>2. CASE s \in CharTypes \cup WideTypes
    <3>1. k \in {"CHAR", "VARCHAR", "LONGVARCHAR"}
      BY <2>0, <2>2, Zenon DEF SqlTypeToBinary, CharTypes, WideTypes, Some, None
    <3> HIDE DEF k
    <3>2. t \in {"CHAR", "VARCHAR", "LONGVARCHAR"}
      BY <1>2, <3>1, SMTT(30) DEF BinaryToSqlType, SqlTypeOf, Some, None
    <3> QED
      BY <2>2, <3>2, Zenon DEF LongTypes, CharTypes, WideTypes
  <2>3. CASE s \notin {SqlTypeOf[x] : x \in DOMAIN SqlTypeOf}
    <3>1. s = "BINARY"
      BY <1>1, <2>3, Zenon DEF SqlTypes
    <3>2. k = "BINARY"
      BY <2>3, <3>1, Zenon DEF SqlTypeToBinary, Some, None
    <3>3. "BINARY" \notin DOMAIN SqlTypeOf
      BY Zenon DEF SqlTypeOf
    <3> HIDE DEF k
    <3> QED
      BY <1>2, <3>1, <3>2, <3>3, SMTT(30) DEF BinaryToSqlType, Some, None
  <2>4. CASE /\ s \in {SqlTypeOf[x] : x \in DOMAIN SqlTypeOf}
             /\ s \notin CharTypes \cup WideTypes \cup {"BIT"}
    <3>1. k = CHOOSE x \in DOMAIN SqlTypeOf : SqlTypeOf[x] = s
      BY <2>4, Zenon DEF SqlTypeToBinary, CharTypes, WideTypes, Some, None
    <3>2. k \in DOMAIN SqlTypeOf /\ SqlTypeOf[k] = s
      <4>1. \E x \in DOMAIN SqlTypeOf : SqlTypeOf[x] = s
        BY <2>4, Zenon
      <4> HIDE DEF k
      <4> QED
        BY <3>1, <4>1, Zenon
    <3> HIDE DEF k
    <3> QED
      BY <1>2, <3>2, SMTT(30) DEF BinaryToSqlType, Some, None
  <2> QED
    BY <2>1, <2>2, <2>3, <2>4, Zenon
<1>4. s \in {"BIT", "TINYINT", "SMALLINT", "INTEGER", "BIGINT", "FLOAT", "REAL", "DOUBLE",
             "TYPE_DATE", "TYPE_TIME", "TYPE_TIMESTAMP", "TYPE_NULL"} \cup LongTypes
  BY <1>1, SMTT(30) DEF SqlTypes, SqlTypeOf, LongTypes, CharTypes, WideTypes, BinaryTypes
<1>5. SqlTypeDisplaySize(s) >= SqlTypeColumnSize(s)
  BY <1>4, SMTT(30) DEF SqlTypeDisplaySize, SqlTypeColumnSize, SqlMaxLength
<1>6. \A x \in LongTypes : SqlTypeDisplaySize(x) = SqlMaxLength /\ SqlTypeColumnSize(x) = SqlMaxLength
  BY ZenonT(60) DEF SqlTypeDisplaySize, SqlTypeColumnSize, LongTypes, CharTypes, WideTypes, BinaryTypes
<1>7. /\ SqlTypeDisplaySize(t) = SqlTypeDisplaySize(s)
      /\ SqlTypeColumnSize(t) = SqlTypeColumnSize(s)
  <2> HIDE DEF t
  <2> QED
    BY <1>3, <1>6, Zenon
<1> QED
  BY <1>2, <1>5, <1>7, Zenon DEF s

LEMMA SizesOfColumns == ASSUME columns \in Results PROVE SizesAgree
<1>1. SUFFICES ASSUME GetMeta # None, NEW c \in ColumnMetas
               PROVE  LET t == SqlTypeToBinary(BinaryToSqlType(c.type))
                      IN  /\ NumericAttribute(c, "DISPLAY_SIZE") >= NumericAttribute(c, "PRECISION")
                          /\ OfBinaryType(SqlTypeDisplaySize, t)
                                = OfBinaryType(SqlTypeDisplaySize, c.type)
                          /\ OfBinaryType(SqlTypeColumnSize, t)
                                = OfBinaryType(SqlTypeColumnSize, c.type)
  <2>1. SUFFICES ASSUME GetMeta # None, NEW c \in {GetMeta[1][i] : i \in DOMAIN GetMeta[1]}
                 PROVE  c \in ColumnMetas
    BY <1>1, Zenon DEF SizesAgree
  <2>2. PICK d \in ColumnMetas : GetMeta = Some(<<d>>)
    BY <2>1, MetaHolds, Zenon
  <2> QED
    BY <2>1, <2>2, SMTT(30) DEF Some
<1>2. Missing(c.precision) /\ OrMinusOne(c.precision) = -1 /\ Missing(c.decimalDigits)
  BY ColumnHolds, SMTT(30) DEF Missing, OrMinusOne, Some, None
<1>3. NumericAttribute(c, "DISPLAY_SIZE") = OrMinusOne(OfBinaryType(SqlTypeDisplaySize, c.type))
  BY Zenon DEF NumericAttribute
<1>4. NumericAttribute(c, "PRECISION")
         = IF c.type # None THEN OrMinusOne(OfBinaryType(SqlTypeColumnSize, c.type)) ELSE -1
  BY <1>2, Zenon DEF NumericAttribute
<1>5. CASE c.type = None
  <2>1. OfBinaryType(SqlTypeDisplaySize, c.type) = None
        /\ SqlTypeToBinary(BinaryToSqlType(c.type)) = None
    BY <1>5, Zenon DEF OfBinaryType, SqlTypeToBinary, BinaryToSqlType
  <2>2. OrMinusOne(None) = -1
    BY Zenon DEF OrMinusOne
  <2> QED
    BY <1>3, <1>4, <1>5, <2>1, <2>2, SMTT(30)
<1>6. CASE c.type # None
  <2>1. PICK j \in JdbcTypes : c.type = Some(j)
    BY <1>6, ColumnHolds, Zenon
  <2> DEFINE s == BinaryToSqlType(Some(j))[1]
             b == SqlTypeToBinary(Some(s))
             t == BinaryToSqlType(b)[1]
  <2>2. BinaryToSqlType(c.type) = Some(s)
    BY <2>1, SqlTypeOfColumn, Zenon
  <2>3. /\ b # None
        /\ SqlTypeDisplaySize(t) = SqlTypeDisplaySize(s)
        /\ SqlTypeColumnSize(t) = SqlTypeColumnSize(s)
        /\ SqlTypeDisplaySize(s) >= SqlTypeColumnSize(s)
    BY SizesOfTypes, Zenon
  <2>4. BinaryToSqlType(c.type)[1] = s
    BY <2>1, Zenon
  <2> HIDE DEF s
  <2>5. /\ OfBinaryType(SqlTypeDisplaySize, c.type) = Some(SqlTypeDisplaySize(s))
        /\ OfBinaryType(SqlTypeColumnSize, c.type) = Some(SqlTypeColumnSize(s))
    BY <1>6, <2>4, Zenon DEF OfBinaryType
  <2> HIDE DEF b, t
  <2>6. /\ OfBinaryType(SqlTypeDisplaySize, b) = Some(SqlTypeDisplaySize(t))
        /\ OfBinaryType(SqlTypeColumnSize, b) = Some(SqlTypeColumnSize(t))
    BY <2>3, Zenon DEF OfBinaryType, t
  <2>7. ASSUME NEW n PROVE OrMinusOne(Some(n)) = n
    BY Zenon DEF OrMinusOne, Some, None
  <2>8. SqlTypeToBinary(BinaryToSqlType(c.type)) = b
    BY <2>2, Zenon DEF b
  <2> QED
    BY <1>3, <1>4, <1>6, <2>3, <2>5, <2>6, <2>7, <2>8, Zenon
<1> QED
  BY <1>5, <1>6, Zenon

-----------------------------------------------------------------------------
(***************************************************************************)
(* The other calls.                                                        *)
(***************************************************************************)

(* What every step keeps: the state has its type, the last call is sound.  *)
ApiInv ==
    /\ live \subseteq {"env", "dbc", "stmt"}
    /\ columns \in Results
    /\ code \in Codes
    /\ ReturnIsRecorded
    /\ CallIsSound

(* A null pattern goes to the query as one that matches anything. *)
LEMMA MetaQuerySound ==
    ASSUME NEW f \in CatalogFunctions, NEW a \in Names, NEW b \in Names,
           NEW c \in {"SUCCESS", "ERROR"}, ExecuteMetaQuery(f, <<None, a, b, a>>, c)
    PROVE  CallIsSound'
<1> DEFINE args == <<None, a, b, a>>
<1>1. last' = [fn |-> f, args |-> Filter(f, args), ret |-> c, out |-> NoOutput]
  BY Zenon DEF ExecuteMetaQuery, Call
<1>2. last'.fn = f /\ last'.args = Filter(f, args) /\ last'.ret = c /\ last'.out = NoOutput
  <2> HIDE DEF args
  <2> QED BY <1>1, Zenon
<1>3. f \in CatalogFunctions /\ f \notin {"SQLDescribeCol", "SQLNativeSql", "SQLDriverConnect",
                                        "SQLExtendedFetch"}
  BY Zenon DEF CatalogFunctions
<1>4. OrPercent(a) # "" /\ OrPercent(b) # ""
  <2>1. ASSUME NEW v \in Names PROVE OrPercent(v) # ""
    <3>1. CASE v = None
      BY <3>1, Zenon DEF OrPercent
    <3>2. CASE v # None
      <4>1. v = Some("name")
        BY <3>2, Zenon DEF Names
      <4>2. v[1] = "name"
        BY <4>1, Zenon DEF Some
      <4> QED
        BY <3>2, <4>2, Zenon DEF OrPercent
    <3> QED
      BY <3>1, <3>2, Zenon
  <2> QED
    BY <2>1, Zenon
<1>5. ASSUME NEW v PROVE Some(v) # None /\ Some(v)[1] = v
  BY Zenon DEF Some, None
<1>6. NullPatternIsAny'
  <2>1. CASE f = "SQLTables"
    <3>1. Filter(f, args)[3] = Some(OrPercent(b))
      BY <2>1, Zenon DEF Filter, SQLTablesFilter
    <3> HIDE DEF args
    <3> QED
      BY <1>2, <1>4, <1>5, <2>1, <3>1, Zenon DEF NullPatternIsAny
  <2>2. CASE f = "SQLColumns"
    <3>1. Filter(f, args)[3] = Some(OrPercent(b)) /\ Filter(f, args)[4] = Some(OrPercent(a))
      BY <2>2, Zenon DEF Filter, SQLColumnsFilter
    <3> HIDE DEF args
    <3> QED
      BY <1>2, <1>4, <1>5, <2>2, <3>1, ZenonT(60) DEF NullPatternIsAny
  <2> HIDE DEF args
  <2> QED
    BY <1>2, <2>1, <2>2, Zenon DEF NullPatternIsAny
<1> HIDE DEF args
<1>7. OutputsDefined'
  BY <1>2, <1>3, NothingWritten, Zenon DEF OutputsDefined
<1>8. CutIsReturned' /\ TextFits' /\ AskedLengthSuffices' /\ ExtendedFetchCounts'
      /\ DescribedTypeIsSupported'
  BY <1>2, <1>3, Zenon DEF CutIsReturned, TextFits, AskedLengthSuffices, ExtendedFetchCounts,
                    DescribedTypeIsSupported
<1> QED
  BY <1>2, <1>6, <1>7, <1>8, Zenon DEF CallIsSound, Codes

LEMMA SQLExtendedFetchSound ==
    ASSUME NEW r \in FetchResults, SQLExtendedFetch(r)
    PROVE  CallIsSound' /\ code' \in Codes
<1> DEFINE output == [NoOutput EXCEPT !.rows = r[2],
                        !.count = CASE r[1] = "SUCCESS" -> 1
                                    [] r[1] = "NO_DATA" -> 0
                                    [] OTHER            -> @]
<1>1. /\ r[1] \in Codes
      /\ RowArraySize = 1 /\ r[1] = "SUCCESS" => r[2] = 1
      /\ r[1] = "NO_DATA" => r[2] = 0
  <2>1. CASE r \in {<<"NO_DATA", 0>>, <<"ERROR", 0>>}
    BY <2>1, SMTT(30) DEF Codes
  <2>2. CASE r \notin {<<"NO_DATA", 0>>, <<"ERROR", 0>>}
    <3>1. PICK c \in {"SUCCESS", "SUCCESS_WITH_INFO"}, n \in 1 .. RowArraySize : r = <<c, n>>
      BY <2>2, SMTT(30) DEF FetchResults
    <3>2. RowArraySize = 1 => n = 1
      BY <3>1, SMTT(30)
    <3> QED
      BY <3>1, <3>2, Zenon DEF Codes
  <2> QED
    BY <2>1, <2>2, Zenon
<1>2. last' = [fn |-> "SQLExtendedFetch", args |-> <<>>, ret |-> r[1], out |-> output]
      /\ code' = r[1]
  BY Zenon DEF SQLExtendedFetch, Call
<1>3. /\ output.rows = r[2]
      /\ r[1] = "SUCCESS" => output.count = 1
      /\ r[1] = "NO_DATA" => output.count = 0
      /\ r[1] \notin {"SUCCESS", "NO_DATA"} => output.count = NotWritten
      /\ output.count \in {0, 1, NotWritten} /\ output.size = NotWritten
      /\ output.digits = NotWritten /\ output.nullable = NotWritten
      /\ output.length = NotWritten
  BY Zenon DEF NoOutput
<1> HIDE DEF output
<1>4. /\ last'.fn = "SQLExtendedFetch" /\ last'.ret = r[1] /\ last'.out = output
  BY <1>2, Zenon
<1>5. OutputsDefined'
  BY <1>3, <1>4, SMTT(30) DEF OutputsDefined, Uninitialised, NotWritten
<1>6. ExtendedFetchCounts'
  BY <1>1, <1>3, <1>4, Zenon DEF ExtendedFetchCounts
<1>7. CutIsReturned' /\ TextFits' /\ AskedLengthSuffices' /\ NullPatternIsAny'
      /\ DescribedTypeIsSupported'
  BY <1>4, Zenon DEF CutIsReturned, TextFits, AskedLengthSuffices, NullPatternIsAny,
              DescribedTypeIsSupported
<1> QED
  BY <1>1, <1>2, <1>4, <1>5, <1>6, <1>7, Zenon DEF CallIsSound

(* An attribute the environment does not know has no length, and the call  *)
(* fails.                                                                  *)
LEMMA SQLGetEnvAttrSound ==
    ASSUME NEW attr \in EnvironmentAttributes, SQLGetEnvAttr(attr)
    PROVE  CallIsSound'
<1> DEFINE r == InternalGetAttribute(attr)
           output == [NoOutput EXCEPT !.count = r.value, !.length = r.length]
<1>1. /\ r.code \in Codes
      /\ Succeeded(r.code) => r.value # Uninitialised /\ r.length # Uninitialised
  BY SMTT(30) DEF InternalGetAttribute, EnvironmentValue, Codes, Succeeded, Uninitialised
<1>2. Call("SQLGetEnvAttr", <<attr>>, r.code, output)
  BY Zenon DEF SQLGetEnvAttr
<1> HIDE DEF r
<1>3. /\ output.count = r.value /\ output.length = r.length /\ output.size = NotWritten
      /\ output.digits = NotWritten /\ output.nullable = NotWritten
  BY Zenon DEF NoOutput
<1> HIDE DEF output
<1>4. Succeeded(r.code) => Uninitialised \notin {output.count, output.size, output.digits,
                                                output.nullable, output.length}
  BY <1>1, <1>3, SMTT(30) DEF Uninitialised, NotWritten
<1>5. "SQLGetEnvAttr" \notin Singled
  BY Zenon DEF Singled
<1> QED
  BY <1>1, <1>2, <1>4, <1>5, OrdinaryCall, Zenon

(* The number of columns is set unless the call fails. *)
LEMMA ColumnNumberSet ==
    ASSUME columns \in Results
    PROVE  /\ InternalGetColumnNumber.code \in {"SUCCESS", "ERROR"}
           /\ InternalGetColumnNumber.code = "SUCCESS" =>
                 InternalGetColumnNumber.number # Uninitialised
<1>1. CASE GetMeta = None
  BY <1>1, Zenon DEF InternalGetColumnNumber
<1>2. CASE GetMeta # None
  <2>1. PICK c \in ColumnMetas : GetMeta = Some(<<c>>)
    BY <1>2, MetaHolds, Zenon
  <2>2. Len(GetMeta[1]) = 1
    BY <2>1, Zenon DEF Some
  <2> QED
    BY <1>2, <2>2, SMTT(30) DEF InternalGetColumnNumber, Uninitialised
<1> QED
  BY <1>1, <1>2, Zenon

LEMMA SQLNumResultColsSound ==
    ASSUME columns \in Results, SQLNumResultCols
    PROVE  CallIsSound' /\ code' \in Codes
<1> DEFINE r == InternalGetColumnNumber
           output == [NoOutput EXCEPT !.count = r.number]
<1>1. r.code \in Codes /\ (Succeeded(r.code) => r.number # Uninitialised)
  BY ColumnNumberSet, Zenon DEF Codes, Succeeded
<1>2. code' = r.code /\ Call("SQLNumResultCols", <<>>, r.code, output)
  BY Zenon DEF SQLNumResultCols
<1> HIDE DEF r
<1>3. Succeeded(r.code) => Uninitialised \notin {output.count, output.size, output.digits,
                                                output.nullable, output.length}
  BY <1>1, SMTT(30) DEF NoOutput, Uninitialised, NotWritten
<1> HIDE DEF output
<1>4. "SQLNumResultCols" \notin Singled
  BY Zenon DEF Singled
<1> QED
  BY <1>1, <1>2, <1>3, <1>4, OrdinaryCall, Zenon

LEMMA SQLColAttributeSound ==
    ASSUME columns \in Results, NEW index \in Int, NEW id, NEW numeric \in BOOLEAN,
           SQLColAttribute(index, id, numeric)
    PROVE  CallIsSound' /\ code' \in Codes
<1> DEFINE n == InternalGetColumnNumber
           r == InternalGetColumnAttribute(index, id, Some(32), 32, numeric)
<1>1. n.code \in Codes /\ ((n.code = "SUCCESS") => n.number # Uninitialised)
  BY ColumnNumberSet, Zenon DEF Codes
<1>2. r.code \in Codes
  BY Zenon DEF InternalGetColumnAttribute, Codes
<1>3. "SQLColAttribute" \notin Singled
  BY Zenon DEF Singled
<1> HIDE DEF n, r
<1>4. CASE id = "COUNT"
  <2> DEFINE output == [NoOutput EXCEPT
                          !.count = IF numeric /\ n.code = "SUCCESS" THEN n.number ELSE @]
  <2>1. code' = n.code /\ Call("SQLColAttribute", <<id>>, n.code, output)
    BY <1>4, Zenon DEF SQLColAttribute, n
  <2>2. Uninitialised \notin {output.count, output.size, output.digits, output.nullable,
                             output.length}
    BY <1>1, SMTT(30) DEF NoOutput, Uninitialised, NotWritten
  <2> HIDE DEF output
  <2> QED
    BY <1>1, <1>3, <2>1, <2>2, OrdinaryCall, Zenon
<1>5. CASE id # "COUNT"
  <2> DEFINE output == [NoOutput EXCEPT
                          !.count = IF numeric /\ r.number # Uninitialised THEN r.number ELSE @,
                          !.type = r.type]
  <2>1. code' = r.code /\ Call("SQLColAttribute", <<id>>, r.code, output)
    BY <1>5, Zenon DEF SQLColAttribute, r
  <2>2. Uninitialised \notin {output.count, output.size, output.digits, output.nullable,
                             output.length}
    BY SMTT(30) DEF NoOutput, Uninitialised, NotWritten
  <2> HIDE DEF output
  <2> QED
    BY <1>2, <1>3, <2>1, <2>2, OrdinaryCall, Zenon
<1> QED
  BY <1>4, <1>5, Zenon

LEMMA SQLNumParamsSound ==
    ASSUME NEW pointer \in BOOLEAN, NEW c \in Codes, code \in Codes, SQLNumParams(pointer, c)
    PROVE  CallIsSound' /\ code' \in Codes
<1> DEFINE output == [NoOutput EXCEPT !.count = IF pointer THEN 0 ELSE @]
<1>1. code' \in Codes /\ Call("SQLNumParams", <<pointer>>, code', output)
  BY Zenon DEF SQLNumParams
<1>2. Uninitialised \notin {output.count, output.size, output.digits, output.nullable,
                           output.length}
  BY SMTT(30) DEF NoOutput, Uninitialised, NotWritten
<1>3. "SQLNumParams" \notin Singled
  BY Zenon DEF Singled
<1>4. PICK ret \in Codes : ret = code'
  BY <1>1, Zenon
<1> HIDE DEF output
<1> QED
  BY <1>1, <1>2, <1>3, <1>4, OrdinaryCall, Zenon

(* A call that returns the code it left in the diagnostics, and a call on  *)
(* no statement.                                                           *)
LEMMA CodeIsReturned ==
    ASSUME NEW f, NEW args, NEW ret, NEW output, Call(f, args, ret, output), code' = ret
    PROVE  ReturnIsRecorded'
BY Zenon DEF Call, ReturnIsRecorded

LEMMA NotOnStatement ==
    ASSUME NEW f, NEW args, NEW ret, NEW output, Call(f, args, ret, output),
           f \notin StatementFunctions \/ ret = "INVALID_HANDLE"
    PROVE  ReturnIsRecorded'
BY Zenon DEF Call, ReturnIsRecorded

LEMMA StatementCodeRecorded ==
    ASSUME columns \in Results, StatementNext
    PROVE  ReturnIsRecorded'
<1>1. CASE SQLNumResultCols
  BY <1>1, CodeIsReturned, Zenon DEF SQLNumResultCols
<1>2. ASSUME NEW i, NEW id, NEW numeric, SQLColAttribute(i, id, numeric)
      PROVE  ReturnIsRecorded'
  BY <1>2, CodeIsReturned, Zenon DEF SQLColAttribute
<1>3. CASE \E i \in 0..2, b \in NameBuffers : SQLDescribeCol(i, b)
  BY <1>3, SQLDescribeColSound, SMTT(30)
<1>4. ASSUME NEW r, SQLExtendedFetch(r) PROVE ReturnIsRecorded'
  BY <1>4, CodeIsReturned, Zenon DEF SQLExtendedFetch
<1>5. ASSUME NEW f, NEW c, ExecuteQuery(f, c) PROVE ReturnIsRecorded'
  BY <1>5, CodeIsReturned, Zenon DEF ExecuteQuery
<1>6. ASSUME NEW f, NEW args, NEW c, ExecuteMetaQuery(f, args, c) PROVE ReturnIsRecorded'
  BY <1>6, CodeIsReturned, Zenon DEF ExecuteMetaQuery
<1>7. ASSUME NEW f, NEW c, Forward(f, c) PROVE ReturnIsRecorded'
  BY <1>7, CodeIsReturned, Zenon DEF Forward
<1>8. ASSUME NEW c, SQLCloseCursor(c) PROVE ReturnIsRecorded'
  BY <1>8, CodeIsReturned, Zenon DEF SQLCloseCursor
<1>9. ASSUME NEW p, NEW c, SQLNumParams(p, c) PROVE ReturnIsRecorded'
  <2>1. last'.ret = code'
    BY <1>9, Zenon DEF SQLNumParams, Call
  <2> QED
    BY <2>1, Zenon DEF ReturnIsRecorded
<1> QED
  BY <1>1, <1>2, <1>3, <1>4, <1>5, <1>6, <1>7, <1>8, <1>9, ZenonT(60) DEF StatementNext

LEMMA OtherCodeRecorded ==
    ASSUME Calls, ~StatementNext
    PROVE  ReturnIsRecorded'
<1>1. /\ {"SQLNativeSql", "SQLDriverConnect", "SQLGetEnvAttr", "SQLSetEnvAttr", "SQLAllocHandle",
          "SQLFreeHandle"} \cap StatementFunctions = {}
      /\ ConnectionFunctions \cap StatementFunctions = {}
  BY Zenon DEF StatementFunctions, ConnectionFunctions, QueryFunctions, CatalogFunctions,
     BindFunctions, RowFunctions
<1>2. UnsupportedFunctions \cap StatementFunctions = {}
  BY SMTT(30) DEF StatementFunctions, UnsupportedFunctions, UnsupportedCursors,
     UnsupportedCatalog, UnsupportedDescriptors, QueryFunctions, CatalogFunctions, BindFunctions,
     RowFunctions
<1> HIDE DEF StatementFunctions, UnsupportedFunctions, ConnectionFunctions
<1>3. ASSUME NEW t, NEW n, NEW b, SQLNativeSql(t, n, b) PROVE ReturnIsRecorded'
  BY <1>1, <1>3, NotOnStatement, Zenon DEF SQLNativeSql
<1>4. ASSUME NEW t, NEW b, NEW c, SQLDriverConnect(t, b, c) PROVE ReturnIsRecorded'
  BY <1>1, <1>4, NotOnStatement, Zenon DEF SQLDriverConnect
<1>5. ASSUME NEW f \in ConnectionFunctions, NEW c, ForwardConnection(f, c)
      PROVE  ReturnIsRecorded'
  BY <1>1, <1>5, NotOnStatement, Zenon DEF ForwardConnection
<1>6. ASSUME NEW a, SQLGetEnvAttr(a) PROVE ReturnIsRecorded'
  BY <1>1, <1>6, NotOnStatement, Zenon DEF SQLGetEnvAttr
<1>7. ASSUME NEW a, NEW v, SQLSetEnvAttr(a, v) PROVE ReturnIsRecorded'
  BY <1>1, <1>7, NotOnStatement, Zenon DEF SQLSetEnvAttr
<1>8. ASSUME NEW t, Alloc(t) PROVE ReturnIsRecorded'
  BY <1>1, <1>8, NotOnStatement, Zenon DEF Alloc
<1>9. ASSUME NEW t, AllocNothing(t) PROVE ReturnIsRecorded'
  BY <1>1, <1>9, NotOnStatement, Zenon DEF AllocNothing
<1>10. ASSUME NEW t, Free(t) PROVE ReturnIsRecorded'
  BY <1>1, <1>10, NotOnStatement, Zenon DEF Free
<1>11. CASE FreeNothing
  BY <1>1, <1>11, NotOnStatement, Zenon DEF FreeNothing
<1>12. ASSUME NEW f, NullHandle(f) PROVE ReturnIsRecorded'
  BY <1>12, NotOnStatement, Zenon DEF NullHandle
<1>13. ASSUME NEW f \in UnsupportedFunctions, Unsupported(f) PROVE ReturnIsRecorded'
  BY <1>2, <1>13, NotOnStatement, Zenon DEF Unsupported
<1> QED
  BY <1>3, <1>4, <1>5, <1>6, <1>7, <1>8, <1>9, <1>10, <1>11, <1>12, <1>13, ZenonT(60) DEF Calls

(* The calls on a statement. *)
LEMMA StatementCallSound ==
    ASSUME live \subseteq {"env", "dbc", "stmt"}, columns \in Results, code \in Codes,
           StatementNext
    PROVE  ApiInv'
<1>1. live' = live
  BY ZenonT(60) DEF StatementNext, SQLNumResultCols, SQLColAttribute, SQLDescribeCol, SQLExtendedFetch,
         ExecuteQuery, ExecuteMetaQuery, Forward, SQLCloseCursor, SQLNumParams
<1>2. columns' \in Results
  <2>1. CatalogColumns \subseteq ColumnMetas
    BY SMTT(30) DEF ColumnMetas
  <2>2. {None, Some(None)} \cup {Some(Some(<<r>>)) : r \in CatalogColumns} \subseteq Results
    BY <2>1, Zenon DEF Results
  <2>3. None \in Results
    BY Zenon DEF Results
  <2> QED
    BY <2>2, <2>3, ZenonT(60) DEF StatementNext, SQLNumResultCols, SQLColAttribute, SQLDescribeCol,
           SQLExtendedFetch, ExecuteQuery, ExecuteMetaQuery, Forward, SQLCloseCursor,
           SQLNumParams
<1>3. {"SUCCESS", "ERROR"} \subseteq Codes
  BY Zenon DEF Codes
<1>4. CallIsSound' /\ code' \in Codes
  <2>1. CASE SQLNumResultCols
    BY <2>1, SQLNumResultColsSound, Zenon
  <2>2. CASE \E i \in 0..2, id \in NumericAttributes \cup StringAttributes
                                    \cup {"TYPE", "NULLABLE", "COUNT", "UNKNOWN"},
                numeric \in BOOLEAN : SQLColAttribute(i, id, numeric)
    BY <2>2, SQLColAttributeSound, SMTT(30)
  <2>3. CASE \E i \in 0..2, b \in NameBuffers : SQLDescribeCol(i, b)
    BY <2>3, SQLDescribeColSound, SMTT(30)
  <2>4. CASE \E r \in FetchResults : SQLExtendedFetch(r)
    BY <2>4, SQLExtendedFetchSound, Zenon
  <2>5. CASE \E c \in {"SUCCESS", "ERROR"}, f \in QueryFunctions : ExecuteQuery(f, c)
    <3>1. \A f \in QueryFunctions : f \notin Singled
      BY Zenon DEF QueryFunctions, Singled
    <3> QED
      BY <1>3, <2>5, <3>1, SilentCall, Zenon DEF ExecuteQuery
  <2>6. CASE \E c \in {"SUCCESS", "ERROR"}, f \in CatalogFunctions, a \in Names, b \in Names :
                ExecuteMetaQuery(f, <<None, a, b, a>>, c)
    <3>1. code' \in Codes
      BY <1>3, <2>6, Zenon DEF ExecuteMetaQuery
    <3> QED
      BY <2>6, <3>1, MetaQuerySound, Zenon
  <2>7. CASE \E c \in Codes, f \in BindFunctions \cup RowFunctions : Forward(f, c)
    <3>1. \A f \in BindFunctions \cup RowFunctions : f \notin Singled
      BY Zenon DEF BindFunctions, RowFunctions, Singled
    <3> QED
      BY <2>7, <3>1, SilentCall, Zenon DEF Forward
  <2>8. CASE \E c \in Codes : SQLCloseCursor(c)
    <3>1. "SQLCloseCursor" \notin Singled
      BY Zenon DEF Singled
    <3> QED
      BY <2>8, <3>1, SilentCall, Zenon DEF SQLCloseCursor
  <2>9. CASE \E c \in Codes, p \in BOOLEAN : SQLNumParams(p, c)
    BY <2>9, SQLNumParamsSound, Zenon
  <2> QED
    BY <2>1, <2>2, <2>3, <2>4, <2>5, <2>6, <2>7, <2>8, <2>9, Zenon DEF StatementNext
<1> QED
  BY <1>1, <1>2, <1>4, StatementCodeRecorded, Zenon DEF ApiInv

(* A null handle is told before anything else is looked at. *)
LEMMA NullHandleSound ==
    ASSUME NEW f \in HandleFunctions, NullHandle(f)
    PROVE  CallIsSound'
<1>1. /\ last'.fn = f /\ last'.ret = "INVALID_HANDLE" /\ last'.out = NoOutput
  BY Zenon DEF NullHandle, Call
<1>2. f \notin {"SQLDescribeCol", "SQLNativeSql", "SQLDriverConnect", "SQLExtendedFetch"}
  BY Zenon DEF HandleFunctions, QueryFunctions, CatalogFunctions, BindFunctions, RowFunctions,
         ConnectionFunctions
<1> QED
  BY <1>1, <1>2, Zenon DEF CallIsSound, Succeeded, OutputsDefined, CutIsReturned, TextFits,
     AskedLengthSuffices, NullPatternIsAny, ExtendedFetchCounts, DescribedTypeIsSupported

(* Every call, on any handle. *)
LEMMA CallSound ==
    ASSUME ApiInv, Calls
    PROVE  ApiInv'
<1>1. /\ live \subseteq {"env", "dbc", "stmt"} /\ columns \in Results /\ code \in Codes
  BY Zenon DEF ApiInv
<1>2. {"SUCCESS", "ERROR", "SUCCESS_WITH_INFO"} \subseteq Codes
  BY Zenon DEF Codes
<1>3. CASE StatementNext
  BY <1>1, <1>3, StatementCallSound, Zenon
<1> SUFFICES ASSUME ~StatementNext PROVE ApiInv'
  BY <1>3, Zenon
<1>r. ReturnIsRecorded'
  BY OtherCodeRecorded, Zenon
<1>4. CASE \E b \in TextBuffers, n \in {NTS} \cup Texts :
             \/ SQLNativeSql(None, n, b)
             \/ \E t \in Texts : SQLNativeSql(Some(t), n, b)
  <2>1. CallIsSound'
    BY <1>4, SQLNativeSqlSound, Zenon
  <2>2. live' = live /\ columns' = columns /\ code' = code
    BY <1>4, Zenon DEF SQLNativeSql
  <2> QED
    BY <1>r, <1>1, <2>1, <2>2, Zenon DEF ApiInv
<1>5. CASE \E t \in Texts, b \in TextBuffers, c \in Codes : SQLDriverConnect(t, b, c)
  <2>1. CallIsSound'
    BY <1>5, SQLDriverConnectSound, Zenon
  <2>2. live' = live /\ columns' = columns /\ code' = code
    BY <1>5, Zenon DEF SQLDriverConnect
  <2> QED
    BY <1>r, <1>1, <2>1, <2>2, Zenon DEF ApiInv
<1>6. CASE \E f \in ConnectionFunctions, c \in Codes : ForwardConnection(f, c)
  <2>1. \A f \in ConnectionFunctions : f \notin Singled
    BY Zenon DEF ConnectionFunctions, Singled
  <2>2. CallIsSound'
    BY <1>6, <2>1, SilentCall, Zenon DEF ForwardConnection
  <2>3. live' = live /\ columns' = columns /\ code' = code
    BY <1>6, Zenon DEF ForwardConnection
  <2> QED
    BY <1>r, <1>1, <2>2, <2>3, Zenon DEF ApiInv
<1>7. CASE \E a \in EnvironmentAttributes : SQLGetEnvAttr(a)
  <2>1. CallIsSound'
    BY <1>7, SQLGetEnvAttrSound, Zenon
  <2>2. live' = live /\ columns' = columns /\ code' = code
    BY <1>7, Zenon DEF SQLGetEnvAttr
  <2> QED
    BY <1>r, <1>1, <2>1, <2>2, Zenon DEF ApiInv
<1>8. CASE \E a \in EnvironmentAttributes, v \in {1, 2, 3} : SQLSetEnvAttr(a, v)
  <2>1. PICK a \in EnvironmentAttributes, v \in {1, 2, 3} : SQLSetEnvAttr(a, v)
    BY <1>8, Zenon
  <2>2. PICK ret \in Codes : Call("SQLSetEnvAttr", <<a>>, ret, NoOutput)
    BY <1>2, <2>1, Zenon DEF SQLSetEnvAttr
  <2>3. "SQLSetEnvAttr" \notin Singled
    BY Zenon DEF Singled
  <2>4. CallIsSound'
    BY <2>2, <2>3, SilentCall, Zenon
  <2>5. live' = live /\ columns' = columns /\ code' = code
    BY <2>1, Zenon DEF SQLSetEnvAttr
  <2> QED
    BY <1>r, <1>1, <2>4, <2>5, Zenon DEF ApiInv
<1>9. CASE \E t \in DOMAIN Parent : Alloc(t)
  <2>1. PICK t \in DOMAIN Parent : Alloc(t)
    BY <1>9, Zenon
  <2> DEFINE output == [NoOutput EXCEPT !.handle = "given"]
  <2>2. Uninitialised \notin {output.count, output.size, output.digits, output.nullable,
                             output.length}
    BY SMTT(30) DEF NoOutput, Uninitialised, NotWritten
  <2>3. Call("SQLAllocHandle", <<t>>, "SUCCESS", output) /\ "SQLAllocHandle" \notin Singled
    BY <2>1, Zenon DEF Alloc, Singled
  <2> HIDE DEF output
  <2>4. CallIsSound'
    BY <1>2, <2>2, <2>3, OrdinaryCall, Zenon
  <2>5. t \in {"env", "dbc", "stmt"} /\ None \in Results
    BY Zenon DEF Parent, Results
  <2>6. live' \subseteq {"env", "dbc", "stmt"} /\ columns' \in Results /\ code' \in Codes
    BY <1>1, <1>2, <2>1, <2>5, Zenon DEF Alloc
  <2> QED
    BY <1>r, <2>4, <2>6, Zenon DEF ApiInv
<1>10. CASE \E t \in DOMAIN Parent : Free(t)
  <2>1. "SQLFreeHandle" \notin Singled
    BY Zenon DEF Singled
  <2>2. CallIsSound'
    BY <1>2, <1>10, <2>1, SilentCall, Zenon DEF Free
  <2>3. live' \subseteq live /\ columns' = columns /\ code' = code
    BY <1>10, Zenon DEF Free
  <2> QED
    BY <1>r, <1>1, <2>2, <2>3, Zenon DEF ApiInv
<1>11. CASE \E t \in {"desc", "other"} : AllocNothing(t)
  <2>1. PICK t \in {"desc", "other"} : AllocNothing(t)
    BY <1>11, Zenon
  <2> DEFINE output == [NoOutput EXCEPT !.handle = "null"]
  <2>2. Uninitialised \notin {output.count, output.size, output.digits, output.nullable,
                             output.length}
    BY SMTT(30) DEF NoOutput, Uninitialised, NotWritten
  <2>3. Call("SQLAllocHandle", <<t>>, "ERROR", output) /\ "SQLAllocHandle" \notin Singled
    BY <2>1, Zenon DEF AllocNothing, Singled
  <2> HIDE DEF output
  <2>4. CallIsSound'
    BY <1>2, <2>2, <2>3, OrdinaryCall, Zenon
  <2>5. live' = live /\ columns' = columns /\ code' = code
    BY <2>1, Zenon DEF AllocNothing
  <2> QED
    BY <1>r, <1>1, <2>4, <2>5, Zenon DEF ApiInv
<1>12. CASE FreeNothing
  <2>1. "SQLFreeHandle" \notin Singled
    BY Zenon DEF Singled
  <2>2. CallIsSound'
    BY <1>2, <1>12, <2>1, SilentCall, Zenon DEF FreeNothing
  <2>3. live' = live /\ columns' = columns /\ code' = code
    BY <1>12, Zenon DEF FreeNothing
  <2> QED
    BY <1>r, <1>1, <2>2, <2>3, Zenon DEF ApiInv
<1>13. CASE \E f \in HandleFunctions : NullHandle(f)
  <2>1. PICK f \in HandleFunctions : NullHandle(f)
    BY <1>13, Zenon
  <2>2. live' = live /\ columns' = columns /\ code' = code
    BY <2>1, Zenon DEF NullHandle
  <2>3. CallIsSound'
    BY <2>1, NullHandleSound, Zenon
  <2> QED
    BY <1>r, <1>1, <2>2, <2>3, Zenon DEF ApiInv
<1>14. CASE \E f \in UnsupportedFunctions : Unsupported(f)
  <2>1. \A f \in UnsupportedFunctions : f \notin Singled
    BY Zenon DEF UnsupportedFunctions, UnsupportedCursors, UnsupportedCatalog, UnsupportedDescriptors,
           Singled
  <2>2. CallIsSound'
    BY <1>2, <1>14, <2>1, SilentCall, Zenon DEF Unsupported
  <2>3. live' = live /\ columns' = columns /\ code' = code
    BY <1>14, Zenon DEF Unsupported
  <2> QED
    BY <1>r, <1>1, <2>2, <2>3, Zenon DEF ApiInv
<1> QED
  BY <1>4, <1>5, <1>6, <1>7, <1>8, <1>9, <1>10, <1>11, <1>12, <1>13, <1>14, Zenon DEF Calls

LEMMA NoCallSound == ASSUME last = NoCall PROVE CallIsSound
<1>1. last.fn = "none" /\ last.ret = "SUCCESS" /\ last.out = NoOutput
  BY Zenon DEF NoCall
<1> QED
  BY <1>1, NothingWritten, Zenon DEF CallIsSound, Codes, OutputsDefined, CutIsReturned, TextFits,
     AskedLengthSuffices, NullPatternIsAny, ExtendedFetchCounts, DescribedTypeIsSupported

LEMMA ApiInitially == Init => ApiInv
<1> SUFFICES ASSUME Init PROVE ApiInv
  BY Zenon
<1>1. CallIsSound
  BY NoCallSound, Zenon DEF Init
<1>2. ReturnIsRecorded
  <2>1. last.fn = "none"
    BY Zenon DEF Init, NoCall
  <2> QED
    BY <2>1, Zenon DEF ReturnIsRecorded, StatementFunctions, QueryFunctions, CatalogFunctions,
       BindFunctions, RowFunctions
<1> QED
  BY <1>1, <1>2, Zenon DEF Init, ApiInv, Results, Codes

LEMMA ApiPreserved == ApiInv /\ [Next]_vars => ApiInv'
<1> SUFFICES ASSUME ApiInv, [Next]_vars PROVE ApiInv'
  BY Zenon
<1>1. CASE last = NoCall /\ Calls
  BY <1>1, CallSound, Zenon
<1>2. CASE Looked
  <2>1. CallIsSound'
    <3>1. last' = NoCall
      BY <1>2, Zenon DEF Looked
    <3>2. last'.fn = "none" /\ last'.ret = "SUCCESS" /\ last'.out = NoOutput
      BY <3>1, Zenon DEF NoCall
    <3> QED
      BY <3>2, NothingWritten, Zenon DEF CallIsSound, Codes, OutputsDefined, CutIsReturned, TextFits,
         AskedLengthSuffices, NullPatternIsAny, ExtendedFetchCounts, DescribedTypeIsSupported
  <2>2. ReturnIsRecorded'
    <3>1. last'.fn = "none"
      BY <1>2, Zenon DEF Looked, NoCall
    <3> QED
      BY <3>1, Zenon DEF ReturnIsRecorded, StatementFunctions, QueryFunctions, CatalogFunctions,
         BindFunctions, RowFunctions
  <2> QED
    BY <1>2, <2>1, <2>2, Zenon DEF ApiInv, Looked
<1>3. CASE UNCHANGED vars
  BY <1>3, ZenonT(60) DEF vars, ApiInv, ReturnIsRecorded, CallIsSound, OutputsDefined,
     CutIsReturned, WholeLength, GetMeta, TextFits, AskedLengthSuffices, NullPatternIsAny,
     ExtendedFetchCounts, DescribedTypeIsSupported
<1> QED
  BY <1>1, <1>2, <1>3, Zenon DEF Next

(* No function that says it succeeded has written an output from a         *)
(* variable without a value (SQLNumResultCols, SQLDescribeCol and          *)
(* SQLGetEnvAttr copy a local variable whatever the method did).           *)
THEOREM OutputsAreDefined == Spec => []OutputsDefined
<1>1. ApiInv => OutputsDefined
  BY Zenon DEF ApiInv, CallIsSound
<1> QED
  BY ApiInitially, ApiPreserved, <1>1, PTL DEF Spec

(* What a function returns is what the diagnostics of its statement say,   *)
(* apart from a name that SQLDescribeCol cut.  A text that is cut is told  *)
(* to be, what is copied fits its buffer, whatever the length of the name  *)
(* and the size of the buffer, null patterns match anything, and rowsets   *)
(* of one row are counted.                                                 *)
THEOREM InterfaceIsForwarded == Spec => []InterfaceForwards
<1>1. ApiInv => InterfaceForwards
  BY Zenon DEF ApiInv, CallIsSound, InterfaceForwards, TypeOK
<1> QED
  BY ApiInitially, ApiPreserved, <1>1, PTL DEF Spec

(* The SQL type told of a column is one the driver takes, its display size *)
(* holds its digits, and SQLGetTypeInfo tells the same sizes.              *)
THEOREM ColumnsDescribed == Spec => []ColumnsAreDescribed
<1>1. ApiInv => ColumnsAreDescribed
  BY SizesOfColumns, Zenon DEF ApiInv, CallIsSound, ColumnsAreDescribed
<1> QED
  BY ApiInitially, ApiPreserved, <1>1, PTL DEF Spec

-----------------------------------------------------------------------------
(***************************************************************************)
(* The answers that depend on the connection.                              *)
(***************************************************************************)

(* While a connection is open, each answer is that of the connection. *)
InfoInv ==
    /\ info = [t \in Changing |-> info[t]]
    /\ conn # None /\ conn[1].usable =>
          /\ info["USER_NAME"] = conn[1].with.user
          /\ info["DATABASE_NAME"] = conn[1].with.database
          /\ info["DATA_SOURCE_NAME"] = conn[1].with.dsn
          /\ conn[1].version # None => info["DBMS_VER"] = conn[1].version[1]

(* ConnectionInfo::SetInfo changes the answers that change. *)
LEMMA ChangingAreStrings == Changing \subseteq DOMAIN strParams
<1>1. ASSUME NEW f, NEW g PROVE DOMAIN With(f, g) = DOMAIN f \cup DOMAIN g
  BY Zenon DEF With
<1>2. {"DBMS_VER", "DATABASE_NAME", "DATA_SOURCE_NAME"} \subseteq DOMAIN strParams1
  BY <1>1, ZenonT(60) DEF strParams1
<1>3. "USER_NAME" \in DOMAIN strParams2
  BY Zenon DEF strParams2, With
<1>4. DOMAIN strParams = DOMAIN strParams1 \cup DOMAIN strParams2
  BY Zenon DEF strParams, With
<1> QED
  BY <1>2, <1>3, <1>4, Zenon DEF Changing

LEMMA SetInfoSets ==
    ASSUME NEW type \in Changing, NEW map, NEW value
    PROVE  SetInfo(map, type, value) = [map EXCEPT ![type] = value]
BY ChangingAreStrings, Zenon DEF SetInfo

(* The answers after a connection was made or half made. *)
LEMMA RuntimeInfo ==
    ASSUME NEW c, NEW map, map = [t \in Changing |-> map[t]]
    PROVE  LET new == UpdateConnectionRuntimeInfo(c, map)
           IN  /\ new = [t \in Changing |-> new[t]]
               /\ new["USER_NAME"] = c.user /\ new["DATABASE_NAME"] = c.database
               /\ new["DATA_SOURCE_NAME"] = c.dsn /\ new["DBMS_VER"] = map["DBMS_VER"]
<1>1. UpdateConnectionRuntimeInfo(c, map)
         = [[[map EXCEPT !["USER_NAME"] = c.user] EXCEPT !["DATABASE_NAME"] = c.database]
               EXCEPT !["DATA_SOURCE_NAME"] = c.dsn]
  BY SetInfoSets, SMTT(30) DEF UpdateConnectionRuntimeInfo, Changing
<1> QED
  BY <1>1, Zenon DEF Changing

LEMMA VersionInfo ==
    ASSUME NEW version, NEW map, map = [t \in Changing |-> map[t]]
    PROVE  LET new == UpdateSqlDbmsVerInfo(version, map)
           IN  /\ new = [t \in Changing |-> new[t]]
               /\ version # None => new["DBMS_VER"] = version[1]
<1>1. "DBMS_VER" \in Changing
  BY Zenon DEF Changing
<1>2. CASE version = None
  BY <1>2, Zenon DEF UpdateSqlDbmsVerInfo
<1>3. CASE version # None
  <2>1. UpdateSqlDbmsVerInfo(version, map) = [map EXCEPT !["DBMS_VER"] = version[1]]
    BY <1>1, <1>3, SetInfoSets, SMTT(30) DEF UpdateSqlDbmsVerInfo
  <2> QED
    BY <1>1, <2>1, Zenon
<1> QED
  BY <1>2, <1>3, Zenon

LEMMA InfoInitially == InfoInit => InfoInv
BY Zenon DEF InfoInit, InfoInv

LEMMA InfoPreserved == InfoInv /\ [InfoNext]_infoVars => InfoInv'
<1> SUFFICES ASSUME InfoInv, [InfoNext]_infoVars PROVE InfoInv'
  BY Zenon
<1> USE DEF InfoInv
<1>1. ASSUME NEW c \in Requests, NEW outcome \in Attempts,
             NEW version \in {None} \cup {Some(w) : w \in Versions},
             InternalEstablish(c, outcome, version)
      PROVE  InfoInv'
  <2>1. CASE conn # None
    BY <1>1, <2>1, Zenon DEF InternalEstablish
  <2>2. CASE conn = None /\ outcome = "noContext"
    BY <1>1, <2>2, Zenon DEF InternalEstablish, TryRestoreConnection
  <2>3. CASE conn = None /\ outcome = "jdbcFailed"
    <3>1. conn' = Unusable(c) /\ info' = info
      BY <1>1, <2>3, Zenon DEF InternalEstablish, TryRestoreConnection
    <3>2. conn'[1].usable = FALSE
      BY <3>1, Zenon DEF Unusable, Some
    <3> QED
      BY <3>1, <3>2, Zenon
  <2>4. CASE conn = None /\ outcome = "clientFailed"
    <3>1. conn' = Unusable(c) /\ info' = UpdateConnectionRuntimeInfo(c, info)
      BY <1>1, <2>4, Zenon DEF InternalEstablish, TryRestoreConnection
    <3>2. conn'[1].usable = FALSE
      BY <3>1, Zenon DEF Unusable, Some
    <3>3. info' = [t \in Changing |-> info'[t]]
      BY <3>1, RuntimeInfo, SMTT(30)
    <3> QED
      BY <3>2, <3>3, Zenon
  <2>5. CASE conn = None /\ outcome = "connected"
    <3> DEFINE told == UpdateSqlDbmsVerInfo(version, info)
    <3>1. conn' = Usable(c, version) /\ info' = UpdateConnectionRuntimeInfo(c, told)
      BY <1>1, <2>5, Zenon DEF InternalEstablish, TryRestoreConnection
    <3>2. conn'[1].with = c /\ conn'[1].version = version
      BY <3>1, Zenon DEF Usable, Some
    <3>3. told = [t \in Changing |-> told[t]] /\ (version # None => told["DBMS_VER"] = version[1])
      BY VersionInfo, Zenon
    <3> HIDE DEF told
    <3>4. /\ info' = [t \in Changing |-> info'[t]]
          /\ info'["USER_NAME"] = c.user /\ info'["DATABASE_NAME"] = c.database
          /\ info'["DATA_SOURCE_NAME"] = c.dsn /\ info'["DBMS_VER"] = told["DBMS_VER"]
      BY <3>1, <3>3, RuntimeInfo, SMTT(30)
    <3> QED
      BY <3>2, <3>3, <3>4, Zenon
  <2> QED
    BY <2>1, <2>2, <2>3, <2>4, <2>5, Zenon DEF Attempts
<1>2. CASE InternalRelease
  BY <1>2, Zenon DEF InternalRelease
<1>3. CASE \E type \in Asked : \E buffer \in Buffers \cup MadeToMeasure(type) :
              InternalGetInfo(type, buffer)
  BY <1>3, Zenon DEF InternalGetInfo
<1>4. CASE AnswerRead
  BY <1>4, Zenon DEF AnswerRead
<1>5. CASE UNCHANGED infoVars
  BY <1>5, Zenon DEF infoVars
<1> QED
  BY <1>1, <1>2, <1>3, <1>4, <1>5, Zenon DEF InfoNext

(* While a connection is open SQLGetInfo answers for that connection,      *)
(* whatever connections were tried, failed half way or were made on the    *)
(* handle before (InternalEstablish, TryRestoreConnection).                *)
THEOREM InfoIsOfConnection == InfoSpec => []InfoTellsConnection
<1>1. InfoInv => InfoTellsConnection
  <2> SUFFICES ASSUME InfoInv, conn # None, conn[1].usable
               PROVE  /\ UpdateConnectionRuntimeInfo(conn[1].with, info) = info
                      /\ UpdateSqlDbmsVerInfo(conn[1].version, info) = info
    BY Zenon DEF InfoTellsConnection
  <2> DEFINE c == conn[1].with
             v == conn[1].version
             new == UpdateConnectionRuntimeInfo(c, info)
             told == UpdateSqlDbmsVerInfo(v, info)
  <2>1. info = [t \in Changing |-> info[t]]
    BY Zenon DEF InfoInv
  <2>2. new = [t \in Changing |-> new[t]]
        /\ new["USER_NAME"] = c.user /\ new["DATABASE_NAME"] = c.database
        /\ new["DATA_SOURCE_NAME"] = c.dsn /\ new["DBMS_VER"] = info["DBMS_VER"]
    BY <2>1, RuntimeInfo, ZenonT(60)
  <2>3. \A t \in Changing : new[t] = info[t]
    <3> HIDE DEF new
    <3> QED BY <2>2, Zenon DEF InfoInv, Changing
  <2>4. new = info
    <3> HIDE DEF new
    <3> QED BY <2>1, <2>2, <2>3, Zenon
  <2>5. told = info
    <3>1. CASE v = None
      BY <3>1, Zenon DEF UpdateSqlDbmsVerInfo
    <3>2. CASE v # None
      <4>1. "DBMS_VER" \in Changing
        BY Zenon DEF Changing
      <4>2. told = [info EXCEPT !["DBMS_VER"] = v[1]]
        BY <3>2, <4>1, SetInfoSets, SMTT(30) DEF UpdateSqlDbmsVerInfo
      <4> QED
        BY <2>1, <3>2, <4>1, <4>2, Zenon DEF InfoInv
    <3> QED
      BY <3>1, <3>2, Zenon
  <2> QED
    BY <2>4, <2>5, Zenon
<1> QED
  BY InfoInitially, InfoPreserved, <1>1, PTL DEF InfoSpec

-----------------------------------------------------------------------------
(***************************************************************************)
(* Catalog, for answers of any length and any JDBC types.                  *)
(***************************************************************************)

(* A sequence. *)
IsList(s) == Len(s) \in Nat /\ s = [i \in 1 .. Len(s) |-> s[i]]

CatalogTypes ==
    /\ kind \in Kinds
    /\ pc \in {"METADATA", "ASK", "ERROR", "NEXT", "READ", "CLOSE", "CLOSE_ERROR", "DONE"}
    /\ IsList(java) /\ \A i \in 1 .. Len(java) : java[i] \in Rows(kind, i)
    /\ position \in Nat /\ position <= Len(java)
    /\ object = [o \in Objects |-> object[o]]
    /\ IsList(meta) /\ prevPosition \in Nat
    /\ cut \in BOOLEAN
    /\ pc # "DONE" => reply = "NONE"
    /\ pc = "DONE" => reply \in {"SUCCESS", "ERROR", "TERMINATED"}

(* Nothing was read before the server is asked: so a request that is made  *)
(* again after an error begins with empty vectors, although they are not   *)
(* cleared.                                                                *)
NothingRead ==
    pc \in {"METADATA", "ASK", "ERROR"} => types = {} /\ position = 0 /\ prevPosition = 0

(* How far the vector has come. *)
ReadSoFar == IF pc = "READ" THEN position - 1 ELSE position

VectorKeepsUp ==
    /\ pc = "READ" => position > 0
    /\ Len(meta) = IF kind = "TYPES" THEN 0 ELSE ReadSoFar
    /\ pc = "CLOSE_ERROR" => kind = "TYPES"
    /\ reply = "ERROR" => meta = <<>>

(* The types found are those of the rows read. *)
FoundUpTo(n) ==
    LET all == {SqlTypeFor(java[i]["type"][1]) : i \in 1 .. n}
    IN  SqlTypesOf(types) = IF wanted = AllTypes THEN all ELSE all \cap {wanted}

TypesKeepUp ==
    /\ \A d, e \in types : SqlTypeFor(d) = SqlTypeFor(e) => d = e
    /\ kind = "TYPES" /\ (pc \in {"METADATA", "ASK", "ERROR", "NEXT", "READ", "CLOSE"}
                             \/ reply = "SUCCESS")
          => FoundUpTo(ReadSoFar)

ReadToTheEnd ==
    (pc = "CLOSE" \/ reply = "SUCCESS") =>
        IF kind = "TYPES" THEN wanted = AllTypes => position = Len(java)
        ELSE ~cut => position = Len(java)

NoOrdinalUndefined == \A i \in DOMAIN meta : meta[i].ordinal # Some(0)

OrdinalsKeepUp ==
    kind = "COLUMNS" /\ NoOrdinalUndefined =>
        /\ prevPosition = Len(meta)
        /\ \A i \in DOMAIN meta : meta[i].ordinal = Some(i)

OpenIsHeld ==
    resultSet = "OPEN" =>
        /\ object["resultSet"] # None
        /\ pc \in {"NEXT", "READ", "CLOSE", "CLOSE_ERROR"} \/ reply = "TERMINATED"

CatalogInv ==
    /\ CatalogTypes /\ NothingRead /\ VectorKeepsUp /\ TypesKeepUp /\ ReadToTheEnd
    /\ FieldsComeFromTheirRow /\ OrdinalsKeepUp /\ OpenIsHeld

LEMMA EmptyList == IsList(<<>>) /\ Len(<<>>) = 0 /\ DOMAIN <<>> = {}
BY SMTT(30) DEF IsList

LEMMA ListDomain == ASSUME NEW s, IsList(s) PROVE DOMAIN s = 1 .. Len(s)
BY Zenon DEF IsList

LEMMA NoneLeft == ASSUME NEW s, IsList(s), Len(s) = 0 PROVE s = <<>>
BY SMTT(30) DEF IsList

LEMMA AppendList ==
    ASSUME NEW s, NEW e, IsList(s)
    PROVE  LET t == Append(s, e)
           IN  /\ IsList(t) /\ Len(t) = Len(s) + 1 /\ DOMAIN t = 1 .. Len(s) + 1
               /\ t[Len(s) + 1] = e
               /\ \A i \in 1 .. Len(s) : t[i] = s[i]
<1> DEFINE S == {s[i] : i \in 1 .. Len(s)} \cup {e}
<1>1. s \in [1 .. Len(s) -> S] /\ Len(s) \in Nat
  BY Zenon DEF IsList
<1>2. s \in Seq(S) /\ e \in S
  BY <1>1, SMTT(30)
<1> DEFINE t == Append(s, e)
<1> HIDE DEF S
<1>3. t \in Seq(S) /\ Len(t) = Len(s) + 1
  BY <1>2, SMTT(30)
<1>4. t[Len(s) + 1] = e /\ \A i \in 1 .. Len(s) : t[i] = s[i]
  BY <1>2, SMTT(30) DEF IsList
<1>5. DOMAIN t = 1 .. Len(t) /\ t = [i \in 1 .. Len(t) |-> t[i]]
  <2> HIDE DEF t
  <2>1. t \in [1 .. Len(t) -> S]
    BY <1>3, SMTT(30)
  <2> QED
    BY <2>1, Zenon
<1> HIDE DEF t
<1>6. IsList(t)
  BY <1>3, <1>5, SMTT(30) DEF IsList
<1> QED
  BY <1>3, <1>4, <1>5, <1>6, Zenon DEF t

LEMMA AnswerIsList ==
    ASSUME NEW k, NEW s \in Answers(k)
    PROVE  IsList(s) /\ \A i \in 1 .. Len(s) : s[i] \in Rows(k, i)
<1>1. PICK n \in 0 .. MaxRows : /\ s \in [1 .. n -> UNION {Rows(k, r) : r \in 1 .. n}]
                                /\ \A r \in 1 .. n : s[r] \in Rows(k, r)
  BY Zenon DEF Answers
<1>2. n \in Nat
  BY <1>1, CatalogAssumption, SMTT(30)
<1>3. Len(s) = n
  BY <1>1, <1>2, SMTT(30)
<1> QED
  BY <1>1, <1>2, <1>3, Zenon DEF IsList

(* What a getter leaves in a new element is of the row, or nothing, or the *)
(* zero of a null that was not recognised.                                 *)
LEMMA ReadingsOfRow ==
    ASSUME NEW f, NEW v \in Readings(f, None)
    PROVE  v \in {None, Row[f]} \/ (v = Some(0) /\ f # "name" /\ Row[f] = None)
<1>1. CASE f = "name"
  <2>1. v \in {CallString(object["resultSet"], None, o, Row[f]).value : o \in Outcomes}
    BY <1>1, SMTT(30) DEF Readings
  <2>2. ASSUME NEW o PROVE CallString(object["resultSet"], None, o, Row[f]).value \in {None, Row[f]}
    BY Zenon DEF CallString
  <2> QED
    BY <2>1, <2>2, Zenon
<1>2. ASSUME NEW o, NEW n, NEW w \in GetInt(object["resultSet"], None, o, n, Row[f])
      PROVE  w \in {None, Row[f]} \/ (w = Some(0) /\ Row[f] = None)
  <2>1. \/ w = None
        \/ \E wasNull \in WasNull(n, Row[f] = None) :
              w = IF wasNull THEN None ELSE IF Row[f] = None THEN Some(0) ELSE Row[f]
    BY <1>2, Zenon DEF GetInt
  <2> QED
    BY <2>1, Zenon
<1>3. CASE f = "number"
  BY <1>2, <1>3, SMTT(30) DEF Readings, GetSmallInt
<1>4. CASE f \notin {"name", "number"}
  BY <1>2, <1>4, SMTT(30) DEF Readings
<1> QED
  BY <1>1, <1>3, <1>4, Zenon

LEMMA CatalogInitially == CatalogInit => CatalogInv
<1> SUFFICES ASSUME CatalogInit PROVE CatalogInv
  BY Zenon
<1>1. object = [o \in Objects |-> object[o]]
  BY Zenon DEF CatalogInit
<1>a. CatalogTypes
  <2>1. IsList(java) /\ IsList(meta) /\ Len(java) = 0
    BY EmptyList, Zenon DEF CatalogInit
  <2>2. \A i \in 1 .. Len(java) : java[i] \in Rows(kind, i)
    BY <2>1, SMTT(30)
  <2>3. position \in Nat /\ position <= Len(java) /\ prevPosition \in Nat
    BY <2>1, SMTT(30) DEF CatalogInit
  <2> QED
    BY <1>1, <2>1, <2>2, <2>3, Zenon DEF CatalogInit, CatalogTypes
<1>2. NothingRead /\ VectorKeepsUp /\ ReadToTheEnd /\ OpenIsHeld
  BY EmptyList, SMTT(30) DEF CatalogInit, NothingRead, VectorKeepsUp, ReadSoFar, ReadToTheEnd, OpenIsHeld
<1>3. TypesKeepUp
  BY SMTT(30) DEF CatalogInit, TypesKeepUp, FoundUpTo, ReadSoFar, SqlTypesOf
<1>4. FieldsComeFromTheirRow /\ OrdinalsKeepUp
  BY EmptyList, SMTT(30) DEF CatalogInit, FieldsComeFromTheirRow, OrdinalsKeepUp
<1> QED
  BY <1>a, <1>2, <1>3, <1>4, Zenon DEF CatalogInv

-----------------------------------------------------------------------------
LEMMA GetMetaDataKeeps == CatalogInv /\ GetMetaData => CatalogInv'
<1> SUFFICES ASSUME CatalogInv, GetMetaData PROVE CatalogInv'
  BY Zenon
<1>1. /\ pc = "METADATA" /\ pc' \in {"ASK", "ERROR"}
      /\ UNCHANGED <<kind, java, position, resultSet, meta, prevPosition, types, wanted, cut,
                     reply>>
  BY Zenon DEF GetMetaData, Goto
<1>2. object' = [o \in Objects |-> object'[o]] /\ object'["resultSet"] = object["resultSet"]
  BY ZenonT(30) DEF GetMetaData, CatalogInv, CatalogTypes, Objects
<1>3. CatalogTypes'
  BY <1>1, <1>2, Zenon DEF CatalogInv, CatalogTypes, IsList, Rows
<1>4. NothingRead' /\ VectorKeepsUp' /\ ReadToTheEnd' /\ OpenIsHeld'
  BY <1>1, <1>2, Zenon DEF CatalogInv, NothingRead, VectorKeepsUp, ReadSoFar, ReadToTheEnd, OpenIsHeld,
                    CatalogTypes
<1>5. TypesKeepUp'
  BY <1>1, Zenon DEF CatalogInv, TypesKeepUp, FoundUpTo, ReadSoFar
<1>6. FieldsComeFromTheirRow' /\ OrdinalsKeepUp'
  BY <1>1, ZenonT(60) DEF CatalogInv, FieldsComeFromTheirRow, Undefined, OrdinalsKeepUp, NoOrdinalUndefined
<1> QED
  BY <1>3, <1>4, <1>5, <1>6, Zenon DEF CatalogInv

LEMMA AskKeeps == ASSUME CatalogInv, NEW k, Ask(k) PROVE CatalogInv'
<1>1. /\ pc = "ASK" /\ kind = k /\ pc' \in {"NEXT", "ERROR"}
      /\ position' = 0 /\ prevPosition' = 0 /\ UNCHANGED <<kind, types, wanted, cut, reply>>
      /\ meta' \in {<<>>, meta}
  BY Zenon DEF Ask, Goto
<1>2. meta = <<>> /\ position = 0 /\ types = {} /\ resultSet # "OPEN" /\ reply = "NONE"
  BY <1>1, NoneLeft, Zenon DEF CatalogInv, CatalogTypes, VectorKeepsUp, ReadSoFar, NothingRead, OpenIsHeld
<1>3. \/ java' = java /\ resultSet' = resultSet
      \/ java' \in Answers(kind) /\ resultSet' = "OPEN" /\ object'["resultSet"] # None /\ pc' = "NEXT"
  <2>1. PICK outcome \in Outcomes :
            LET call == CallObject(object["metadata"], None, outcome, "resultSet")
            IN  /\ object' = [object EXCEPT !["resultSet"] = call.value]
                /\ IF call.value = None
                   THEN UNCHANGED <<java, resultSet>>
                   ELSE java' \in Answers(k) /\ resultSet' = "OPEN"
                /\ meta' = IF call.code = "SUCCESS" THEN <<>> ELSE meta
                /\ Goto(IF call.code = "SUCCESS" THEN "NEXT" ELSE "ERROR")
    BY Zenon DEF Ask
  <2> DEFINE call == CallObject(object["metadata"], None, outcome, "resultSet")
  <2>2. call.value # None => call.code = "SUCCESS"
    BY Zenon DEF CallObject, CallCode, Attached, ExceptionCheck
  <2>3. object'["resultSet"] = call.value
    BY <2>1, Zenon DEF CatalogInv, CatalogTypes, Objects
  <2> QED
    BY <1>1, <2>1, <2>2, <2>3, Zenon DEF Goto
<1>4. object' = [o \in Objects |-> object'[o]]
  BY Zenon DEF Ask, CatalogInv, CatalogTypes, Objects
<1>5. IsList(java') /\ \A i \in 1 .. Len(java') : java'[i] \in Rows(kind, i)
  BY <1>3, AnswerIsList, ZenonT(60) DEF CatalogInv, CatalogTypes
<1>6. CatalogTypes'
  <2>1. IsList(meta')
    BY <1>1, <1>2, EmptyList, Zenon
  <2>2. \A i \in 1 .. Len(java') : java'[i] \in Rows(kind', i)
    BY <1>1, <1>5, Zenon
  <2> QED
    BY <1>1, <1>2, <1>4, <1>5, <2>1, <2>2, SMTT(30) DEF CatalogInv, CatalogTypes
<1>7. NothingRead' /\ VectorKeepsUp' /\ ReadToTheEnd'
  BY <1>1, <1>2, EmptyList, SMTT(30) DEF NothingRead, VectorKeepsUp, ReadSoFar, ReadToTheEnd
<1>8. TypesKeepUp'
  BY <1>1, <1>2, SMTT(30) DEF TypesKeepUp, FoundUpTo, ReadSoFar, SqlTypesOf
<1>9. FieldsComeFromTheirRow' /\ OrdinalsKeepUp' /\ OpenIsHeld'
  BY <1>1, <1>2, <1>3, EmptyList, SMTT(30) DEF FieldsComeFromTheirRow, OrdinalsKeepUp, OpenIsHeld
<1> QED
  BY <1>6, <1>7, <1>8, <1>9, Zenon DEF CatalogInv

LEMMA NextRowKeeps == CatalogInv /\ NextRow => CatalogInv'
<1> SUFFICES ASSUME CatalogInv, NextRow PROVE CatalogInv'
  BY Zenon
<1>1. /\ pc = "NEXT"
      /\ UNCHANGED <<kind, java, resultSet, object, meta, prevPosition, types, wanted, reply>>
  BY Zenon DEF NextRow
<1>2. /\ cut' \in BOOLEAN
      /\ \/ pc' = "READ" /\ position' = position + 1 /\ position < Len(java)
         \/ pc' = "CLOSE" /\ position' = position /\ cut' /\ kind # "TYPES"
         \/ pc' = "CLOSE" /\ position' = position /\ ~(position < Len(java))
         \/ pc' = "CLOSE_ERROR" /\ position' = position /\ kind = "TYPES"
  <2>1. PICK outcome \in Outcomes \ {"NULL"} :
            LET result == CallCode(object["resultSet"], outcome)
                hasNext == result = "SUCCESS" /\ position < Len(java)
            IN  /\ position' = IF hasNext THEN position + 1 ELSE position
                /\ cut' = (cut \/ result # "SUCCESS")
                /\ pc' = (IF hasNext THEN "READ"
                          ELSE IF result # "SUCCESS" /\ kind = "TYPES" THEN "CLOSE_ERROR"
                          ELSE "CLOSE")
    BY Zenon DEF NextRow, Goto
  <2> DEFINE result == CallCode(object["resultSet"], outcome)
  <2>2. CASE result = "SUCCESS" /\ position < Len(java)
    BY <2>1, <2>2, Zenon DEF CatalogInv, CatalogTypes
  <2>3. CASE result = "SUCCESS" /\ ~(position < Len(java))
    BY <2>1, <2>3, Zenon DEF CatalogInv, CatalogTypes
  <2>4. CASE result # "SUCCESS"
    BY <2>1, <2>4, Zenon DEF CatalogInv, CatalogTypes
  <2> QED
    BY <2>2, <2>3, <2>4, Zenon
<1>3. position \in Nat /\ Len(java) \in Nat /\ position <= Len(java)
  BY Zenon DEF CatalogInv, CatalogTypes, IsList
<1>4. /\ position' \in Nat /\ position' <= Len(java)
      /\ pc' \in {"READ", "CLOSE", "CLOSE_ERROR"}
      /\ pc' = "READ" => position' > 0
      /\ pc' = "CLOSE_ERROR" => kind = "TYPES"
      /\ (IF pc' = "READ" THEN position' - 1 ELSE position') = position
  BY <1>2, <1>3, SMTT(30)
<1>5. CatalogTypes'
  <2>1. IsList(java') /\ IsList(meta')
    BY <1>1, Zenon DEF CatalogInv, CatalogTypes
  <2>2. \A i \in 1 .. Len(java') : java'[i] \in Rows(kind', i)
    BY <1>1, Zenon DEF CatalogInv, CatalogTypes
  <2>3. object' = [o \in Objects |-> object'[o]]
    BY <1>1, Zenon DEF CatalogInv, CatalogTypes
  <2> QED
    BY <1>1, <1>2, <1>4, <2>1, <2>2, <2>3, Zenon DEF CatalogInv, CatalogTypes
<1>6. NothingRead' /\ OpenIsHeld'
  BY <1>1, <1>4, Zenon DEF CatalogInv, CatalogTypes, NothingRead, OpenIsHeld
<1>7. VectorKeepsUp'
  BY <1>1, <1>4, Zenon DEF CatalogInv, CatalogTypes, VectorKeepsUp, ReadSoFar
<1>8. ReadToTheEnd'
  <2>1. pc' = "CLOSE" => /\ kind = "TYPES" => position' = Len(java)
                         /\ ~cut' => position' = Len(java)
    BY <1>2, <1>3, SMTT(30)
  <2>2. reply' # "SUCCESS"
    BY <1>1, Zenon DEF CatalogInv, CatalogTypes
  <2> QED
    BY <1>1, <2>1, <2>2, Zenon DEF ReadToTheEnd
<1>9. TypesKeepUp'
  <2>1. ReadSoFar' = ReadSoFar
    BY <1>1, <1>4, Zenon DEF ReadSoFar
  <2>2. kind = "TYPES" => FoundUpTo(ReadSoFar)
    BY <1>1, Zenon DEF CatalogInv, TypesKeepUp
  <2>3. kind' = "TYPES" => FoundUpTo(ReadSoFar)'
    BY <1>1, <2>1, <2>2, Zenon DEF FoundUpTo
  <2> QED
    BY <1>1, <2>3, Zenon DEF CatalogInv, TypesKeepUp
<1>10. FieldsComeFromTheirRow'
  <2>1. Len(meta) <= position'
    BY <1>2, <1>3, SMTT(30) DEF CatalogInv, FieldsComeFromTheirRow, CatalogTypes, IsList
  <2> QED
    BY <1>1, <2>1, ZenonT(60) DEF CatalogInv, FieldsComeFromTheirRow, Undefined
<1>11. OrdinalsKeepUp'
  BY <1>1, Zenon DEF CatalogInv, OrdinalsKeepUp, NoOrdinalUndefined
<1> QED
  BY <1>5, <1>6, <1>7, <1>8, <1>9, <1>10, <1>11, Zenon DEF CatalogInv

(* What the three actions that read a row for a vector have in common: an  *)
(* element is appended that shows nothing of another row.                  *)
LEMMA AppendKeeps ==
    ASSUME CatalogInv, pc = "READ", kind # "TYPES", NEW element,
           \A f \in Fields[kind] \ {"ordinal"} : element[f] \in Readings(f, None),
           pc' = "NEXT", meta' = Append(meta, element), prevPosition' \in Nat,
           UNCHANGED <<kind, java, position, resultSet, object, types, wanted, cut, reply>>,
           OrdinalsKeepUp'
    PROVE  CatalogInv'
<1>1. IsList(meta) /\ position \in Nat /\ position > 0 /\ Len(meta) = position - 1
  BY Zenon DEF CatalogInv, CatalogTypes, VectorKeepsUp, ReadSoFar
<1>2. /\ IsList(meta') /\ Len(meta') = position /\ DOMAIN meta' = 1 .. position
      /\ meta'[position] = element
      /\ \A i \in 1 .. position - 1 : meta'[i] = meta[i]
  <2>1. /\ IsList(meta') /\ Len(meta') = Len(meta) + 1 /\ DOMAIN meta' = 1 .. Len(meta) + 1
        /\ meta'[Len(meta) + 1] = element
        /\ \A i \in 1 .. Len(meta) : meta'[i] = meta[i]
    BY <1>1, AppendList, SMTT(30)
  <2>2. Len(meta) + 1 = position /\ Len(meta) = position - 1
    BY <1>1, SMTT(30)
  <2> QED
    BY <2>1, <2>2, ZenonT(60)
<1>3. CatalogTypes'
  <2>1. IsList(java') /\ object' = [o \in Objects |-> object'[o]]
    BY Zenon DEF CatalogInv, CatalogTypes
  <2>2. \A i \in 1 .. Len(java') : java'[i] \in Rows(kind', i)
    BY Zenon DEF CatalogInv, CatalogTypes
  <2> QED
    BY <1>2, <2>1, <2>2, Zenon DEF CatalogInv, CatalogTypes
<1>4. NothingRead' /\ VectorKeepsUp' /\ ReadToTheEnd' /\ OpenIsHeld'
  BY <1>2, Zenon DEF CatalogInv, CatalogTypes, NothingRead, VectorKeepsUp, ReadSoFar, ReadToTheEnd,
              OpenIsHeld
<1>5. TypesKeepUp'
  BY Zenon DEF CatalogInv, CatalogTypes, TypesKeepUp
<1>6. FieldsComeFromTheirRow'
  <2>1. Len(meta') <= position'
    BY <1>1, <1>2, SMTT(30)
  <2>2. ASSUME NEW i \in 1 .. position, NEW f \in Fields[kind] \ {"ordinal"}
        PROVE  \/ meta'[i][f] \in {None, java[i][f]}
               \/ meta'[i][f] = Some(0) /\ Undefined(i, f)
    <3>1. CASE i = position
      BY <1>2, <2>2, <3>1, ReadingsOfRow, Zenon DEF Row, Undefined
    <3>2. CASE i # position
      <4>1. i \in 1 .. position - 1
        BY <1>1, <3>2, SMTT(30)
      <4>2. i \in DOMAIN meta
        BY <1>1, <4>1, ListDomain, Zenon
      <4> QED
        BY <1>2, <4>1, <4>2, Zenon DEF CatalogInv, FieldsComeFromTheirRow
    <3> QED
      BY <3>1, <3>2, ZenonT(30)
  <2> QED
    BY <1>2, <2>1, <2>2, SMTT(30) DEF FieldsComeFromTheirRow, Undefined
<1> QED
  BY <1>3, <1>4, <1>5, <1>6, Zenon DEF CatalogInv

LEMMA ReadKeeps == CatalogInv /\ Read => CatalogInv'
<1> SUFFICES ASSUME CatalogInv, Read PROVE CatalogInv'
  BY Zenon
<1>1. /\ pc = "READ" /\ kind \in {"TABLES", "PRIMARY_KEYS", "FOREIGN_KEYS"} /\ pc' = "NEXT"
      /\ UNCHANGED <<kind, java, position, resultSet, object, prevPosition, types, wanted, cut,
                     reply>>
  BY Zenon DEF Read, Goto
<1>2. PICK read : /\ \A f \in Fields[kind] : read[f] \in Readings(f, Element(kind)[f])
                  /\ meta' = Append(meta, read)
  BY Zenon DEF Read
<1>3. \A f \in Fields[kind] : read[f] \in Readings(f, None)
  BY <1>2, Zenon DEF Element
<1>4. prevPosition' \in Nat /\ OrdinalsKeepUp'
  BY <1>1, Zenon DEF CatalogInv, CatalogTypes, OrdinalsKeepUp
<1>5. kind # "TYPES"
  BY <1>1, Zenon
<1> QED
  BY <1>1, <1>2, <1>3, <1>4, <1>5, AppendKeeps, Zenon

LEMMA ReadColumnKeeps == CatalogInv /\ ReadColumn => CatalogInv'
<1> SUFFICES ASSUME CatalogInv, ReadColumn PROVE CatalogInv'
  BY Zenon
<1>1. /\ pc = "READ" /\ kind = "COLUMNS" /\ pc' = "NEXT"
      /\ UNCHANGED <<kind, java, position, resultSet, object, types, wanted, cut, reply>>
  BY ZenonT(30) DEF ReadColumn, Goto
<1>2. Fields[kind] = {"name", "number", "ordinal"} /\ \A f \in Fields[kind] : Element(kind)[f] = None
  BY <1>1, Zenon DEF Fields, Element
<1>3. PICK name \in Readings("name", None), number \in Readings("number", None),
           ordinal \in Readings("ordinal", None) :
         LET p == IF ordinal = None THEN prevPosition + 1 ELSE ordinal[1]
         IN  /\ prevPosition' = p
             /\ meta' = Append(meta, [name |-> name, number |-> number, ordinal |-> Some(p)])
  <2>1. Element(kind).name = None /\ Element(kind).number = None /\ Element(kind).ordinal = None
    BY <1>2, Zenon
  <2> QED
    BY <2>1, SMTT(30) DEF ReadColumn
<1> DEFINE p == IF ordinal = None THEN prevPosition + 1 ELSE ordinal[1]
           element == [name |-> name, number |-> number, ordinal |-> Some(p)]
<1>4. IsList(meta) /\ position \in Nat /\ position > 0 /\ Len(meta) = position - 1
      /\ prevPosition \in Nat /\ Len(java) \in Nat /\ position <= Len(java)
  BY <1>1, Zenon DEF CatalogInv, CatalogTypes, VectorKeepsUp, ReadSoFar, IsList
<1>5. Row["ordinal"] \in {None, Some(position)}
  <2>1. Row \in [Fields[kind] -> {None, Some(position)}]
    BY <1>1, <1>4, SMTT(30) DEF CatalogInv, CatalogTypes, Rows, Row
  <2> QED
    BY <1>2, <2>1, Zenon
<1>6. p \in {prevPosition + 1, position, 0} /\ p \in Nat
  BY <1>4, <1>5, ReadingsOfRow, SMTT(30) DEF Some, None
<1>7. element.name = name /\ element.number = number /\ element.ordinal = Some(p)
  BY Zenon
<1>8. prevPosition' = p /\ meta' = Append(meta, element)
  BY <1>3, Zenon
<1> HIDE DEF p, element
<1>9. \A f \in Fields[kind] \ {"ordinal"} : element[f] \in Readings(f, None)
  BY <1>2, <1>3, <1>7, Zenon
<1>10. OrdinalsKeepUp'
  <2>1. /\ DOMAIN meta' = 1 .. position /\ Len(meta') = position
        /\ meta'[position] = element /\ \A i \in 1 .. position - 1 : meta'[i] = meta[i]
    <3>1. /\ Len(meta') = Len(meta) + 1 /\ DOMAIN meta' = 1 .. Len(meta) + 1
          /\ meta'[Len(meta) + 1] = element
          /\ \A i \in 1 .. Len(meta) : meta'[i] = meta[i]
      BY <1>4, <1>8, AppendList, SMTT(30)
    <3>2. Len(meta) + 1 = position /\ Len(meta) = position - 1
      BY <1>4, SMTT(30)
    <3> QED
      BY <3>1, <3>2, Zenon
  <2>2. DOMAIN meta = 1 .. position - 1
    BY <1>4, ListDomain, Zenon
  <2> SUFFICES ASSUME NoOrdinalUndefined'
               PROVE  prevPosition' = position /\ \A i \in 1 .. position : meta'[i].ordinal = Some(i)
    BY <2>1, Zenon DEF OrdinalsKeepUp
  <2>3. element.ordinal # Some(0)
    BY <1>4, <2>1, SMTT(30) DEF NoOrdinalUndefined
  <2>4. NoOrdinalUndefined
    <3> SUFFICES ASSUME NEW i \in 1 .. position - 1 PROVE meta[i].ordinal # Some(0)
      BY <2>2, Zenon DEF NoOrdinalUndefined
    <3>1. i \in 1 .. position /\ meta'[i] = meta[i]
      BY <1>4, <2>1, SMTT(30)
    <3> QED
      BY <2>1, <3>1, Zenon DEF NoOrdinalUndefined
  <2>5. prevPosition = position - 1 /\ \A i \in 1 .. position - 1 : meta[i].ordinal = Some(i)
    BY <1>1, <1>4, <2>2, <2>4, Zenon DEF CatalogInv, OrdinalsKeepUp
  <2>6. p = position
    BY <1>4, <1>6, <1>7, <2>3, <2>5, SMTT(30)
  <2>7. ASSUME NEW i \in 1 .. position PROVE meta'[i].ordinal = Some(i)
    <3>1. CASE i = position
      BY <1>7, <2>1, <2>6, <3>1, Zenon
    <3>2. CASE i # position
      <4>1. i \in 1 .. position - 1
        BY <1>4, <3>2, SMTT(30)
      <4> QED
        BY <2>1, <2>5, <4>1, Zenon
    <3> QED
      BY <3>1, <3>2, Zenon
  <2> QED
    BY <1>8, <2>6, <2>7, Zenon
<1> QED
  BY <1>1, <1>6, <1>8, <1>9, <1>10, AppendKeeps, Zenon

LEMMA ReadTypeKeeps == CatalogInv /\ ReadType => CatalogInv'
<1> SUFFICES ASSUME CatalogInv, ReadType PROVE CatalogInv'
  BY Zenon
<1>1. /\ pc = "READ" /\ kind = "TYPES"
      /\ UNCHANGED <<kind, java, position, resultSet, object, meta, prevPosition, wanted, cut>>
  BY Zenon DEF ReadType
<1>2. position \in Nat /\ position > 0 /\ Len(meta) = 0 /\ reply = "NONE" /\ meta = <<>>
  BY <1>1, NoneLeft, Zenon DEF CatalogInv, CatalogTypes, VectorKeepsUp
<1> DEFINE type == Row["type"][1]
           take == SqlTypeFor(type) \notin SqlTypesOf(types) /\ wanted \in {AllTypes, SqlTypeFor(type)}
<1>3. \/ pc' = "CLOSE_ERROR" /\ types' = types /\ reply' = "NONE"
      \/ pc' = "DONE" /\ types' = types /\ reply' = "TERMINATED"
      \/ /\ types' = IF take THEN types \cup {type} ELSE types
         /\ pc' = IF take /\ wanted # AllTypes THEN "CLOSE" ELSE "NEXT"
         /\ reply' = "NONE"
  BY <1>2, ZenonT(30) DEF ReadType, Goto
<1>4. /\ pc' \in {"CLOSE_ERROR", "DONE", "CLOSE", "NEXT"} /\ reply' \in {"NONE", "TERMINATED"}
      /\ pc' # "DONE" <=> reply' = "NONE"
      /\ pc' = "CLOSE" => wanted # AllTypes
  BY <1>3, Zenon
<1>5. CatalogTypes'
  <2>1. IsList(java') /\ IsList(meta') /\ object' = [o \in Objects |-> object'[o]]
    BY <1>1, Zenon DEF CatalogInv, CatalogTypes
  <2>2. \A i \in 1 .. Len(java') : java'[i] \in Rows(kind', i)
    BY <1>1, Zenon DEF CatalogInv, CatalogTypes
  <2> QED
    BY <1>1, <1>4, <2>1, <2>2, Zenon DEF CatalogInv, CatalogTypes
<1>6. NothingRead' /\ VectorKeepsUp' /\ ReadToTheEnd' /\ OpenIsHeld'
  BY <1>1, <1>2, <1>4, SMTT(30) DEF CatalogInv, NothingRead, VectorKeepsUp, ReadToTheEnd, OpenIsHeld
<1>7. TypesKeepUp'
  <2>1. CASE types' = types /\ pc' \in {"CLOSE_ERROR", "DONE"} /\ reply' # "SUCCESS"
    BY <2>1, Zenon DEF CatalogInv, TypesKeepUp
  <2>2. CASE /\ types' = IF take THEN types \cup {type} ELSE types
             /\ pc' = IF take /\ wanted # AllTypes THEN "CLOSE" ELSE "NEXT"
             /\ reply' = "NONE"
    <3> DEFINE found(n) == {SqlTypeFor(java[i]["type"][1]) : i \in 1 .. n}
    <3>1. FoundUpTo(position - 1)
      BY <1>1, Zenon DEF CatalogInv, TypesKeepUp, ReadSoFar
    <3>2. found(position) = found(position - 1) \cup {SqlTypeFor(type)}
      <4>1. 1 .. position = (1 .. position - 1) \cup {position}
        BY <1>2, SMTT(30)
      <4> QED
        BY <4>1, Zenon DEF Row
    <3>3. SqlTypesOf(types \cup {type}) = SqlTypesOf(types) \cup {SqlTypeFor(type)}
      BY Zenon DEF SqlTypesOf
    <3>4. SqlTypesOf(types') = IF wanted = AllTypes THEN found(position)
                                                   ELSE found(position) \cap {wanted}
      <4> HIDE DEF found, type
      <4>1. SqlTypesOf(types) = IF wanted = AllTypes THEN found(position - 1)
                                                    ELSE found(position - 1) \cap {wanted}
        BY <3>1, Zenon DEF FoundUpTo, found
      <4> QED
        BY <2>2, <3>2, <3>3, <4>1, Zenon
    <3>5. ReadSoFar' = position
      BY <1>1, <2>2, Zenon DEF ReadSoFar
    <3>6. FoundUpTo(ReadSoFar)'
      BY <1>1, <3>4, <3>5, Zenon DEF FoundUpTo
    <3>7. \A d, e \in types' : SqlTypeFor(d) = SqlTypeFor(e) => d = e
      <4>1. \A d, e \in types : SqlTypeFor(d) = SqlTypeFor(e) => d = e
        BY Zenon DEF CatalogInv, TypesKeepUp
      <4>2. CASE ~take
        BY <2>2, <4>1, <4>2, Zenon
      <4>3. CASE take
        <5>1. \A d \in types : SqlTypeFor(d) # SqlTypeFor(type)
          BY <4>3, Zenon DEF SqlTypesOf
        <5> QED
          BY <2>2, <4>1, <4>3, <5>1, Zenon
      <4> QED
        BY <4>2, <4>3, Zenon
    <3> QED
      BY <3>6, <3>7, Zenon DEF TypesKeepUp
  <2> QED
    BY <1>3, <2>1, <2>2, Zenon
<1>8. FieldsComeFromTheirRow' /\ OrdinalsKeepUp'
  BY <1>1, <1>2, SMTT(30) DEF CatalogInv, FieldsComeFromTheirRow, OrdinalsKeepUp, Undefined
<1> QED
  BY <1>5, <1>6, <1>7, <1>8, Zenon DEF CatalogInv

LEMMA FinishKeeps == CatalogInv /\ Finish => CatalogInv'
<1> SUFFICES ASSUME CatalogInv, Finish PROVE CatalogInv'
  BY Zenon
<1>1. /\ pc \in {"CLOSE", "CLOSE_ERROR"} /\ pc' = "DONE"
      /\ reply' = IF pc = "CLOSE" THEN "SUCCESS" ELSE "ERROR"
      /\ UNCHANGED <<kind, java, position, meta, prevPosition, types, wanted, cut>>
  BY Zenon DEF Finish, Goto
<1>2. object' = [o \in Objects |-> object'[o]]
  BY Zenon DEF Finish, CatalogInv, CatalogTypes, Objects
<1>3. CatalogTypes'
  <2>1. IsList(java') /\ IsList(meta')
    BY <1>1, Zenon DEF CatalogInv, CatalogTypes
  <2>2. \A i \in 1 .. Len(java') : java'[i] \in Rows(kind', i)
    BY <1>1, Zenon DEF CatalogInv, CatalogTypes
  <2> QED
    BY <1>1, <1>2, <2>1, <2>2, Zenon DEF CatalogInv, CatalogTypes
<1>4. NothingRead' /\ ReadToTheEnd'
  BY <1>1, Zenon DEF CatalogInv, NothingRead, ReadToTheEnd
<1>5. VectorKeepsUp'
  <2>1. Len(meta) = (IF kind = "TYPES" THEN 0 ELSE position) /\ IsList(meta)
    BY <1>1, Zenon DEF CatalogInv, VectorKeepsUp, ReadSoFar, CatalogTypes
  <2>2. pc = "CLOSE_ERROR" => meta = <<>>
    BY <2>1, NoneLeft, Zenon DEF CatalogInv, VectorKeepsUp
  <2> QED
    BY <1>1, <2>1, <2>2, Zenon DEF VectorKeepsUp, ReadSoFar
<1>6. TypesKeepUp'
  <2>1. ReadSoFar' = ReadSoFar
    BY <1>1, Zenon DEF ReadSoFar
  <2>2. kind = "TYPES" /\ pc = "CLOSE" => FoundUpTo(ReadSoFar)
    BY Zenon DEF CatalogInv, TypesKeepUp
  <2>3. kind = "TYPES" /\ pc = "CLOSE" => FoundUpTo(ReadSoFar)'
    BY <1>1, <2>1, <2>2, Zenon DEF FoundUpTo
  <2> QED
    BY <1>1, <2>3, Zenon DEF CatalogInv, TypesKeepUp
<1>7. OpenIsHeld'
  <2>1. resultSet' # "OPEN"
    BY Zenon DEF Finish, CloseResultSet, CatalogInv, OpenIsHeld
  <2> QED
    BY <2>1, Zenon DEF OpenIsHeld
<1>8. FieldsComeFromTheirRow' /\ OrdinalsKeepUp'
  BY <1>1, ZenonT(60) DEF CatalogInv, FieldsComeFromTheirRow, Undefined, OrdinalsKeepUp, NoOrdinalUndefined
<1> QED
  BY <1>3, <1>4, <1>5, <1>6, <1>7, <1>8, Zenon DEF CatalogInv

LEMMA ReturnErrorKeeps == CatalogInv /\ ReturnError => CatalogInv'
<1> SUFFICES ASSUME CatalogInv, ReturnError PROVE CatalogInv'
  BY Zenon
<1>1. /\ pc = "ERROR" /\ pc' = "DONE" /\ reply' = "ERROR"
      /\ UNCHANGED <<kind, java, position, resultSet, object, meta, prevPosition, types, wanted, cut>>
  BY Zenon DEF ReturnError, Goto
<1>2. meta = <<>> /\ position = 0 /\ Len(meta) = 0 /\ reply = "NONE"
  BY <1>1, NoneLeft, Zenon DEF CatalogInv, CatalogTypes, NothingRead, VectorKeepsUp, ReadSoFar
<1>3. CatalogTypes'
  <2>1. IsList(java') /\ IsList(meta') /\ object' = [o \in Objects |-> object'[o]]
    BY <1>1, Zenon DEF CatalogInv, CatalogTypes
  <2>2. \A i \in 1 .. Len(java') : java'[i] \in Rows(kind', i)
    BY <1>1, Zenon DEF CatalogInv, CatalogTypes
  <2> QED
    BY <1>1, <2>1, <2>2, Zenon DEF CatalogInv, CatalogTypes
<1>4. NothingRead' /\ VectorKeepsUp' /\ ReadToTheEnd' /\ OpenIsHeld'
  BY <1>1, <1>2, Zenon DEF CatalogInv, NothingRead, VectorKeepsUp, ReadSoFar, ReadToTheEnd, OpenIsHeld
<1>5. TypesKeepUp' /\ OrdinalsKeepUp'
  BY <1>1, Zenon DEF CatalogInv, TypesKeepUp, OrdinalsKeepUp, NoOrdinalUndefined
<1>6. FieldsComeFromTheirRow'
  BY <1>1, <1>2, SMTT(30) DEF FieldsComeFromTheirRow, Undefined
<1> QED
  BY <1>3, <1>4, <1>5, <1>6, Zenon DEF CatalogInv

LEMMA AgainKeeps == CatalogInv /\ Again => CatalogInv'
<1> SUFFICES ASSUME CatalogInv, Again PROVE CatalogInv'
  BY Zenon
<1>1. /\ pc = "DONE" /\ reply # "TERMINATED" /\ types = {} /\ pc' = "METADATA"
      /\ java' = <<>> /\ position' = 0 /\ resultSet' = "NONE" /\ prevPosition' = 0
      /\ cut' = FALSE /\ reply' = "NONE" /\ UNCHANGED <<kind, types, wanted>>
      /\ object' = [o \in Objects |-> IF o \in Given THEN object[o] ELSE None]
  BY Zenon DEF Again
<1>2. meta' = <<>>
  <2>1. reply \in {"SUCCESS", "ERROR"}
    BY <1>1, Zenon DEF CatalogInv, CatalogTypes
  <2> QED
    BY <2>1, Zenon DEF Again, CatalogInv, VectorKeepsUp
<1>3. CatalogTypes'
  <2>1. IsList(java') /\ IsList(meta') /\ Len(java') = 0
    BY <1>1, <1>2, EmptyList, Zenon
  <2>2. \A i \in 1 .. Len(java') : java'[i] \in Rows(kind', i)
    BY <2>1, SMTT(30)
  <2>3. object' = [o \in Objects |-> object'[o]]
    BY <1>1, Zenon
  <2>4. position' \in Nat /\ position' <= Len(java') /\ prevPosition' \in Nat
    BY <1>1, <2>1, SMTT(30)
  <2> QED
    BY <1>1, <2>1, <2>2, <2>3, <2>4, Zenon DEF CatalogInv, CatalogTypes
<1>4. NothingRead' /\ VectorKeepsUp' /\ ReadToTheEnd' /\ OpenIsHeld'
  BY <1>1, <1>2, EmptyList, SMTT(30) DEF NothingRead, VectorKeepsUp, ReadSoFar, ReadToTheEnd, OpenIsHeld
<1>5. TypesKeepUp'
  BY <1>1, SMTT(30) DEF TypesKeepUp, FoundUpTo, ReadSoFar, SqlTypesOf
<1>6. FieldsComeFromTheirRow' /\ OrdinalsKeepUp'
  BY <1>1, <1>2, EmptyList, SMTT(30) DEF FieldsComeFromTheirRow, OrdinalsKeepUp
<1> QED
  BY <1>3, <1>4, <1>5, <1>6, Zenon DEF CatalogInv

LEMMA CatalogPreserved == CatalogInv /\ [CatalogNext]_catalogVars => CatalogInv'
<1> SUFFICES ASSUME CatalogInv, [CatalogNext]_catalogVars PROVE CatalogInv'
  BY Zenon
<1>1. CASE GetTables \/ GetColumns \/ GetPrimaryKeys \/ GetImportedKeys \/ GetTypeInfo
  BY <1>1, AskKeeps, ZenonT(60) DEF GetTables, GetColumns, GetPrimaryKeys, GetImportedKeys, GetTypeInfo
<1>2. CASE UNCHANGED catalogVars
  BY <1>2, SMTT(30) DEF catalogVars, CatalogInv, CatalogTypes, IsList, Rows, NothingRead, VectorKeepsUp,
              ReadSoFar, TypesKeepUp, FoundUpTo, ReadToTheEnd, FieldsComeFromTheirRow, Undefined,
              OrdinalsKeepUp, NoOrdinalUndefined, OpenIsHeld
<1> QED
  BY <1>1, <1>2, GetMetaDataKeeps, NextRowKeeps, ReadKeeps, ReadColumnKeeps, ReadTypeKeeps,
     FinishKeeps, ReturnErrorKeeps, AgainKeeps, Zenon DEF CatalogNext

(* However many rows the server lists, whichever of its fields are null    *)
(* and whichever calls fail: no element shows anything of another row, a   *)
(* request that succeeds lists every row and every type once unless Next   *)
(* has failed, columns are numbered in a row, and no result set stays open *)
(* (ReadTableMetaVector and its like, TypeInfoQuery, ~ResultSet).          *)
THEOREM CatalogListed == CatalogSpec => []CatalogIsRead
<1>1. CatalogInv => CatalogIsRead
  <2> SUFFICES ASSUME CatalogInv PROVE CatalogIsRead
    BY Zenon
  <2>1. ListedUnlessCut
    <3> SUFFICES ASSUME reply = "SUCCESS", ~cut
                 PROVE  IF kind = "TYPES"
                        THEN LET all == {SqlTypeFor(java[i]["type"][1]) : i \in 1 .. position}
                             IN  /\ SqlTypesOf(types)
                                       = IF wanted = AllTypes THEN all ELSE all \cap {wanted}
                                 /\ \A d, e \in types : SqlTypeFor(d) = SqlTypeFor(e) => d = e
                                 /\ wanted = AllTypes => position = Len(java)
                        ELSE Len(meta) = Len(java)
      BY Zenon DEF ListedUnlessCut
    <3>1. pc = "DONE"
      BY Zenon DEF CatalogInv, CatalogTypes
    <3>2. ReadSoFar = position
      BY <3>1, Zenon DEF ReadSoFar
    <3>3. CASE kind = "TYPES"
      <4>1. FoundUpTo(position)
        BY <3>2, <3>3, Zenon DEF CatalogInv, TypesKeepUp
      <4>2. wanted = AllTypes => position = Len(java)
        BY <3>3, Zenon DEF CatalogInv, ReadToTheEnd
      <4> QED
        BY <3>3, <4>1, <4>2, Zenon DEF FoundUpTo, CatalogInv, TypesKeepUp
    <3>4. CASE kind # "TYPES"
      BY <3>2, <3>4, Zenon DEF CatalogInv, VectorKeepsUp, ReadToTheEnd
    <3> QED
      BY <3>3, <3>4, Zenon
  <2>2. ColumnsArePositioned
    BY Zenon DEF ColumnsArePositioned, CatalogInv, OrdinalsKeepUp, NoOrdinalUndefined
  <2>3. ResultSetIsClosed
    BY Zenon DEF ResultSetIsClosed, CatalogInv, OpenIsHeld
  <2> QED
    BY <2>1, <2>2, <2>3, Zenon DEF CatalogIsRead, CatalogInv
<1> QED
  BY CatalogInitially, CatalogPreserved, <1>1, PTL DEF CatalogSpec
=============================================================================
