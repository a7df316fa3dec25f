------------------------------- MODULE Binary -------------------------------
(***************************************************************************)
(* The binary marshaller of the client library: BinaryWriterImpl lays an   *)
(* object out in a stream, BinaryReaderImpl and BinaryObjectImpl read it   *)
(* back (src/impl/binary/binary_writer_impl.cpp, binary_reader_impl.cpp,   *)
(* binary_schema.cpp, binary_object_impl.cpp, binary_utils.cpp).           *)
(*                                                                         *)
(* An application writes fields, containers and raw data in any order the  *)
(* writer accepts; the object, perhaps wrapped in an array by the other    *)
(* side, is then read in any order.  A call the writer or the reader       *)
(* refuses with an exception before it changed anything is not a step.     *)
(* Positions and lengths are bytes; a value is a record                    *)
(*   [k, form, null, items]: the type of its parts, whether it is one      *)
(* value, an array or a string, and the parts, each a tuple of integers.   *)
(* The hash code and the schema identifier are not computed: no reader of  *)
(* the library looks at them.                                              *)
(***************************************************************************)
EXTENDS Stream, FiniteSets, FiniteSetsExt, SequencesExt, TLC

CONSTANTS
    Names,          \* field names 1 .. n, their own identifiers, used in order
    Values,         \* values an application writes first
    Later,          \* values it writes after that, a subset
    Elements,       \* elements of containers: <<"value", v>> or <<"object", o>>
    Objects,        \* nested objects: [null, ops], ops a sequence of <<name, value>>
    OneByteLimit,   \* 0x100: offsets below it are kept in one byte
    TwoBytesLimit,  \* 0x10000: offsets below it are kept in two bytes
    MsPerSecond,    \* 1000
    NsPerMs,        \* 1000000
    MaxWrites,      \* bound on the values, objects and containers of an object
    MaxElements,    \* bound on the things in a container
    MaxSessions     \* bound on the containers opened in the writer, and in the reader

VARIABLES
    w,       \* BinaryWriterImpl of the object
    log,     \* what was written, in order
    phase,   \* "write", then "sent", "read" and "done"
    mixed,   \* an object was written while a container was open
    mem,     \* the memory the object is read from
    r,       \* BinaryReaderImpl of the object
    rawIdx,  \* how many raw values have been read
    left,    \* elements of the open container still to be read
    seen     \* the last result, and what was written there

binVars == <<w, log, phase, mixed, mem, r, rawIdx, left, seen>>

HdrNull == 101
HdrFull == 103
TypeBinary == 27
TypeDecimal == 30
TypeArrayDecimal == 31
TypeBinaryEnum == 38
TypeOptmMarsh == -2
ProtoVer == 1
OffsetFlags == 2
OffsetHash == 8
OffsetLen == 12
OffsetSchemaId == 16
OffsetSchemaOrRawOff == 20

FlagUserType == 1
FlagHasSchema == 2
FlagHasRaw == 4
FlagOneByte == 8
FlagTwoBytes == 16
FlagCompactFooter == 32

HasFlag(flags, f) == (flags \div f) % 2 = 1

(* Integer division and remainder of C++, which truncate. *)
Quot(a, b) == IF a >= 0 THEN a \div b ELSE -((-a) \div b)
Rem(a, b) == a - b * Quot(a, b)

-----------------------------------------------------------------------------
(* The writer's types: the header of one value, that of an array, and the  *)
(* widths of the parts of a value in the stream.                           *)
SmallWriters ==
    [Int8   |-> [hdr |-> 1, arr |-> 12, w |-> <<1>>],
     Bool   |-> [hdr |-> 8, arr |-> 19, w |-> <<1>>],
     Int16  |-> [hdr |-> 2, arr |-> 13, w |-> <<2>>],
     UInt16 |-> [hdr |-> 7, arr |-> 18, w |-> <<2>>]]

LargeWriters ==
    [Int32  |-> [hdr |-> 3, arr |-> 14, w |-> <<4>>],
     Int64  |-> [hdr |-> 4, arr |-> 15, w |-> <<8>>],
     Float  |-> [hdr |-> 5, arr |-> 16, w |-> <<4>>],
     Double |-> [hdr |-> 6, arr |-> 17, w |-> <<8>>]]

GuidWriter == [hdr |-> 10, arr |-> 21, w |-> <<8, 8>>]
DateWriter == [hdr |-> 11, arr |-> 22, w |-> <<8>>]
TimestampWriter == [hdr |-> 33, arr |-> 34, w |-> <<8, 4>>]
TimeWriter == [hdr |-> 36, arr |-> 37, w |-> <<8>>]
EnumWriter == [hdr |-> 28, arr |-> 28, w |-> <<4, 4>>]
StringWriter == [hdr |-> 9, arr |-> 9, w |-> <<1>>]

Primitives == DOMAIN SmallWriters \cup DOMAIN LargeWriters

Writers ==
    SmallWriters @@ LargeWriters
    @@ [Guid |-> GuidWriter, Date |-> DateWriter, Timestamp |-> TimestampWriter,
        Time |-> TimeWriter, Enum |-> EnumWriter, String |-> StringWriter]

(* BinaryUtils::WriteTimestamp: seconds and fraction to milliseconds and   *)
(* nanoseconds.  The other types go out as they are; a float or a double   *)
(* as its bits.                                                            *)
ToWire(k, x) ==
    IF k = "Timestamp"
    THEN <<x[1] * MsPerSecond + Quot(x[2], NsPerMs), Rem(x[2], NsPerMs)>>
    ELSE x

WriteParts(s, k, x) == WriteValues(s, Writers[k].w, ToWire(k, x))

(* The elements of an array of a structure have a header each. *)
WriteItems(s, v) ==
    LET Headed(t) == IF v.form = "array" /\ v.k \notin Primitives
                     THEN Write(t, 1, Writers[v.k].hdr) ELSE t
        t[n \in 0 .. Len(v.items)] ==
          IF n = 0 THEN s ELSE WriteParts(Headed(t[n - 1]), v.k, v.items[n])
    IN t[Len(v.items)]

(* A value behind its header, as every named value, every array and every  *)
(* raw value that is not a primitive is written.                           *)
WriteHeaded(s, v) ==
    LET wr == Writers[v.k]
    IN IF v.null THEN Write(s, 1, HdrNull)
       ELSE IF v.form = "one" THEN WriteItems(Write(s, 1, wr.hdr), v)
       ELSE WriteItems(Write(Write(s, 1, wr.arr), 4, Len(v.items)), v)

-----------------------------------------------------------------------------
(* BinaryWriterImpl, over the stream and the start of its object. *)
NewWriter(s, start) ==
    [s |-> s, start |-> start, rawPos |-> -1, elemIdGen |-> 0, elemId |-> 0,
     elemCnt |-> 0, elemPos |-> -1, schema |-> <<>>]

RawMode(wr) == wr.rawPos # -1
SingleMode(wr) == wr.elemId = 0

WriteFieldId(wr, n) ==
    [wr EXCEPT !.schema = Append(@, [id |-> n, off |-> wr.s.pos - wr.start])]

(* WritePrimitiveRaw and WritePrimitiveArrayRaw, and their named forms. *)
WriteRaw(wr, v) ==
    [wr EXCEPT !.s = IF v.k \in Primitives /\ v.form = "one" /\ ~v.null
                     THEN WriteItems(@, v) ELSE WriteHeaded(@, v)]

WriteNamed(wr, n, v) == [WriteFieldId(wr, n) EXCEPT !.s = WriteHeaded(@, v)]

BeginRaw(wr) == [wr EXCEPT !.rawPos = wr.s.pos]

GetRawPosition(wr) == IF wr.rawPos = -1 THEN wr.s.pos ELSE wr.rawPos

(* BinarySchema::GetType, here with the offset of the first field instead. *)
GetTypeFirst(schema) ==
    LET maxOffset == Head(schema).off
    IN IF maxOffset < OneByteLimit THEN 1
       ELSE IF maxOffset < TwoBytesLimit THEN 2 ELSE 4

(* BinarySchema::GetType: bytes for an offset. *)
GetType(schema) ==
    LET maxOffset == Last(schema).off
    IN IF maxOffset < OneByteLimit THEN 1
       ELSE IF maxOffset < TwoBytesLimit THEN 2 ELSE 4

(* An offset cut to the bytes it is kept in. *)
Cut(width, off) ==
    CASE width = 1 -> off % OneByteLimit
      [] width = 2 -> off % TwoBytesLimit
      [] OTHER -> off

(* BinarySchema::Write. *)
WriteSchema(s, schema) ==
    LET width == GetType(schema)
        t[n \in 0 .. Len(schema)] ==
          IF n = 0 THEN s
          ELSE Write(Write(t[n - 1], 4, schema[n].id), width, Cut(width, schema[n].off))
    IN t[Len(schema)]

(* BinaryWriterImpl::PostWrite. *)
PostWrite(wr) ==
    LET lenWithoutSchema == wr.s.pos - wr.start
        hasSchema == wr.schema # <<>>
        raw == wr.rawPos > 0
        width == GetType(wr.schema)
        footer == WriteSchema(wr.s, wr.schema)
        body == IF ~hasSchema THEN wr.s
                ELSE IF raw THEN Write(footer, 4, wr.rawPos - wr.start) ELSE footer
        flags == FlagUserType + (IF raw THEN FlagHasRaw ELSE 0)
                 + (IF ~hasSchema THEN 0
                    ELSE FlagHasSchema + (CASE width = 1 -> FlagOneByte
                                            [] width = 2 -> FlagTwoBytes
                                            [] OTHER -> 0))
        offset == IF hasSchema THEN lenWithoutSchema ELSE GetRawPosition(wr) - wr.start
        Put(s, p, width2, v) == WriteAt(s, wr.start + p, width2, v)
    IN [wr EXCEPT
          !.s = Put(Put(Put(Put(body, OffsetFlags, 2, flags),
                            OffsetLen, 4, body.pos - wr.start),
                        OffsetSchemaId, 4, 0),
                    OffsetSchemaOrRawOff, 4, offset),
          !.schema = <<>>]

(* The part of WriteTopObject0 before the object writes itself. *)
WriteHeader(s) ==
    NewWriter(Reserve(Reserve(WriteValues(s, <<1, 1, 2, 4>>,
                                          <<HdrFull, ProtoVer, FlagUserType, 0>>), 4), 12),
              s.pos)

(* And the part after it. *)
WriteTrailer(wr) ==
    LET posted == PostWrite(wr)
    IN WriteAt(Synchronize(posted.s), wr.start + OffsetHash, 4, 0)

(* WriteTopObject0 of a nested object, whose Write writes its named fields *)
(* and then its raw ones.                                                  *)
WriteTopObject(s, o) ==
    LET n == Len(o.ops)
        t[j \in 0 .. n] ==
          IF j = 0 THEN WriteHeader(s)
          ELSE LET name == o.ops[j][1]
                   v == o.ops[j][2]
               IN IF name \in Names THEN WriteNamed(t[j - 1], name, v)
                  ELSE WriteRaw(IF RawMode(t[j - 1]) THEN t[j - 1] ELSE BeginRaw(t[j - 1]), v)
    IN IF o.null THEN Write(s, 1, HdrNull) ELSE WriteTrailer(t[n])

(* WriteTopObject of an element of a container. *)
WriteTop(s, e) ==
    IF e[1] = "value" THEN WriteHeaded(s, e[2]) ELSE WriteTopObject(s, e[2])

-----------------------------------------------------------------------------
(* The reader's types, and what they come to in memory. *)
SmallReaders ==
    [Int8   |-> [hdr |-> 1, arr |-> 12, w |-> <<1>>],
     Bool   |-> [hdr |-> 8, arr |-> 19, w |-> <<1>>],
     Int16  |-> [hdr |-> 2, arr |-> 13, w |-> <<2>>],
     UInt16 |-> [hdr |-> 7, arr |-> 18, w |-> <<2>>]]

LargeReaders ==
    [Int32  |-> [hdr |-> 3, arr |-> 14, w |-> <<4>>],
     Int64  |-> [hdr |-> 4, arr |-> 15, w |-> <<8>>],
     Float  |-> [hdr |-> 5, arr |-> 16, w |-> <<4>>],
     Double |-> [hdr |-> 6, arr |-> 17, w |-> <<8>>]]

GuidReader == [hdr |-> 10, arr |-> 21, w |-> <<8, 8>>]
DateReader == [hdr |-> 11, arr |-> 22, w |-> <<8>>]
TimestampReader == [hdr |-> 33, arr |-> 34, w |-> <<8, 4>>]
TimeReader == [hdr |-> 36, arr |-> 37, w |-> <<8>>]
EnumReader == [hdr |-> 28, arr |-> 28, w |-> <<4, 4>>]
StringReader == [hdr |-> 9, arr |-> 9, w |-> <<1>>]

Readers ==
    SmallReaders @@ LargeReaders
    @@ [Guid |-> GuidReader, Date |-> DateReader, Timestamp |-> TimestampReader,
        Time |-> TimeReader, Enum |-> EnumReader, String |-> StringReader]

(* BinaryUtils::ReadTimestamp, and ReadBool. *)
FromWire(k, x) ==
    CASE k = "Timestamp" ->
           <<Quot(x[1], MsPerSecond), Rem(x[1], MsPerSecond) * NsPerMs + x[2]>>
      [] k = "Bool" -> <<IF x[1] = 1 THEN 1 ELSE 0>>
      [] OTHER -> x

(* What a call returns: the length, or -1 for null, and the parts.  An     *)
(* exception leaves the stream where it was thrown.                        *)
Result(in, n, items) ==
    [in |-> [in EXCEPT !.err = FALSE], err |-> in.err,
     n |-> IF in.err THEN 0 ELSE n, items |-> IF in.err THEN <<>> ELSE items]

Failed(in) == Result(Throw(in), 0, <<>>)

Default(k) == [n \in 1 .. Len(Readers[k].w) |-> 0]

PartsOf(got, k) == Result(got.in, 1, <<FromWire(k, got.x)>>)

ReadParts(in, k) == PartsOf(ReadValues(in, Readers[k].w), k)

(* ReadNullable, Read and ReadBinaryEnumInternal behind the header.        *)
NullableBehind(h, k) ==
    IF h.err THEN Failed(h)
    ELSE IF h.val = Readers[k].hdr THEN ReadParts(h, k)
    ELSE IF h.val = HdrNull THEN Result(h, 1, <<Default(k)>>)
    ELSE Failed(h)

ReadNullable(in, k) == NullableBehind(Read(in, 1), k)

(* Timestamp::GetMilliseconds *)
Milliseconds(t) == <<t[1] * MsPerSecond + Quot(t[2], NsPerMs)>>

(* ReadTopObject0: that of a date takes a timestamp for one. *)
AsDate(got) == [got EXCEPT !.items = [j \in DOMAIN @ |-> Milliseconds(@[j])]]

TopBehind(h, k) ==
    IF ~h.err /\ k = "Date" /\ h.val = TimestampReader.hdr THEN AsDate(ReadParts(h, "Timestamp"))
    ELSE NullableBehind(h, k)

ReadTopValue(in, k) == TopBehind(Read(in, 1), k)

(* The elements: of a primitive, or of a structure with a header each. *)
MoreItems(before, got) ==
    [in |-> got.in, err |-> got.err \/ before.err, n |-> before.n + 1,
     items |-> before.items \o got.items]

ReadItems(in, k, count) ==
    LET t[n \in 0 .. count] ==
          IF n = 0 THEN Result(in, 0, <<>>)
          ELSE MoreItems(t[n - 1], IF k \in Primitives \cup {"String"} THEN ReadParts(t[n - 1].in, k)
                                   ELSE ReadNullable(t[n - 1].in, k))
    IN IF count <= 0 THEN Result(in, count, <<>>) ELSE t[count]

(* ReadArrayInternal and ReadStringInternal: without a buffer, or with one *)
(* that is too small (buf, -1 for NULL), only the length is read and the   *)
(* stream goes back before the value.                                      *)
ArrayBehindLength(len, k, buf) ==
    IF len.err THEN Failed(len)
    ELSE IF buf >= len.val \/ (k # "String" /\ len.val = 0) THEN ReadItems(len, k, len.val)
    ELSE Result(InPosition(len, len.pos - 5), len.val, <<>>)

ArrayBehind(h, k, buf) ==
    IF h.err THEN Failed(h)
    ELSE IF h.val = Readers[k].arr THEN ArrayBehindLength(Read(h, 4), k, buf)
    ELSE IF h.val = HdrNull THEN Result(h, -1, <<>>)
    ELSE Failed(h)

ReadArrayInternal(in, k, buf) == ArrayBehind(Read(in, 1), k, buf)

(* ReadTopObject0 of a std::string, and ReadString into one. *)
CharsBehindLength(len) ==
    IF len.err THEN Failed(len) ELSE ReadItems(len, "String", len.val)

StdStringBehind(h) ==
    IF h.err THEN Failed(h)
    ELSE IF h.val = HdrNull THEN Result(h, 0, <<>>)
    ELSE IF h.val # StringReader.hdr THEN Failed(h)
    ELSE CharsBehindLength(Read(h, 4))

ReadStdString(in) == StdStringBehind(Read(in, 1))

ReadHeaded(in, k, form, buf) ==
    IF form = "one" THEN ReadNullable(in, k) ELSE ReadArrayInternal(in, k, buf)

-----------------------------------------------------------------------------
(* BinaryReaderImpl of an object whose header the stream is at, as         *)
(* ReadTopObject0 makes it.                                                *)
ReaderBehind(h, pos) ==
    LET flags == h.x[3]
        len == h.x[6]
        schemaOrRawOff == h.x[8]
        hasSchema == HasFlag(flags, FlagHasSchema)
        both == hasSchema /\ HasFlag(flags, FlagHasRaw)
        footerEnd == IF both THEN pos + len - 4 ELSE pos + len
        known == h.x[1] = HdrFull /\ h.x[2] = ProtoVer /\ ~HasFlag(flags, FlagCompactFooter)
    IN [in |-> IF known THEN h.in ELSE Throw(h.in), pos |-> pos, len |-> len,
        rawOff |-> IF both THEN ReadAt(h.in, footerEnd, 4).val ELSE schemaOrRawOff,
        footerBegin |-> IF hasSchema THEN pos + schemaOrRawOff ELSE pos + len,
        footerEnd |-> footerEnd,
        width |-> IF HasFlag(flags, FlagOneByte) THEN 1
                  ELSE IF HasFlag(flags, FlagTwoBytes) THEN 2 ELSE 4,
        rawMode |-> FALSE, elemIdGen |-> 0, elemId |-> 0, elemCnt |-> -1, elemRead |-> 0]

NewReader(in) == ReaderBehind(ReadValues(in, <<1, 1, 2, 4, 4, 4, 4, 4>>), in.pos)

(* FindField over a footer: the position of the field, or -1.  The value   *)
(* of the offset is unsigned.                                              *)
FindIn(cells, len, start, begin, end, width, id) ==
    LET i == InputStream(cells, len)
        hits == {p \in begin .. end - 1 :
                   (p - begin) % (4 + width) = 0 /\ ValueAt(i, p, 4) = id}
    IN IF hits = {} THEN -1 ELSE ValueAt(i, Min(hits) + 4, width) + start

FindField(rd, id) ==
    FindIn(rd.in.cells, rd.in.len, rd.pos, rd.footerBegin, rd.footerEnd, rd.width, id)

AtField(rd, n) == InPosition(rd.in, FindField(rd, n))

(* Read, ReadArray, ReadGuid and the other reads of a field. *)
ReadNamed(rd, n, k, form, buf) ==
    IF FindField(rd, n) <= 0
    THEN IF form = "one" THEN Result(rd.in, 1, <<Default(k)>>) ELSE Result(rd.in, -1, <<>>)
    ELSE ReadHeaded(AtField(rd, n), k, form, buf)

(* The raw reads: a primitive has no header. *)
ReadRawValue(in, k, form, buf) ==
    IF form = "one" /\ k \in Primitives THEN ReadParts(in, k)
    ELSE ReadHeaded(in, k, form, buf)

RawStart(rd) == [rd EXCEPT !.in = InPosition(@, rd.pos + rd.rawOff), !.rawMode = TRUE]

(* ReadTopObject0 of a nested object, whose Read asks for its named fields *)
(* and then for its raw ones, as its Write wrote them.  The results are in *)
(* the order of the calls.                                                 *)
Answered(rd, results, got) ==
    [rd |-> [rd EXCEPT !.in = got.in],
     res |-> Append(results, [err |-> got.err, n |-> got.n, items |-> got.items])]

Answer(rd, results, name, v) ==
    Answered(rd, results, IF name \in Names THEN ReadNamed(rd, name, v.k, v.form, Len(v.items))
                          ELSE ReadRawValue(rd.in, v.k, v.form, Len(v.items)))

ReadOp(was, op) ==
    Answer(IF op[1] \in Names \/ was.rd.rawMode THEN was.rd ELSE RawStart(was.rd),
           was.res, op[1], op[2])

Leave(rd, end) == [in |-> InPosition(end.rd.in, rd.pos + rd.len), res |-> end.res]

ReadOps(rd, o) == Leave(rd, FoldLeft(ReadOp, [rd |-> rd, res |-> <<>>], o.ops))

ReadTopObject(in, o) ==
    IF Read(in, 1).val = HdrNull THEN [in |-> Read(in, 1), res |-> <<>>]
    ELSE ReadOps(NewReader(in), o)

(* BinaryReaderImpl::Skip over a value that is not a container. *)
SkipBehind(h, len) ==
    LET Over(width) == IF len.val > 0 THEN Ignore(len, len.val * width) ELSE len
        magnitude == Read(Ignore(h, 4), 4)
    IN CASE h.val \in {1, 8} -> Ignore(h, 1)
         [] h.val \in {2, 7} -> Ignore(h, 2)
         [] h.val \in {3, 5} -> Ignore(h, 4)
         [] h.val \in {4, 6, 11, 36, 28, TypeBinaryEnum} -> Ignore(h, 8)
         [] h.val = 10 -> Ignore(h, 16)
         [] h.val = 33 -> Ignore(h, 12)
         [] h.val \in {9, 12, 19} -> Over(1)
         [] h.val \in {13, 18} -> Over(2)
         [] h.val \in {14, 16} -> Over(4)
         [] h.val \in {15, 17} -> Over(8)
         [] h.val = TypeBinary -> Ignore(len, len.val + 4)
         [] h.val = TypeDecimal -> Ignore(magnitude, magnitude.val)
         [] h.val = TypeOptmMarsh -> Ignore(len, len.val)
         [] h.val = HdrFull -> InPosition(h, h.pos - 1 + ReadAt(h, h.pos - 1 + OffsetLen, 4).val)
         [] h.val = HdrNull -> h
         [] OTHER -> Throw(h)

SkipLeaf(in) == SkipBehind(Read(in, 1), Read(Read(in, 1), 4))

(* BinaryReaderImpl::Skip. *)
Skip(in) ==
    LET h == Read(in, 1)
        len == Read(h, 4)
        Times(i, n) == LET t[j \in 0 .. n] == IF j = 0 THEN i ELSE SkipLeaf(t[j - 1]) IN t[n]
    IN CASE h.val \in {20, 21, 22, 34, 37, 23, TypeArrayDecimal} -> Times(len, len.val)
         [] h.val = 24 -> Times(Ignore(len, 1), len.val)
         [] h.val = 25 -> Times(Ignore(len, 1), 2 * len.val)
         [] OTHER -> SkipLeaf(in)

-----------------------------------------------------------------------------
(* Containers: the header, and whether a type follows the count. *)
ContainerHdr == [StringArray |-> 20, Array |-> 23, Collection |-> 24, Map |-> 25]
Typed(c) == c \in {"Collection", "Map"}
CollectionType == 1

(* What a container of the kind takes: a string array strings, a map two   *)
(* things at a time.                                                       *)
Taken(c) ==
    CASE c = "StringArray" -> {<<e>> : e \in {e \in Elements : e[1] = "value" /\ e[2].k = "String"}}
      [] c = "Map" -> Elements \X Elements
      [] OTHER -> {<<e>> : e \in Elements}

Used == {log[j].n : j \in DOMAIN log}
RawName == 0
Modes == Names \cup {RawName}

(* CheckRawMode for a call with a field name, or without one. *)
Mode(wr, n) == IF n = RawName THEN RawMode(wr) ELSE ~RawMode(wr)

MayWrite(n) ==
    /\ phase = "write"
    /\ Len(log) < MaxWrites
    /\ Mode(w, n)
    /\ n # RawName => n = Cardinality(Used \ {RawName}) + 1

Logged(n, t, p) == log' = Append(log, [n |-> n, t |-> t, p |-> p])

NothingSeen == [want |-> <<>>, got |-> <<>>]

BinInit ==
    /\ w = WriteHeader(OutputStream(4))
    /\ log = <<>>
    /\ phase = "write"
    /\ mixed = FALSE
    /\ mem = [cells |-> <<>>, len |-> 0, wrap |-> 0]
    /\ r = <<>>
    /\ rawIdx = 0
    /\ left = <<>>
    /\ seen = NothingSeen

Reading == <<mem, r, rawIdx, left, seen>>

(* The writes of a value, by name or raw. *)
WriteValue(n, v) ==
    /\ MayWrite(n)
    /\ SingleMode(w)
    /\ log # <<>> => v \in Later
    /\ w' = IF n = RawName THEN WriteRaw(w, v) ELSE WriteNamed(w, n, v)
    /\ Logged(n, "value", v)
    /\ UNCHANGED <<phase, mixed, Reading>>

(* WriteObject, which does not look whether a container is open. *)
WriteObject(n, o) ==
    /\ MayWrite(n)
    /\ w' = LET at == IF n = RawName THEN w ELSE WriteFieldId(w, n)
            IN [at EXCEPT !.s = WriteTopObject(@, o)]
    /\ mixed' = (mixed \/ ~SingleMode(w))
    /\ Logged(n, "object", o)
    /\ UNCHANGED <<phase, Reading>>

(* WriteStringArray, WriteArray, WriteCollection and WriteMap. *)
StartContainer(n, c) ==
    /\ MayWrite(n) /\ w.elemIdGen < MaxSessions
    /\ SingleMode(w)
    /\ w' = LET at == IF n = RawName THEN w ELSE WriteFieldId(w, n)
                counted == Reserve(Write(at.s, 1, ContainerHdr[c]), 4)
            IN [at EXCEPT !.elemIdGen = @ + 1, !.elemId = w.elemIdGen + 1, !.elemPos = w.s.pos,
                          !.s = IF Typed(c) THEN Write(counted, 1, CollectionType) ELSE counted]
    /\ Logged(n, "container", [c |-> c, els |-> <<>>])
    /\ UNCHANGED <<phase, mixed, Reading>>

OpenAt == Max({j \in DOMAIN log : log[j].t = "container"})

(* WriteElement and WriteStringElement of the open session. *)
WriteElement(e) ==
    /\ phase = "write" /\ ~SingleMode(w) /\ (w.elemCnt + 1) * Len(e) <= MaxElements
    /\ e \in Taken(log[OpenAt].p.c)
    /\ w' = [w EXCEPT !.s = FoldLeft(WriteTop, @, e), !.elemCnt = @ + 1]
    /\ log' = [log EXCEPT ![OpenAt].p.els = Append(@, e)]
    /\ UNCHANGED <<phase, mixed, Reading>>

CommitContainer ==
    /\ phase = "write" /\ ~SingleMode(w)
    /\ w' = [w EXCEPT !.s = WriteAt(@, w.elemPos + 1, 4, w.elemCnt),
                      !.elemId = 0, !.elemCnt = 0, !.elemPos = -1]
    /\ UNCHANGED <<log, phase, mixed, Reading>>

SetRawMode ==
    /\ phase = "write" /\ ~RawMode(w) /\ SingleMode(w)
    /\ w' = BeginRaw(w)
    /\ UNCHANGED <<log, phase, mixed, Reading>>

(* The value behind the object in the message. *)
Marker == 77

(* The object has written itself, with its containers closed; what follows *)
(* in the message is written behind it.                                    *)
FinishObject ==
    /\ phase = "write" /\ SingleMode(w)
    /\ phase' = "sent"
    /\ w' = [w EXCEPT !.s = Synchronize(Write(WriteTrailer(w), 4, Marker)), !.schema = <<>>]
    /\ UNCHANGED <<log, mixed, Reading>>

(* The other side sends the object as it is, or as part of an array of     *)
(* bytes, off bytes from its beginning.                                    *)
Wrapped(cells, len, off) ==
    LET size == len - 4 + off
        inside == [p \in {q + 5 + off : q \in {q \in DOMAIN cells : q < len - 4}} |->
                     cells[p - 5 - off]]
    IN inside @@ (0 :> [w |-> 1, v |-> TypeBinary]) @@ (1 :> [w |-> 4, v |-> size])
       @@ (5 + size :> [w |-> 4, v |-> off]) @@ (9 + size :> [w |-> 4, v |-> Marker])

(* ReadTopObject0 up to the call of the object's Read. *)
OpenObject(in) ==
    LET h == Read(in, 1)
        size == Read(h, 4)
        off == ReadAt(size, size.pos + size.val, 4).val
    IN NewReader(IF h.val = TypeBinary THEN InPosition(size, size.pos + off) ELSE in)

Wraps == {-1, 2}

Deliver(wrap) ==
    /\ phase = "sent" /\ ~mixed
    /\ phase' = "read"
    /\ LET cells == IF wrap = -1 THEN w.s.cells ELSE Wrapped(w.s.cells, w.s.len, wrap)
           len == IF wrap = -1 THEN w.s.len ELSE w.s.len + wrap + 9
       IN /\ mem' = [cells |-> cells, len |-> len, wrap |-> wrap]
          /\ r' = OpenObject(InputStream(cells, len))
    /\ w' = WriteHeader(OutputStream(4))
    /\ UNCHANGED <<log, mixed, rawIdx, left, seen>>

-----------------------------------------------------------------------------
(* What the calls should return, from what was written.  Timestamps are    *)
(* compared as instants: one before 1970 comes back with other seconds and *)
(* a negative fraction, the same moment.  Read as a date it is the         *)
(* millisecond towards 1970.                                               *)
Instant(t) == t[1] * MsPerSecond * NsPerMs + t[2]

Truncated(t) == <<Quot(Instant(t), NsPerMs)>>

Shown(k, res) ==
    [err |-> res.err, n |-> res.n,
     items |-> IF k = "Timestamp" THEN [j \in DOMAIN res.items |-> <<Instant(res.items[j])>>]
               ELSE res.items]

Want(n, items) == [err |-> FALSE, n |-> n, items |-> items]
WantThrow == [err |-> TRUE, n |-> 0, items |-> <<>>]
WantNull(k, form) == IF form = "one" THEN Want(1, <<Default(k)>>) ELSE Want(-1, <<>>)

WantValue(v, buf) ==
    IF v.null THEN WantNull(v.k, v.form)
    ELSE IF v.form = "one" \/ buf >= Len(v.items) THEN Want(Len(v.items), v.items)
    ELSE Want(Len(v.items), <<>>)

WantObject(o) ==
    IF o.null THEN <<>>
    ELSE [j \in DOMAIN o.ops |-> Shown(o.ops[j][2].k, WantValue(o.ops[j][2], Len(o.ops[j][2].items)))]

Written(n) == {j \in DOMAIN log : log[j].n = n}
Entry(n) == log[CHOOSE j \in Written(n) : TRUE]
IsNull(ent) == ent.t # "container" /\ ent.p.null
IsTimestamp(ent) == ent.t = "value" /\ ent.p.k = "Timestamp" /\ ent.p.form = "one"

WantField(n, k, form, buf) ==
    IF Written(n) = {} \/ IsNull(Entry(n)) THEN WantNull(k, form)
    ELSE LET ent == Entry(n)
         IN IF ent.t = "value" /\ ent.p.k = k /\ ent.p.form = form THEN WantValue(ent.p, buf)
            ELSE WantThrow

RawLog == SelectSeq(log, LAMBDA ent : ent.n = RawName)
NextRaw == RawLog[rawIdx + 1]

(* The kinds of value an application asks for: those written, an int64,    *)
(* and a date where there is a timestamp.                                  *)
Asked ==
    {<<log[j].p.k, log[j].p.form>> : j \in {j \in DOMAIN log : log[j].t = "value"}}
    \cup {<<"Int64", "one">>}
    \cup {<<"Date", "one">> : j \in {j \in DOMAIN log : IsTimestamp(log[j])}}

Buffers == {-1, 2}

See(k, want, got) ==
    seen' = [want |-> <<Shown(k, want)>>, got |-> <<Shown(k, got)>>]

SeeAndMove(k, want, got) == See(k, want, got) /\ r' = [r EXCEPT !.in = got.in]

Open == phase = "read" /\ r.elemId = 0

Written2 == <<w, log, phase, mixed, mem>>

(* The reads of a field: a value of the kind, into a buffer of the size. *)
ReadField(n, k, form, buf) ==
    /\ Open /\ ~r.rawMode
    /\ form = "one" => buf = -1
    /\ SeeAndMove(k, WantField(n, k, form, buf), ReadNamed(r, n, k, form, buf))
    /\ UNCHANGED <<Written2, rawIdx, left>>

(* BinaryObjectImpl on the same memory: HasField and GetField.  The check  *)
(* for enough data adds the start of the object twice.                     *)
ObjectField(n, k, form) ==
    /\ Open /\ ~r.rawMode
    /\ form = "one" \/ k = "String"
    /\ LET footerEnd == r.pos + r.len
           short == mem.len - r.pos < footerEnd
           at == FindIn(mem.cells, mem.len, r.pos, r.footerBegin, footerEnd, r.width, n)
           in == InPosition(InputStream(mem.cells, mem.len), at)
           got == IF short THEN Failed(r.in)
                  ELSE IF at = -1 THEN Result(r.in, 1, <<Default(k)>>)
                  ELSE IF form = "one" THEN ReadTopValue(in, k) ELSE ReadStdString(in)
           null == Written(n) = {} \/ IsNull(Entry(n))
           want == IF short THEN WantThrow
                   ELSE IF form # "one" /\ null
                   THEN IF Written(n) = {} THEN Want(1, <<Default(k)>>) ELSE Want(0, <<>>)
                   ELSE IF k = "Date" /\ ~null /\ IsTimestamp(Entry(n))
                   THEN Want(1, <<Truncated(Entry(n).p.items[1])>>)
                   ELSE WantField(n, k, form, MaxElements)
       IN See(k, want, got)
    /\ UNCHANGED <<Written2, r, rawIdx, left>>

(* ReadObject of a field or of raw data, and TryReadObject, as the object  *)
(* that was written.                                                       *)
SeeObject(o, got) ==
    /\ seen' = [want |-> WantObject(o),
                got |-> [j \in DOMAIN got.res |-> Shown(o.ops[j][2].k, got.res[j])]]
    /\ r' = [r EXCEPT !.in = got.in]

ReadObject(n) ==
    /\ Open /\ r.rawMode = (n = RawName)
    /\ n = RawName => rawIdx < Len(RawLog)
    /\ n # RawName => Written(n) # {}
    /\ LET ent == IF n = RawName THEN NextRaw ELSE Entry(n)
       IN /\ ent.t = "object"
          /\ SeeObject(ent.p, ReadTopObject(IF n = RawName THEN r.in ELSE AtField(r, n), ent.p))
    /\ rawIdx' = IF n = RawName THEN rawIdx + 1 ELSE rawIdx
    /\ UNCHANGED <<Written2, left>>

(* BinaryReaderImpl::SetRawMode. *)
ReaderSetRawMode ==
    /\ Open /\ ~r.rawMode
    /\ r' = RawStart(r)
    /\ UNCHANGED <<Written2, rawIdx, left, seen>>

(* The raw reads, in the order of the writes.  A call that only got the    *)
(* length is made again.                                                   *)
SeeRaw(v, buf, got) ==
    /\ SeeAndMove(v.k, WantValue(v, buf), got)
    /\ rawIdx' = IF got.in.pos > r.in.pos THEN rawIdx + 1 ELSE rawIdx

ReadRaw(buf) ==
    /\ Open /\ r.rawMode /\ rawIdx < Len(RawLog)
    /\ NextRaw.t = "value"
    /\ LET v == NextRaw.p
       IN /\ v.form = "one" => buf = -1 /\ (v.null => v.k \notin Primitives)
          /\ SeeRaw(v, buf, ReadRawValue(r.in, v.k, v.form, buf))
    /\ UNCHANGED <<Written2, left>>

(* Skip of the next raw value, when it has a header; SkipIfNull is the     *)
(* same for a null.                                                        *)
SkipRaw ==
    /\ Open /\ r.rawMode /\ rawIdx < Len(RawLog)
    /\ NextRaw.t = "value" => NextRaw.p.null \/ ~(NextRaw.p.form = "one" /\ NextRaw.p.k \in Primitives)
    /\ SeeAndMove("Int8", Want(0, <<>>), Result(Skip(r.in), 0, <<>>))
    /\ rawIdx' = rawIdx + 1
    /\ UNCHANGED <<Written2, left>>

(* StartContainerSession, with the type of a collection or a map behind    *)
(* it: the reader, and the size.                                           *)
StartSession(rd, in, c) ==
    LET h == Read(in, 1)
        cnt == Read(h, 4)
        next == rd.elemIdGen + 1
        typ == IF Typed(c) THEN Read(cnt, 1) ELSE cnt
    IN IF h.val = ContainerHdr[c]
       THEN [rd |-> IF cnt.val # 0
                    THEN [rd EXCEPT !.in = typ, !.elemIdGen = next, !.elemId = next,
                                    !.elemCnt = cnt.val, !.elemRead = 0]
                    ELSE [rd EXCEPT !.in = typ, !.elemIdGen = next],
             res |-> Result(typ, cnt.val, IF Typed(c) THEN <<<<typ.val>>>> ELSE <<>>)]
       ELSE IF h.val = HdrNull
       THEN [rd |-> [rd EXCEPT !.in = h, !.elemIdGen = next], res |-> Result(h, -1, <<>>)]
       ELSE [rd |-> [rd EXCEPT !.in = h], res |-> Failed(h)]

(* ReadStringArray, ReadArray, ReadCollection and ReadMap. *)
ReadContainer(n, c) ==
    /\ Open /\ r.rawMode = (n = RawName) /\ r.elemIdGen < MaxSessions
    /\ n = RawName => rawIdx < Len(RawLog) /\ NextRaw.t = "container" /\ NextRaw.p.c = c
    /\ LET ent == IF n = RawName THEN NextRaw ELSE Entry(n)
           absent == n # RawName /\ Written(n) = {}
           got == IF n # RawName /\ FindField(r, n) <= 0
                  THEN [rd |-> [r EXCEPT !.elemIdGen = @ + 1], res |-> Result(r.in, -1, <<>>)]
                  ELSE StartSession(r, IF n = RawName THEN r.in ELSE AtField(r, n), c)
           right == ~absent /\ ent.t = "container" /\ ent.p.c = c
           want == IF absent THEN Want(-1, <<>>)
                   ELSE IF right
                   THEN Want(Len(ent.p.els), IF Typed(c) THEN <<<<CollectionType>>>> ELSE <<>>)
                   ELSE IF IsNull(ent) THEN Want(-1, <<>>) ELSE WantThrow
       IN /\ See("Int8", want, got.res)
          /\ r' = got.rd
          /\ left' = IF right THEN ent.p.els ELSE <<>>
    /\ rawIdx' = IF n = RawName THEN rawIdx + 1 ELSE rawIdx
    /\ UNCHANGED Written2

(* ReadCollectionSize and ReadCollectionType: the position stays. *)
ReadCollectionSize(n) ==
    /\ Open /\ r.rawMode = (n = RawName)
    /\ n = RawName => rawIdx < Len(RawLog) /\ NextRaw.t = "container" /\ NextRaw.p.c = "Collection"
    /\ n # RawName => Written(n) # {}
    /\ LET ent == IF n = RawName THEN NextRaw ELSE Entry(n)
           got == StartSession(r, IF n = RawName THEN r.in ELSE AtField(r, n), "Collection").res
       IN /\ ent.t = "container" /\ ent.p.c = "Collection"
          /\ See("Int8", Want(Len(ent.p.els), <<<<CollectionType>>>>), got)
          /\ r' = [r EXCEPT !.in = Guarded(r.in, got.in)]
    /\ UNCHANGED <<Written2, rawIdx, left>>

(* One of the two things of an element. *)
ReadTop(in, e) ==
    IF e[1] = "object" THEN ReadTopObject(in, e[2])
    ELSE LET got == IF e[2].k = "String" THEN ReadStdString(in) ELSE ReadTopValue(in, e[2].k)
         IN [in |-> got.in, res |-> <<[err |-> got.err, n |-> got.n, items |-> got.items]>>]

WantTop(e) ==
    IF e[1] = "object" THEN WantObject(e[2])
    ELSE <<IF e[2].null THEN Want(0, <<>>) ELSE Want(Len(e[2].items), e[2].items)>>

(* The session ends with the last element, before that is read. *)
Counted(rd) ==
    IF rd.elemRead + 1 = rd.elemCnt
    THEN [rd EXCEPT !.elemId = 0, !.elemCnt = -1, !.elemRead = 0]
    ELSE [rd EXCEPT !.elemRead = @ + 1]

(* ReadElement, of one value or of a key and a value. *)
Joined(first, second) == [in |-> second.in, res |-> first.res \o second.res]

ReadNext(got, e) == Joined(got, ReadTop(got.in, e))

SeeElement(e, got) ==
    /\ seen' = [want |-> FlattenSeq([j \in DOMAIN e |-> WantTop(e[j])]), got |-> got.res]
    /\ r' = [Counted(r) EXCEPT !.in = got.in]

ReadElement ==
    /\ phase = "read" /\ r.elemId # 0 /\ left # <<>>
    /\ SeeElement(Head(left), FoldLeft(ReadNext, [in |-> r.in, res |-> <<>>], Head(left)))
    /\ left' = Tail(left)
    /\ UNCHANGED <<Written2, rawIdx>>

(* ReadStringElement, which counts an element only when the position has   *)
(* moved.                                                                  *)
SeeString(v, buf, got) ==
    /\ See("String", WantValue(v, buf), got)
    /\ r' = [(IF got.in.pos > r.in.pos THEN Counted(r) ELSE r) EXCEPT !.in = got.in]
    /\ left' = IF got.in.pos > r.in.pos THEN Tail(left) ELSE left

ReadStringElement(buf) ==
    /\ phase = "read" /\ r.elemId # 0 /\ left # <<>>
    /\ Len(Head(left)) = 1 /\ Head(left)[1][1] = "value" /\ Head(left)[1][2].k = "String"
    /\ SeeString(Head(left)[1][2], buf, ReadArrayInternal(r.in, "String", buf))
    /\ UNCHANGED <<Written2, rawIdx>>

(* The object's Read returns; ReadTopObject0 goes to the end of the object *)
(* or of the array it was in, and the next value of the message is read.   *)
EndObject ==
    /\ phase = "read"
    /\ phase' = "done"
    /\ SeeAndMove("Int32", Want(1, <<<<Marker>>>>),
                  ReadParts(InPosition(r.in, IF mem.wrap = -1 THEN r.pos + r.len ELSE mem.len - 4),
                            "Int32"))
    /\ UNCHANGED <<w, log, mixed, mem, rawIdx, left>>

BinWrites ==
    \/ \E n \in Modes, v \in Values : WriteValue(n, v)
    \/ \E n \in Modes, o \in Objects : WriteObject(n, o)
    \/ \E n \in Modes, c \in DOMAIN ContainerHdr : StartContainer(n, c)
    \/ \E e \in Taken("Map") \cup Taken("Array") : WriteElement(e)
    \/ CommitContainer
    \/ SetRawMode
    \/ FinishObject

BinReads ==
    \/ \E wrap \in Wraps : Deliver(wrap)
    \/ \E n \in Names, a \in Asked, buf \in Buffers : ReadField(n, a[1], a[2], buf)
    \/ \E n \in Names, a \in Asked : ObjectField(n, a[1], a[2])
    \/ \E n \in Modes : ReadObject(n)
    \/ ReaderSetRawMode
    \/ \E buf \in Buffers : ReadRaw(buf)
    \/ SkipRaw
    \/ \E n \in Modes, c \in DOMAIN ContainerHdr : ReadContainer(n, c)
    \/ \E n \in Modes : ReadCollectionSize(n)
    \/ ReadElement
    \/ \E buf \in Buffers : ReadStringElement(buf)
    \/ EndObject

BinNext == BinWrites \/ BinReads

BinSpec == BinInit /\ [][BinNext]_binVars

BinTypeOK ==
    /\ phase \in {"write", "sent", "read", "done"}
    /\ mixed \in BOOLEAN
    /\ \A j \in DOMAIN log : log[j].n \in Modes /\ log[j].t \in {"value", "object", "container"}

(* Whatever an object wrote, by name, raw, as an object or in containers,  *)
(* each read of it returns that: every field is found in the footer        *)
(* whatever the order and the width of the offsets, an absent or null one  *)
(* is the default, a wrong type is refused, a buffer too small costs       *)
(* nothing, containers give their elements and then end, raw data follows  *)
(* in order, and the value behind the object is found wherever the object  *)
(* stopped reading.                                                        *)
ReadsWhatWasWritten == seen.got = seen.want

(* The writer's stream never holds less memory than it wrote. *)
StreamFits == w.s.cap <= w.s.memCap /\ w.s.pos <= w.s.cap
=============================================================================
