------------------------------ MODULE MCClient ------------------------------
(***************************************************************************)
(* The library below the driver, for TLC: the handle registry, the         *)
(* reference counts of a lazy instance, the metadata of binary types, the  *)
(* binary objects, the operations of a cache, a query's cursor and a       *)
(* continuous query.  A behaviour is about one of them, its part; the      *)
(* others rest.                                                            *)
(***************************************************************************)
EXTENDS HandleRegistry, SharedPtr, QueryCursor, ContinuousQuery, TypeManager, TLC

CONSTANTS t1, t2, t3, a, b

VARIABLES
    part,
    writer, log, phase, mixed, mem, reader, rawIdx, left, seen,
    content, last

binaryVars == <<writer, log, phase, mixed, mem, reader, rawIdx, left, seen>>
callVars == <<content, last>>
allVars == <<part, vars, ptrVars, cursorVars, queryVars, tmVars, binaryVars, callVars>>

TwoThreads == {t1, t2}
TwoTargets == {a, b}
ThreeCallers == {t1, t2, t3}
OneFilter == {t3}
ThreeColumns == <<"array", "null", "value">>

Cache == INSTANCE Cache WITH
    Keys <- {1, 2}, Values <- {1, 2}, Stored <- 1, Absent <- a, Undefined <- b

(* Values of each form, some null, empty, or a moment before 1970. *)
One(k, x) == [k |-> k, form |-> "one", null |-> FALSE, items |-> <<x>>]
Several(k, xs) == [k |-> k, form |-> "array", null |-> FALSE, items |-> xs]
Text(cs) == [k |-> "String", form |-> "string", null |-> FALSE, items |-> cs]
Before1970 == <<-1, 35>>
Pair == <<<<5>>, <<6>>>>

BinaryValues ==
    {One("Double", <<5>>), One("Guid", <<3, 4>>), One("Enum", <<1, 2>>),
     One("Timestamp", Before1970),
     Several("Date", Pair), Several("Timestamp", <<Before1970>>), Several("Time", <<>>),
     [Several("Int64", <<>>) EXCEPT !.null = TRUE],
     Text(Pair), [Text(<<>>) EXCEPT !.null = TRUE]}

SomeObject ==
    [null |-> FALSE, ops |-> << <<1, One("Int32", <<7>>)>>, <<0, One("Int8", <<8>>)>>,
                                <<0, Text(<<<<9>>>>)>> >>]

(* Two fields, raw values or containers; the limits of the offsets are     *)
(* such that all three widths occur.                                       *)
Binary == INSTANCE Binary WITH
    Names <- {1, 2}, Values <- BinaryValues,
    Later <- {Text(Pair)},
    Elements <- {<<"value", Text(Pair)>>},
    Objects <- {SomeObject, [null |-> TRUE, ops |-> <<>>]},
    OneByteLimit <- 28, TwoBytesLimit <- 36, MsPerSecond <- 10, NsPerMs <- 10,
    MaxWrites <- 2, MaxElements <- 2, MaxSessions <- 1,
    w <- writer, r <- reader

(* One field, with objects in the containers too. *)
Nested == INSTANCE Binary WITH
    Names <- {1}, Values <- {One("Date", <<5>>), Several("UInt16", Pair), Text(<<>>)},
    Later <- {Text(<<>>)},
    Elements <- {<<"value", Text(Pair)>>, <<"object", SomeObject>>},
    Objects <- {SomeObject},
    OneByteLimit <- 28, TwoBytesLimit <- 36, MsPerSecond <- 10, NsPerMs <- 10,
    MaxWrites <- 2, MaxElements <- 2, MaxSessions <- 1,
    w <- writer, r <- reader

MCInit ==
    /\ part \in {"registry", "pointer", "cursor", "continuous", "types", "binary", "binary nested",
                "cache"}
    /\ Init /\ PtrInit /\ CursorInit /\ ContinuousInit
    /\ TMInit /\ Binary!BinInit /\ Cache!CacheInit
    /\ IF part = "types" THEN DOMAIN server = {1} /\ server[1] # {} ELSE server = <<>>
    /\ part # "cursor" => ~fields
    /\ part # "continuous" => closeWaits /\ filtered

MCNext ==
    \/ /\ part = "registry" /\ Next
       /\ UNCHANGED <<part, ptrVars, cursorVars, queryVars, tmVars, binaryVars, callVars>>
    \/ /\ part = "pointer" /\ PtrNext
       /\ UNCHANGED <<part, vars, cursorVars, queryVars, tmVars, binaryVars, callVars>>
    \/ /\ part = "cursor" /\ CursorNext
       /\ UNCHANGED <<part, vars, ptrVars, queryVars, tmVars, binaryVars, callVars>>
    \/ /\ part = "continuous" /\ ContinuousNext
       /\ UNCHANGED <<part, vars, ptrVars, cursorVars, tmVars, binaryVars, callVars>>
    \/ /\ part = "types" /\ TMNext
       /\ UNCHANGED <<part, vars, ptrVars, cursorVars, queryVars, binaryVars, callVars>>
    \/ /\ part = "binary" /\ Binary!BinNext
       /\ UNCHANGED <<part, vars, ptrVars, cursorVars, queryVars, tmVars, callVars>>
    \/ /\ part = "binary nested" /\ Nested!BinNext
       /\ UNCHANGED <<part, vars, ptrVars, cursorVars, queryVars, tmVars, callVars>>
    \/ /\ part = "cache" /\ Cache!CacheNext
       /\ UNCHANGED <<part, vars, ptrVars, cursorVars, queryVars, tmVars, binaryVars>>

MCSpec == MCInit /\ [][MCNext]_allVars

(* The two threads are alike in every part. *)
Symmetry == Permutations({t1, t2})

-----------------------------------------------------------------------------
(* BinaryWriterImpl and BinaryReaderImpl: every read returns what was      *)
(* written there, in a stream that always had the memory for it.           *)
MarshalledIsRead ==
    /\ part = "binary" => Binary!BinTypeOK /\ Binary!ReadsWhatWasWritten /\ Binary!StreamFits
    /\ part = "binary nested" =>
          Nested!BinTypeOK /\ Nested!ReadsWhatWasWritten /\ Nested!StreamFits

(* Cache and CacheImpl: a call without an error has done to Java's cache   *)
(* what its name says, and a failure is told but by the four operations    *)
(* that lose it.                                                           *)
CacheIsAsked == part = "cache" => Cache!CacheDoesAsAsked
=============================================================================
