------------------------------- MODULE Cache -------------------------------
(***************************************************************************)
(* The cache of the client the driver inherits: the operations of          *)
(* cache/cache.h, the streams they write and read (impl/operations.h), the *)
(* operation codes CacheImpl sends them under (impl/cache/cache_impl.cpp)  *)
(* and the ways InteropTarget carries them to Java and the answer back.    *)
(*                                                                         *)
(* An operation is described by what it asks of CacheImpl: the method, the *)
(* stream and how the answer is read.  The overloads that throw, and those *)
(* that take iterators for a set or a map, ask the same.  Java is          *)
(* external: it is the cache of one node, decodes a stream by its code     *)
(* alone, and may fail before or after it has done what was asked.         *)
(***************************************************************************)
EXTENDS Integers, Sequences, FiniteSets, FiniteSetsExt, SequencesExt

CONSTANTS
    Keys, Values,  \* numbers
    Absent,        \* no value, C++'s default value
    Undefined,     \* a variable that nobody has set
    Stored         \* the value the cache's store has for every key

VARIABLES
    content,  \* Java's cache
    last      \* the call just made: what was asked, and what came of it

cacheVars == <<content, last>>

NoCall == [name |-> "none", args |-> <<>>, before |-> <<>>, fault |-> "none",
           result |-> FALSE, told |-> FALSE]

CacheInit == content = [k \in Keys |-> Absent] /\ last = NoCall

-----------------------------------------------------------------------------
(* impl/operations.h: what an operation writes. *)
In1Operation(x) == <<x>>

(* Mutant: the two change places. *)
In2OperationSwapped(x, y) == <<y, x>>

In2Operation(x, y) == <<x, y>>
In3Operation(x, y, z) == <<x, y, z>>
InSetOperation(ks) == <<Cardinality(ks)>> \o SetToSortSeq(ks, <)
InMapOperation(m) ==
    <<Cardinality(DOMAIN m)>> \o
    FlattenSeq([i \in 1 .. Cardinality(DOMAIN m) |->
                   LET k == SetToSortSeq(DOMAIN m, <)[i] IN <<k, m[k]>>])
InCacheLocalPeekOperation(k, peekModes) == <<k, peekModes>>
InCacheInvokeOperation(k, processor) == <<k, 0, processor>>

(* The size is written over the place reserved for it when all are there;  *)
(* an entry is a key alone or a key with its value.                        *)
InIterOperation(entries) == <<Len(entries)>> \o FlattenSeq(entries)

(* What an operation reads: a value, a map, or nothing.  SetNull leaves a  *)
(* map as it was, empty.                                                   *)
Out1Operation == [read |-> "value", null |-> Absent, unset |-> Undefined]
OutMapOperation == [read |-> "map", null |-> {}, unset |-> {}]

(* ProcessOutput: the pairs of the map after the flag and their number, or *)
(* the one object.                                                         *)
ProcessOutput(out, stream) ==
    IF out.read = "map"
    THEN IF stream[1] = 1
         THEN {<<stream[2 * i + 1], stream[2 * i + 2]>> : i \in 1 .. stream[2]}
         ELSE {}
    ELSE stream[1]

-----------------------------------------------------------------------------
(* impl/cache/cache_impl.cpp: the codes. *)
Operation ==
    [CLEAR |-> 1, CLEAR_ALL |-> 2, CONTAINS_KEY |-> 3, CONTAINS_KEYS |-> 4, GET |-> 5,
     GET_ALL |-> 6, GET_AND_PUT |-> 7, GET_AND_PUT_IF_ABSENT |-> 8, GET_AND_REMOVE |-> 9,
     GET_AND_REPLACE |-> 10, INVOKE |-> 12, LOAD_CACHE |-> 15, LOCAL_EVICT |-> 16,
     LOC_LOAD_CACHE |-> 17, LOCAL_CLEAR |-> 20, LOCAL_CLEAR_ALL |-> 21, LOCAL_PEEK |-> 25,
     PUT |-> 26, PUT_ALL |-> 27, PUT_IF_ABSENT |-> 28, QRY_SCAN |-> 30, QRY_SQL |-> 31,
     QRY_SQL_FIELDS |-> 32, QRY_TEXT |-> 33, REMOVE_ALL |-> 34, REMOVE_2 |-> 35,
     REMOVE_1 |-> 36, REPLACE_2 |-> 37, REPLACE_3 |-> 38, CLEAR_CACHE |-> 41,
     REMOVE_ALL2 |-> 43, SIZE |-> 48, SIZE_LOC |-> 56, INVOKE_JAVA |-> 98]

(* The ways to Java: with a stream for a yes or no, with a stream for a    *)
(* stream, with a number for a number, with a query for a cursor.          *)
Asks(code, in) == [way |-> "OutOp", code |-> code, in |-> in, out |-> Out1Operation]
AsksFor(code, in, out) == [way |-> "OutInOpX", code |-> code, in |-> in, out |-> out]
AsksLong(code, n) == [way |-> "OutInOpLong", code |-> code, in |-> <<n>>, out |-> Out1Operation]
QueryInternal(code) == [way |-> "query", code |-> code, in |-> <<>>, out |-> Out1Operation]

(* Clear, RemoveAll, LoadCache and LocalLoadCache of the whole cache: the  *)
(* error is set again, from a JniErrorInfo nobody has given to Java.       *)
AsksSilently(code, in) == [way |-> "silent", code |-> code, in |-> in, out |-> Out1Operation]

-----------------------------------------------------------------------------
(* cache/cache.h, and the CacheImpl method each operation calls. *)
SizeOf(peekModes, local) ==
    AsksLong(IF local THEN Operation.SIZE_LOC ELSE Operation.SIZE, peekModes)
ContainsKey(k) == Asks(Operation.CONTAINS_KEY, In1Operation(k))
ContainsKeys(ks) == Asks(Operation.CONTAINS_KEYS, InSetOperation(ks))
LocalPeek(k, peekModes) ==
    AsksFor(Operation.LOCAL_PEEK, InCacheLocalPeekOperation(k, peekModes), Out1Operation)
Get(k) == AsksFor(Operation.GET, In1Operation(k), Out1Operation)
GetAll(ks) == AsksFor(Operation.GET_ALL, InSetOperation(ks), OutMapOperation)
GetAllOf(keys) == AsksFor(Operation.GET_ALL, InIterOperation(keys), OutMapOperation)
Put(k, v) == Asks(Operation.PUT, In2Operation(k, v))
PutAll(m) == Asks(Operation.PUT_ALL, InMapOperation(m))
PutAllOf(entries) == Asks(Operation.PUT_ALL, InIterOperation(entries))
GetAndPut(k, v) == AsksFor(Operation.GET_AND_PUT, In2Operation(k, v), Out1Operation)
GetAndReplace(k, v) == AsksFor(Operation.GET_AND_REPLACE, In2Operation(k, v), Out1Operation)
GetAndRemove(k) == AsksFor(Operation.GET_AND_REMOVE, In1Operation(k), Out1Operation)
PutIfAbsent(k, v) == Asks(Operation.PUT_IF_ABSENT, In2Operation(k, v))
GetAndPutIfAbsent(k, v) ==
    AsksFor(Operation.GET_AND_PUT_IF_ABSENT, In2Operation(k, v), Out1Operation)
Replace(k, v) == Asks(Operation.REPLACE_2, In2Operation(k, v))
ReplaceIfEqual(k, v, w) == Asks(Operation.REPLACE_3, In3Operation(k, v, w))
LocalEvict(ks) == Asks(Operation.LOCAL_EVICT, InSetOperation(ks))
Clear == AsksSilently(Operation.CLEAR_CACHE, <<>>)
ClearKey(k) == Asks(Operation.CLEAR, In1Operation(k))
ClearAll(ks) == Asks(Operation.CLEAR_ALL, InSetOperation(ks))
LocalClear(k) == Asks(Operation.LOCAL_CLEAR, In1Operation(k))
LocalClearAll(ks) == Asks(Operation.LOCAL_CLEAR_ALL, InSetOperation(ks))
RemoveKey(k) == Asks(Operation.REMOVE_1, In1Operation(k))
RemoveIfEqual(k, v) == Asks(Operation.REMOVE_2, In2Operation(k, v))
RemoveAllKeys(ks) == Asks(Operation.REMOVE_ALL, InSetOperation(ks))
RemoveAll == AsksSilently(Operation.REMOVE_ALL2, <<>>)
Query(kind) == QueryInternal(Operation[kind])
Invoke(k, arg) ==
    AsksFor(Operation.INVOKE, InCacheInvokeOperation(k, arg), Out1Operation)
InvokeJava(k, name, arg) ==
    AsksFor(Operation.INVOKE_JAVA, In3Operation(name, k, arg), Out1Operation)
LoadCache == AsksSilently(Operation.LOAD_CACHE, <<Absent, 0>>)
LocalLoadCache == AsksSilently(Operation.LOC_LOAD_CACHE, <<Absent, 0>>)

-----------------------------------------------------------------------------
(* Java's cache: what a code does to the content c with the stream s.      *)
With(c, k, v) == [c EXCEPT ![k] = v]
Without(c, ks) == [k \in Keys |-> IF k \in ks THEN Absent ELSE c[k]]
Loaded(c) == [k \in Keys |-> IF c[k] = Absent THEN Stored ELSE c[k]]
Count(c) == Cardinality({k \in Keys : c[k] # Absent})
Entries(c, ks) == {<<k, c[k]>> : k \in {x \in ks : c[x] # Absent}}

Told(c, yes) == [content |-> c, res |-> IF yes THEN 1 ELSE 0, stream |-> <<>>]
Given(c, v) == [content |-> c, res |-> IF v = Absent THEN 0 ELSE 1, stream |-> <<v>>]

KeysOf(s) == {s[i + 1] : i \in 1 .. s[1]}
Written(c, s) ==
    [k \in Keys |-> LET places == {i \in 1 .. s[1] : s[2 * i] = k} IN
                    IF places = {} THEN c[k] ELSE s[2 * Max(places) + 1]]
MapStream(c, ks) ==
    LET found == SetToSeq(Entries(c, ks)) IN
    [content |-> c, res |-> 1, stream |-> <<1, Len(found)>> \o FlattenSeq(found)]

Serve(code, s, c) ==
    CASE code = 1 \/ code = 20 -> Told(Without(c, {s[1]}), TRUE)
      [] code = 2 \/ code = 21 \/ code = 34 -> Told(Without(c, KeysOf(s)), TRUE)
      [] code = 3 -> Told(c, c[s[1]] # Absent)
      [] code = 4 -> Told(c, \A k \in KeysOf(s) : c[k] # Absent)
      [] code = 5 \/ code = 25 -> Given(c, c[s[1]])
      [] code = 6 -> MapStream(c, KeysOf(s))
      [] code = 7 -> Given(With(c, s[1], s[2]), c[s[1]])
      [] code = 8 -> Given(IF c[s[1]] = Absent THEN With(c, s[1], s[2]) ELSE c, c[s[1]])
      [] code = 9 -> Given(Without(c, {s[1]}), c[s[1]])
      [] code = 10 -> Given(IF c[s[1]] = Absent THEN c ELSE With(c, s[1], s[2]), c[s[1]])
      [] code = 12 -> Given(With(c, s[1], s[3]), c[s[1]])
      [] code = 98 -> Given(With(c, s[2], s[3]), c[s[2]])
      [] code = 15 \/ code = 17 -> Told(Loaded(c), TRUE)
      [] code = 16 -> Told(c, TRUE)
      [] code = 26 -> Told(With(c, s[1], s[2]), TRUE)
      [] code = 27 -> Told(Written(c, s), TRUE)
      [] code = 28 -> Told(IF c[s[1]] = Absent THEN With(c, s[1], s[2]) ELSE c, c[s[1]] = Absent)
      [] code \in 30 .. 33 -> Given(c, code)
      [] code = 35 -> Told(IF c[s[1]] = s[2] THEN Without(c, {s[1]}) ELSE c, c[s[1]] = s[2])
      [] code = 36 -> Told(Without(c, {s[1]}), c[s[1]] # Absent)
      [] code = 37 -> Told(IF c[s[1]] = Absent THEN c ELSE With(c, s[1], s[2]), c[s[1]] # Absent)
      [] code = 38 -> Told(IF c[s[1]] = s[2] THEN With(c, s[1], s[3]) ELSE c, c[s[1]] = s[2])
      [] code = 41 \/ code = 43 -> Told(Without(c, Keys), TRUE)
      [] code = 48 \/ code = 56 -> [content |-> c, res |-> Count(c), stream |-> <<>>]

-----------------------------------------------------------------------------
(* impl/interop/interop_target.cpp.  How a call can fail: a type's         *)
(* metadata is refused, and WriteTo sends nothing; Java throws; Java       *)
(* writes an error into the stream (AI_ERROR).  done: had Java done it?    *)
Faults(way) ==
    CASE way = "OutOp" -> {"none", "metadata", "java"}
      [] way = "OutInOpX" -> {"none", "metadata", "java", "answer"}
      [] OTHER -> {"none", "java"}

OutOp(ask, fault, served) == fault = "none" /\ served.res = 1

(* A call that throws returns 0, which is AI_NULL. *)
OutInOpX(ask, fault, served) ==
    CASE fault = "metadata" \/ fault = "answer" -> ask.out.unset
      [] fault = "java" \/ served.res = 0 -> ask.out.null
      [] OTHER -> ProcessOutput(ask.out, served.stream)

OutInOpLong(ask, fault, served) == IF fault = "none" THEN served.res ELSE 0

(* CacheImpl::QueryInternal: a cursor, or none. *)
CursorOf(ask, fault, served) == IF fault = "none" THEN served.stream[1] ELSE Absent

Answer(ask, fault, served) ==
    CASE ask.way = "OutOp" -> OutOp(ask, fault, served)
      [] ask.way = "OutInOpX" -> OutInOpX(ask, fault, served)
      [] ask.way = "OutInOpLong" -> OutInOpLong(ask, fault, served)
      [] ask.way = "query" -> CursorOf(ask, fault, served)
      [] OTHER -> TRUE

(* Cache::IsEmpty *)
IsEmpty(size) == size = 0

Perform(name, args, ask) ==
    \E fault \in Faults(ask.way), done \in BOOLEAN :
        LET served == Serve(ask.code, ask.in, content)
            answer == Answer(ask, fault, served)
        IN  /\ last = NoCall
            /\ fault = "none" => done
            /\ fault = "metadata" => ~done
            /\ content' = IF done THEN served.content ELSE content
            /\ last' = [name |-> name, args |-> args, before |-> content, fault |-> fault,
                        result |-> IF name = "IsEmpty" THEN IsEmpty(answer) ELSE answer,
                        told |-> fault # "none" /\ ask.way # "silent"]

-----------------------------------------------------------------------------
Modes == 1  \* CachePeekMode::ALL
KeyRuns == [1 .. 2 -> {<<k>> : k \in Keys}]
EntryRuns == [1 .. 2 -> Keys \X Values]
Maps == UNION {[ks -> Values] : ks \in SUBSET Keys}

OfKey(k) ==
    \/ Perform("ContainsKey", <<k>>, ContainsKey(k))
    \/ Perform("LocalPeek", <<k>>, LocalPeek(k, Modes))
    \/ Perform("Get", <<k>>, Get(k))
    \/ Perform("GetAndRemove", <<k>>, GetAndRemove(k))
    \/ Perform("ClearKey", <<k>>, ClearKey(k))
    \/ Perform("LocalClear", <<k>>, LocalClear(k))
    \/ Perform("RemoveKey", <<k>>, RemoveKey(k))

OfEntry(k, v) ==
    \/ Perform("Put", <<k, v>>, Put(k, v))
    \/ Perform("GetAndPut", <<k, v>>, GetAndPut(k, v))
    \/ Perform("GetAndReplace", <<k, v>>, GetAndReplace(k, v))
    \/ Perform("PutIfAbsent", <<k, v>>, PutIfAbsent(k, v))
    \/ Perform("GetAndPutIfAbsent", <<k, v>>, GetAndPutIfAbsent(k, v))
    \/ Perform("Replace", <<k, v>>, Replace(k, v))
    \/ Perform("RemoveIfEqual", <<k, v>>, RemoveIfEqual(k, v))
    \/ Perform("Invoke", <<k, v>>, Invoke(k, v))
    \/ Perform("InvokeJava", <<k, v>>, InvokeJava(k, 0, v))
    \/ \E w \in Values : Perform("ReplaceIfEqual", <<k, v, w>>, ReplaceIfEqual(k, v, w))

OfKeys(ks) ==
    \/ Perform("ContainsKeys", <<ks>>, ContainsKeys(ks))
    \/ Perform("GetAll", <<ks>>, GetAll(ks))
    \/ Perform("LocalEvict", <<ks>>, LocalEvict(ks))
    \/ Perform("ClearAll", <<ks>>, ClearAll(ks))
    \/ Perform("LocalClearAll", <<ks>>, LocalClearAll(ks))
    \/ Perform("RemoveAllKeys", <<ks>>, RemoveAllKeys(ks))

OfWhole ==
    \/ Perform("IsEmpty", <<>>, SizeOf(Modes, FALSE))
    \/ \E local \in BOOLEAN : Perform("Size", <<>>, SizeOf(Modes, local))
    \/ Perform("Clear", <<>>, Clear)
    \/ Perform("RemoveAll", <<>>, RemoveAll)
    \/ Perform("LoadCache", <<>>, LoadCache)
    \/ Perform("LocalLoadCache", <<>>, LocalLoadCache)
    \/ \E kind \in {"QRY_SQL", "QRY_TEXT", "QRY_SCAN", "QRY_SQL_FIELDS"} :
          Perform("Query", <<kind>>, Query(kind))

(* The application has seen what came of a call. *)
Seen == last # NoCall /\ last' = NoCall /\ UNCHANGED content

CacheNext ==
    \/ Seen
    \/ \E k \in Keys : OfKey(k)
    \/ \E k \in Keys, v \in Values : OfEntry(k, v)
    \/ \E ks \in SUBSET Keys : OfKeys(ks)
    \/ \E run \in KeyRuns : Perform("GetAllOf", <<run>>, GetAllOf(run))
    \/ \E m \in Maps : Perform("PutAll", <<m>>, PutAll(m))
    \/ \E run \in EntryRuns : Perform("PutAllOf", <<run>>, PutAllOf(run))
    \/ OfWhole

CacheSpec == CacheInit /\ [][CacheNext]_cacheVars

-----------------------------------------------------------------------------
(* What an operation is for, by its name: the content after it, and what   *)
(* the application is told.                                                *)
Does(c, result) == [content |-> c, result |-> result]

OldValue(c, k, becomes) == Does(becomes, c[k])

Promise(name, a, c) ==
    LET here == c[a[1]] # Absent
        put == With(c, a[1], a[2])
        gone == Without(c, {a[1]})
    IN  CASE name = "ContainsKey" -> Does(c, here)
          [] name \in {"LocalPeek", "Get"} -> OldValue(c, a[1], c)
          [] name = "GetAndRemove" -> OldValue(c, a[1], gone)
          [] name \in {"ClearKey", "LocalClear"} -> Does(gone, TRUE)
          [] name = "RemoveKey" -> Does(gone, here)
          [] name = "Put" -> Does(put, TRUE)
          [] name \in {"GetAndPut", "Invoke", "InvokeJava"} -> OldValue(c, a[1], put)
          [] name = "GetAndReplace" -> OldValue(c, a[1], IF here THEN put ELSE c)
          [] name = "GetAndPutIfAbsent" -> OldValue(c, a[1], IF here THEN c ELSE put)
          [] name = "PutIfAbsent" -> Does(IF here THEN c ELSE put, ~here)
          [] name = "Replace" -> Does(IF here THEN put ELSE c, here)
          [] name = "RemoveIfEqual" -> Does(IF c[a[1]] = a[2] THEN gone ELSE c, c[a[1]] = a[2])
          [] name = "ReplaceIfEqual" ->
                Does(IF c[a[1]] = a[2] THEN With(c, a[1], a[3]) ELSE c, c[a[1]] = a[2])
          [] name = "ContainsKeys" -> Does(c, \A k \in a[1] : c[k] # Absent)
          [] name = "GetAll" -> Does(c, Entries(c, a[1]))
          [] name = "GetAllOf" -> Does(c, Entries(c, {a[1][1][1], a[1][2][1]}))
          [] name = "LocalEvict" -> Does(c, TRUE)
          [] name \in {"ClearAll", "LocalClearAll", "RemoveAllKeys"} -> Does(Without(c, a[1]), TRUE)
          [] name = "PutAll" ->
                Does([k \in Keys |-> IF k \in DOMAIN a[1] THEN a[1][k] ELSE c[k]], TRUE)
          [] name = "PutAllOf" ->
                Does(With(With(c, a[1][1][1], a[1][1][2]), a[1][2][1], a[1][2][2]), TRUE)
          [] name = "IsEmpty" -> Does(c, \A k \in Keys : c[k] = Absent)
          [] name = "Size" -> Does(c, Count(c))
          [] name \in {"Clear", "RemoveAll"} -> Does(Without(c, Keys), TRUE)
          [] name \in {"LoadCache", "LocalLoadCache"} -> Does(Loaded(c), TRUE)
          [] name = "Query" ->
                Does(c, CASE a[1] = "QRY_SCAN" -> 30 [] a[1] = "QRY_SQL" -> 31
                          [] a[1] = "QRY_SQL_FIELDS" -> 32 [] a[1] = "QRY_TEXT" -> 33)

(* The operations that lose Java's error. *)
Silent == {"Clear", "RemoveAll", "LoadCache", "LocalLoadCache"}

(* Cache and CacheImpl: a call that comes back without an error has done   *)
(* to Java's cache what its name says and returns what it promises; a call *)
(* that failed tells so, but for the four that lose the error, and has     *)
(* done what its name says or nothing.                                     *)
CacheDoesAsAsked ==
    last.name # "none" =>
        LET promise == Promise(last.name, last.args, last.before) IN
        /\ last.fault = "none" =>
              ~last.told /\ content = promise.content /\ last.result = promise.result
        /\ last.fault # "none" =>
              /\ last.told \/ last.name \in Silent
              /\ content \in {last.before, promise.content}
=============================================================================
