---------------------------- MODULE TypeManager -----------------------------
(***************************************************************************)
(* The metadata of binary types in the client library                      *)
(* (src/impl/binary/binary_type_manager.cpp, _handler, _snapshot and       *)
(* _updater_impl) and the operations that use it                           *)
(* (src/impl/interop/interop_target.cpp).  A thread that sends objects to  *)
(* Java reads the version of the metadata, writes its objects, each with a *)
(* handler that notes the fields its type did not have, submits the        *)
(* handlers, and before the data goes to Java has the pending updates sent *)
(* if there were any since it read the version.                            *)
(*                                                                         *)
(* Snapshots are shared by pointer: heap holds them, a pointer is an index *)
(* of heap and Nil is the empty one.  What is done under the critical      *)
(* section cs is one step, but for the loop of ProcessPendingUpdates,      *)
(* which calls Java for every entry and keeps cs throughout; what is read  *)
(* outside cs is a step of its own.  A null pointer that is dereferenced   *)
(* crashes the process.                                                    *)
(***************************************************************************)
EXTENDS Integers, Sequences, FiniteSets

CONSTANTS
    Senders,        \* threads of the application
    Types,          \* ids of binary types
    Fields,         \* ids of fields
    MaxUpdates,     \* bound: updates submitted
    MaxObjects      \* bound: objects one operation writes

ASSUME TypesAreIds == MaxUpdates \in Nat /\ MaxObjects \in Nat

VARIABLES
    heap,           \* the snapshots made: [type, fields]
    snapshots,      \* BinaryTypeManager::snapshots: type -> pointer
    pending,        \* BinaryTypeManager::pending
    updater,        \* whether SetUpdater has been called
    pendingVer, version,
    server,         \* what Java knows: type -> fields, the types it was told of
    tpc, metaVer,   \* per thread: where it is, and the version it read
    hnd,            \* per thread: its BinaryTypeHandler, and the fields written with it
    entry,          \* the loop of ProcessPendingUpdates: the next entry
    objects,        \* per thread: the objects of its operation, [type, fields]
    submitted,      \* the updates submitted (history)
    sent,           \* the objects last handed to Java (history)
    refused         \* whether Java refused an update or did not know a type (history)

tmVars == <<heap, snapshots, pending, updater, pendingVer, version, server, tpc, metaVer,
            hnd, entry, objects, submitted, sent, refused>>

Nil == 0

(* The origin of a handler that is a new snapshot, which has no field. *)
New == -1

Handler(type, origin) ==
    [type |-> type, origin |-> origin, updated |-> Nil, written |-> {}]

TMInit ==
    /\ heap = <<>>
    /\ snapshots = <<>>
    /\ pending = <<>>
    /\ updater = FALSE
    /\ pendingVer = 0 /\ version = 0
    /\ server \in UNION {[known -> SUBSET Fields] : known \in SUBSET Types}
    /\ tpc = [t \in Senders |-> "idle"]
    /\ metaVer = [t \in Senders |-> 0]
    /\ hnd = [t \in Senders |-> Handler(Nil, Nil)]
    /\ entry = 0
    /\ objects = [t \in Senders |-> {}]
    /\ submitted = {} /\ sent = {} /\ refused = FALSE

Running == \A t \in Senders : tpc[t] # "crashed"

(* cs is held from one step to the next only by the loop. *)
Locked == \E t \in Senders : tpc[t] = "loop"

With(f, k, v) == [x \in DOMAIN f \cup {k} |-> IF x = k THEN v ELSE f[x]]

(* IgniteEnvironment::Initialize: the updater is there from now on. *)
SetUpdater ==
    /\ Running /\ ~Locked /\ ~updater
    /\ updater' = TRUE
    /\ UNCHANGED <<heap, snapshots, pending, pendingVer, version, server, tpc, metaVer, hnd,
                   entry, objects, submitted, sent, refused>>

(* Mutant: the version of the updates that are still pending. *)
GetVersionPending == pendingVer

GetVersion == version

(* InteropTarget::WriteTo up to ProcessInput. *)
WriteTo(t) ==
    /\ Running /\ tpc[t] = "idle"
    /\ metaVer' = [metaVer EXCEPT ![t] = GetVersion]
    /\ tpc' = [tpc EXCEPT ![t] = "writing"]
    /\ objects' = [objects EXCEPT ![t] = {}]
    /\ UNCHANGED <<heap, snapshots, pending, updater, pendingVer, version, server, hnd, entry,
                   submitted, sent, refused>>

(* The entries of pending that a loop looking for the type stops at: those *)
(* of the type, and the empty ones, which it dereferences.                 *)
Stops(type) ==
    {i \in DOMAIN pending : pending[i] = Nil \/ heap[pending[i]].type = type}

FirstStop(type, i) == i \in Stops(type) /\ \A j \in Stops(type) : i <= j

Crash(t) ==
    /\ tpc' = [tpc EXCEPT ![t] = "crashed"]
    /\ UNCHANGED <<heap, snapshots, pending, updater, pendingVer, version, server, metaVer,
                   hnd, entry, objects, submitted, sent, refused>>

StartObject(t, type, origin) ==
    /\ hnd' = [hnd EXCEPT ![t] = Handler(type, origin)]
    /\ tpc' = [tpc EXCEPT ![t] = "object"]
    /\ UNCHANGED <<heap, snapshots, pending, updater, pendingVer, version, server, metaVer,
                   entry, objects, submitted, sent, refused>>

(* BinaryWriterImpl::WriteTopObject0 starts an object of the type:         *)
(* BinaryTypeManager::GetHandler.                                          *)
GetHandler(t, type) ==
    /\ Running /\ ~Locked /\ tpc[t] = "writing" /\ Cardinality(objects[t]) < MaxObjects
    /\ \/ type \in DOMAIN snapshots /\ StartObject(t, type, snapshots[type])
       \/ type \notin DOMAIN snapshots /\ Stops(type) = {} /\ StartObject(t, type, New)
       \/ /\ type \notin DOMAIN snapshots
          /\ \E i \in Stops(type) :
                /\ FirstStop(type, i)
                /\ IF pending[i] = Nil THEN Crash(t) ELSE StartObject(t, type, pending[i])

(* BinaryTypeHandler::OnFieldWritten: a field the origin does not have is  *)
(* added to a copy of it.                                                  *)
OnFieldWritten(t, f) ==
    /\ Running /\ tpc[t] = "object" /\ f \notin hnd[t].written
    /\ LET h == hnd[t]
           old == IF h.origin > Nil THEN heap[h.origin].fields ELSE {}
           Rest == UNCHANGED <<snapshots, pending, updater, pendingVer, version, server, tpc,
                               metaVer, entry, objects, submitted, sent, refused>>
       IN \/ /\ f \in old
             /\ hnd' = [hnd EXCEPT ![t] = [h EXCEPT !.written = @ \cup {f}]]
             /\ Rest /\ UNCHANGED heap
          \/ /\ f \notin old /\ h.updated # Nil
             /\ heap' = [heap EXCEPT ![h.updated].fields = @ \cup {f}]
             /\ hnd' = [hnd EXCEPT ![t] = [h EXCEPT !.written = @ \cup {f}]]
             /\ Rest
          \/ h.updated = Nil /\ h.origin = Nil /\ Crash(t)
          \/ /\ f \notin old /\ h.updated = Nil /\ h.origin # Nil
             /\ heap' = Append(heap, [type |-> h.type, fields |-> old \cup {f}])
             /\ hnd' = [hnd EXCEPT ![t] = [h EXCEPT !.updated = Len(heap) + 1,
                                                    !.written = @ \cup {f}]]
             /\ Rest

(* The object is written; its handler goes. *)
EndObject(t) ==
    /\ objects' = [objects EXCEPT ![t] = @ \cup {[type |-> hnd[t].type, fields |-> hnd[t].written]}]
    /\ hnd' = [hnd EXCEPT ![t] = Handler(Nil, Nil)]
    /\ tpc' = [tpc EXCEPT ![t] = "writing"]
    /\ UNCHANGED <<heap, snapshots, updater, version, server, metaVer, entry, sent, refused>>

(* BinaryTypeManager::SubmitHandler, at the end of the object. *)
SubmitHandler(t) ==
    /\ Running /\ tpc[t] = "object"
    /\ \/ /\ hnd[t].updated = Nil
          /\ UNCHANGED <<pending, pendingVer, submitted>>
       \/ /\ hnd[t].updated # Nil /\ ~Locked /\ pendingVer < MaxUpdates
          /\ pending' = Append(pending, hnd[t].updated)
          /\ pendingVer' = pendingVer + 1
          /\ submitted' = submitted \cup {heap[hnd[t].updated]}
    /\ EndObject(t)

IsUpdatedSince(oldVer) == pendingVer > oldVer

(* InteropTarget::WriteTo after ProcessInput. *)
Written(t) ==
    /\ Running /\ tpc[t] = "writing"
    /\ tpc' = [tpc EXCEPT ![t] = IF IsUpdatedSince(metaVer[t]) THEN "process" ELSE "send"]
    /\ metaVer' = [metaVer EXCEPT ![t] = 0]
    /\ UNCHANGED <<heap, snapshots, pending, updater, pendingVer, version, server, hnd, entry,
                   objects, submitted, sent, refused>>

-----------------------------------------------------------------------------
(* The operation ends with an error. *)
Fail(t) ==
    /\ tpc' = [tpc EXCEPT ![t] = "idle"]
    /\ objects' = [objects EXCEPT ![t] = {}]

(* BinaryTypeManager::ProcessPendingUpdates takes cs; it needs an updater. *)
ProcessPendingUpdates(t) ==
    /\ Running /\ ~Locked /\ tpc[t] = "process"
    /\ IF updater
       THEN tpc' = [tpc EXCEPT ![t] = "loop"] /\ entry' = 1 /\ UNCHANGED objects
       ELSE Fail(t) /\ UNCHANGED entry
    /\ UNCHANGED <<heap, snapshots, pending, updater, pendingVer, version, server, metaVer, hnd,
                   submitted, sent, refused>>

InLoop(t) == Running /\ tpc[t] = "loop" /\ entry <= Len(pending)

(* "Snapshot has been processed already." *)
SkipEntry(t) ==
    /\ InLoop(t) /\ pending[entry] = Nil
    /\ entry' = entry + 1
    /\ UNCHANGED <<heap, snapshots, pending, updater, pendingVer, version, server, tpc, metaVer,
                   hnd, objects, submitted, sent, refused>>

(* "Stop as we cannot move further." *)
RefuseEntry(t) ==
    /\ InLoop(t) /\ pending[entry] # Nil
    /\ Fail(t) /\ refused' = TRUE /\ entry' = 0
    /\ UNCHANGED <<heap, snapshots, pending, updater, pendingVer, version, server, metaVer, hnd,
                   submitted, sent>>

(* BinaryTypeUpdaterImpl::Update, accepted by Java: the type and its       *)
(* fields are added to what it knows.                                      *)
Update(snap) ==
    server' = With(server, snap.type,
                   snap.fields \cup (IF snap.type \in DOMAIN server THEN server[snap.type] ELSE {}))

(* One turn of the loop for an update that Java accepted: the first        *)
(* snapshot of a type is kept by both, a later one takes the old fields    *)
(* and the place of the old one, and leaves an empty entry behind.         *)
AcceptEntry(t) ==
    /\ InLoop(t) /\ pending[entry] # Nil
    /\ LET p == pending[entry]
           type == heap[p].type
           old == IF snapshots[type] = Nil THEN {} ELSE heap[snapshots[type]].fields
       IN /\ Update(heap[p])
          /\ snapshots' = With(snapshots, type, p)
          /\ IF type \notin DOMAIN snapshots
             THEN UNCHANGED <<heap, pending>>
             ELSE /\ heap' = [heap EXCEPT ![p].fields = @ \cup old]
                  /\ pending' = [pending EXCEPT ![entry] = Nil]
    /\ entry' = entry + 1
    /\ UNCHANGED <<updater, pendingVer, version, tpc, metaVer, hnd, objects, submitted, sent,
                   refused>>

(* All entries are processed. *)
EndLoop(t) ==
    /\ Running /\ tpc[t] = "loop" /\ entry > Len(pending)
    /\ pending' = <<>> /\ version' = pendingVer /\ entry' = 0
    /\ tpc' = [tpc EXCEPT ![t] = "send"]
    /\ UNCHANGED <<heap, snapshots, updater, pendingVer, server, metaVer, hnd, objects, submitted,
                   sent, refused>>

(* InteropTarget::OutOp, OutInOp, OutInOpX, InStreamOutLong: the memory is *)
(* handed to Java, whatever it answers.                                    *)
Send(t) ==
    /\ Running /\ tpc[t] = "send"
    /\ sent' = objects[t]
    /\ objects' = [objects EXCEPT ![t] = {}]
    /\ tpc' = [tpc EXCEPT ![t] = "idle"]
    /\ UNCHANGED <<heap, snapshots, pending, updater, pendingVer, version, server, metaVer, hnd,
                   entry, submitted, refused>>

(* BinaryTypeManager::GetMeta, by BinaryObjectImpl::CheckIdResolver: what  *)
(* Java answers is cached, and so is that it does not know the type.       *)
GetMeta(t, type) ==
    /\ Running /\ ~Locked /\ tpc[t] = "idle"
    /\ ~(type \in DOMAIN snapshots /\ snapshots[type] # Nil)
    /\ \/ \E i \in Stops(type) : FirstStop(type, i) /\ pending[i] = Nil /\ Crash(t)
       \/ /\ Stops(type) = {} /\ updater /\ type \notin DOMAIN snapshots
          /\ \/ /\ type \in DOMAIN server
                /\ heap' = Append(heap, [type |-> type, fields |-> server[type]])
                /\ snapshots' = With(snapshots, type, Len(heap) + 1)
                /\ UNCHANGED refused
             \/ /\ type \notin DOMAIN server
                /\ snapshots' = With(snapshots, type, Nil) /\ refused' = TRUE
                /\ UNCHANGED heap
          /\ UNCHANGED <<pending, updater, pendingVer, version, server, tpc, metaVer, hnd, entry,
                         objects, submitted, sent>>

TMNext ==
    \/ SetUpdater
    \/ \E t \in Senders :
          \/ WriteTo(t) \/ SubmitHandler(t) \/ Written(t) \/ ProcessPendingUpdates(t)
          \/ SkipEntry(t) \/ RefuseEntry(t) \/ AcceptEntry(t) \/ EndLoop(t) \/ Send(t)
          \/ \E type \in Types : GetHandler(t, type) \/ GetMeta(t, type)
          \/ \E f \in Fields : OnFieldWritten(t, f)

TMSpec == TMInit /\ [][TMNext]_tmVars

-----------------------------------------------------------------------------
Snapshots == [type : Types, fields : SUBSET Fields]

TMTypeOK ==
    /\ heap \in Seq(Snapshots)
    /\ DOMAIN snapshots \subseteq Types /\ DOMAIN server \subseteq Types
    /\ \A type \in DOMAIN snapshots : snapshots[type] \in 0 .. Len(heap)
    /\ pending \in Seq(0 .. Len(heap))
    /\ version \in 0 .. pendingVer /\ pendingVer \in 0 .. MaxUpdates
    /\ tpc \in [Senders -> {"idle", "writing", "object", "process", "loop", "send", "crashed"}]

(* What Java was told of. *)
Told(o) == o.type \in DOMAIN server /\ o.fields \subseteq server[o.type]

(* InteropTarget::WriteTo sends the metadata before the data: Java has     *)
(* been told of every field of every object that is handed to it,          *)
(* whichever thread submitted the update, and whether updates were refused *)
(* before.                                                                 *)
MetadataBeforeData == \A o \in sent : o.fields # {} => Told(o)

(* No update is lost: what SubmitHandler queued stays queued until Java    *)
(* was told, and the snapshots that handlers start from hold nothing that  *)
(* Java was not told.                                                      *)
NoUpdateIsLost ==
    /\ \A u \in submitted :
          \/ Told(u)
          \/ \E i \in DOMAIN pending :
                /\ pending[i] # Nil
                /\ heap[pending[i]].type = u.type /\ u.fields \subseteq heap[pending[i]].fields
    /\ \A type \in DOMAIN snapshots : snapshots[type] # Nil =>
          heap[snapshots[type]].type = type /\ Told(heap[snapshots[type]])
    /\ version = pendingVer => pending = <<>>

(* GetHandler, GetMeta and OnFieldWritten dereference an empty pointer     *)
(* only after Java refused an update, which may leave one in pending, or   *)
(* did not know a type, which GetMeta caches as one.                       *)
CrashNeedsARefusal == refused \/ Running

(* InteropTarget and BinaryTypeManager: all of these. *)
MetadataIsKept == TMTypeOK /\ MetadataBeforeData /\ NoUpdateIsLost /\ CrashNeedsARefusal
=============================================================================
