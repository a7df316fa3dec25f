----------------------------- MODULE TypeProofs -----------------------------
(***************************************************************************)
(* Proofs about the metadata of binary types, for any threads, types and   *)
(* fields, any answers of Java and any number of objects.  MetadataIsKept  *)
(* says what the data that was sent and the updates that were submitted    *)
(* rest on; to be inductive it needs where a field is on its way from a    *)
(* handler to Java: in the handler's own update, which nobody else points  *)
(* at; in an entry of pending; and known to Java once its thread may send. *)
(***************************************************************************)
EXTENDS TypeManager, TLAPS

(* The field of the type is known to Java, or on its way: in an entry of   *)
(* pending.                                                                *)
Knows(type, f) == type \in DOMAIN server /\ f \in server[type]
Holds(p, type, f) == p # Nil /\ heap[p].type = type /\ f \in heap[p].fields
Kept(type, f) == Knows(type, f) \/ \E i \in DOMAIN pending : Holds(pending[i], type, f)

TMTypes ==
    /\ TMTypeOK
    /\ updater \in BOOLEAN /\ refused \in BOOLEAN
    /\ \A type \in DOMAIN server : server[type] \subseteq Fields
    /\ metaVer \in [Senders -> Nat] /\ entry \in Nat
    /\ hnd \in [Senders -> [type : Types \cup {Nil}, origin : Int, updated : Nat,
                            written : SUBSET Fields]]
    /\ \A t \in Senders : hnd[t].origin \in -1 .. Len(heap) /\ hnd[t].updated \in 0 .. Len(heap)
    /\ objects \in [Senders -> SUBSET Snapshots]
    /\ submitted \subseteq Snapshots /\ sent \subseteq Snapshots

(* A handler's origin holds only fields that are kept, and the fields      *)
(* written are kept or in its update, which nobody else points at.         *)
HandlerKeeps(t) ==
    /\ hnd[t].type \in Types
    /\ hnd[t].origin > Nil =>
          /\ heap[hnd[t].origin].type = hnd[t].type
          /\ \A f \in heap[hnd[t].origin].fields : Kept(hnd[t].type, f)
    /\ hnd[t].updated # Nil => heap[hnd[t].updated].type = hnd[t].type
    /\ \A f \in hnd[t].written : Kept(hnd[t].type, f) \/ Holds(hnd[t].updated, hnd[t].type, f)

Private(t) ==
    hnd[t].updated # Nil =>
        /\ \A type \in DOMAIN snapshots : snapshots[type] # hnd[t].updated
        /\ \A i \in DOMAIN pending : pending[i] # hnd[t].updated
        /\ \A s \in Senders : hnd[s].origin # hnd[t].updated
        /\ \A s \in Senders : s # t => hnd[s].updated # hnd[t].updated

Handlers ==
    \A t \in Senders :
        /\ tpc[t] = "object" => HandlerKeeps(t)
        /\ tpc[t] # "object" => tpc[t] = "crashed" \/ hnd[t] = Handler(Nil, Nil)
        /\ Private(t)

(* The objects of an operation: before they are sent, Java knows them. *)
ObjectsKept ==
    \A t \in Senders : \A o \in objects[t] : \A f \in o.fields :
        IF tpc[t] = "send" THEN Knows(o.type, f) ELSE Kept(o.type, f)

VersionsRead == \A t \in Senders : tpc[t] \in {"writing", "object"} => metaVer[t] <= version

(* The loop has sent what it passed. *)
LoopSends ==
    \A t \in Senders : tpc[t] = "loop" =>
        /\ entry \in 1 .. Len(pending) + 1
        /\ \A j \in 1 .. entry - 1 : pending[j] = Nil \/ Told(heap[pending[j]])
        /\ \A s \in Senders : tpc[s] = "loop" => s = t

(* Without a refusal there is an empty pointer only where the loop passed. *)
NoEmptyPointer ==
    ~refused =>
        /\ Running
        /\ \A type \in DOMAIN snapshots : snapshots[type] # Nil
        /\ \A t \in Senders : tpc[t] = "object" => hnd[t].origin # Nil
        /\ \A j \in DOMAIN pending : pending[j] = Nil => Locked /\ j < entry

TMInv ==
    /\ TMTypes /\ MetadataBeforeData /\ NoUpdateIsLost /\ Handlers /\ ObjectsKept /\ VersionsRead
    /\ LoopSends /\ NoEmptyPointer

(* What a step may do to the snapshots, to what Java knows and to the      *)
(* queue: nothing is taken away but entries of pending that Java knows,    *)
(* and what is added to a snapshot that others point at, Java knows.       *)
Grows ==
    /\ Len(heap) \in Nat /\ Len(heap') \in Nat /\ Len(heap) <= Len(heap')
    /\ \A p \in 1 .. Len(heap) :
          /\ heap'[p].type = heap[p].type /\ heap[p].fields \subseteq heap'[p].fields
          /\ \A f \in heap'[p].fields :
                \/ f \in heap[p].fields \/ Knows(heap[p].type, f)'
                \/ \E t \in Senders : p = hnd[t].updated
    /\ \A type \in DOMAIN server : type \in DOMAIN server' /\ server[type] \subseteq server'[type]
    /\ \A i \in DOMAIN pending : pending[i] # Nil =>
          \/ \E j \in DOMAIN pending' : pending'[j] = pending[i]
          \/ /\ heap'[pending[i]].type \in DOMAIN server'
             /\ heap'[pending[i]].fields \subseteq server'[heap'[pending[i]].type]

USE TypesAreIds DEF Nil

(* The pointers of the queue and of the snapshots lead to snapshots. *)
LEMMA TypesMean ==
    ASSUME TMTypes
    PROVE  /\ Len(heap) \in Nat /\ DOMAIN heap = 1 .. Len(heap)
           /\ \A p \in 1 .. Len(heap) : heap[p] \in Snapshots /\ heap[p].type \in Types
                                        /\ heap[p].fields \subseteq Fields
           /\ Len(pending) \in Nat /\ DOMAIN pending = 1 .. Len(pending)
           /\ \A i \in 1 .. Len(pending) : pending[i] \in 0 .. Len(heap)
           /\ \A i \in 1 .. Len(pending) : pending[i] # Nil => pending[i] \in 1 .. Len(heap)
<1>1. heap \in Seq(Snapshots) /\ pending \in Seq(0 .. Len(heap))
  BY Zenon DEF TMTypes, TMTypeOK
<1>2. Len(heap) \in Nat /\ DOMAIN heap = 1 .. Len(heap) /\ \A p \in 1 .. Len(heap) : heap[p] \in Snapshots
  BY <1>1, SMTT(30)
<1>3. \A p \in 1 .. Len(heap) : heap[p].type \in Types /\ heap[p].fields \subseteq Fields
  BY <1>2, Zenon DEF Snapshots
<1>4. /\ Len(pending) \in Nat /\ DOMAIN pending = 1 .. Len(pending)
      /\ \A i \in 1 .. Len(pending) : pending[i] \in 0 .. Len(heap)
  BY <1>1, SMTT(30)
<1>q. QED
  BY <1>2, <1>3, <1>4, SMTT(30)

(* A step that leaves the snapshots, Java and the queue adds nothing. *)
LEMMA NothingGrows ==
    ASSUME TMTypes, UNCHANGED <<heap, server, pending>>
    PROVE  Grows
BY TypesMean, SMTT(30) DEF Grows

(* A field that is kept stays kept. *)
LEMMA KeptStays ==
    ASSUME TMTypes, Grows, NEW type, NEW f, Kept(type, f)
    PROVE  Kept(type, f)'
<1>1. CASE Knows(type, f)
  BY <1>1, Zenon DEF Grows, Knows, Kept
<1>2. ASSUME NEW i \in DOMAIN pending, Holds(pending[i], type, f)
      PROVE  Kept(type, f)'
  <2>1. /\ pending[i] # Nil /\ pending[i] \in 1 .. Len(heap) /\ heap[pending[i]].type = type
        /\ f \in heap[pending[i]].fields
    BY <1>2, TypesMean, Zenon DEF Holds
  <2>2. heap'[pending[i]].type = type /\ f \in heap'[pending[i]].fields
    BY <2>1, Zenon DEF Grows
  <2>3. ASSUME NEW j \in DOMAIN pending', pending'[j] = pending[i]
        PROVE  Kept(type, f)'
    <3>1. /\ pending'[j] # Nil /\ heap'[pending'[j]].type = type
          /\ f \in heap'[pending'[j]].fields
      BY <2>1, <2>2, <2>3, Zenon
    <3>q. QED
      BY <2>3, <3>1, Zenon DEF Kept, Holds
  <2>4. CASE /\ heap'[pending[i]].type \in DOMAIN server'
             /\ heap'[pending[i]].fields \subseteq server'[heap'[pending[i]].type]
    BY <2>2, <2>4, Zenon DEF Kept, Knows
  <2>q. QED
    BY <1>2, <2>1, <2>3, <2>4, Zenon DEF Grows
<1>q. QED
  BY <1>1, <1>2, Zenon DEF Kept

(* So does what a handler holds, when the step is not its own. *)
LEMMA HandlerStays ==
    ASSUME TMInv, Grows, NEW t \in Senders, HandlerKeeps(t), hnd'[t] = hnd[t]
    PROVE  HandlerKeeps(t)'
<1>0. TMTypes /\ hnd[t].origin \in -1 .. Len(heap) /\ hnd[t].updated \in 0 .. Len(heap) /\ Len(heap) \in Nat
  BY TypesMean, Zenon DEF TMInv, TMTypes
<1>1. hnd'[t].type \in Types
  BY Zenon DEF HandlerKeeps
<1>2. ASSUME hnd[t].origin > Nil
      PROVE  /\ heap'[hnd[t].origin].type = hnd[t].type
             /\ \A f \in heap'[hnd[t].origin].fields : Kept(hnd[t].type, f)'
  <2>1. hnd[t].origin \in 1 .. Len(heap) /\ heap[hnd[t].origin].type = hnd[t].type
    BY <1>0, <1>2, SMTT(30) DEF HandlerKeeps
  <2>a. heap'[hnd[t].origin].type = hnd[t].type
    BY <2>1, Zenon DEF Grows
  <2>2. ASSUME NEW s \in Senders
        PROVE  hnd[t].origin # hnd[s].updated
    BY <1>0, <1>2, SMTT(30) DEF TMInv, Handlers, Private
  <2>3. ASSUME NEW f \in heap'[hnd[t].origin].fields
        PROVE  Kept(hnd[t].type, f)'
    <3>1. CASE f \in heap[hnd[t].origin].fields
      BY <1>0, <1>2, <3>1, KeptStays, Zenon DEF HandlerKeeps
    <3>2. CASE Knows(heap[hnd[t].origin].type, f)'
      BY <2>a, <3>2, Zenon DEF Kept, Knows
    <3>q. QED
      BY <2>1, <2>2, <3>1, <3>2, Zenon DEF Grows
  <2>q. QED
    BY <2>a, <2>3, Zenon
<1>3. hnd[t].updated # Nil => heap'[hnd[t].updated].type = hnd[t].type
  BY <1>0, SMTT(30) DEF HandlerKeeps, Grows
<1>4. ASSUME NEW f \in hnd[t].written
      PROVE  Kept(hnd[t].type, f)' \/ Holds(hnd[t].updated, hnd[t].type, f)'
  <2>1. CASE Kept(hnd[t].type, f)
    BY <1>0, <2>1, KeptStays, Zenon
  <2>2. CASE Holds(hnd[t].updated, hnd[t].type, f)
    <3>1. hnd[t].updated \in 1 .. Len(heap)
      BY <1>0, <2>2, SMTT(30) DEF Holds
    <3>2. heap'[hnd[t].updated].type = hnd[t].type /\ f \in heap'[hnd[t].updated].fields
      <4>1. \A p \in 1 .. Len(heap) :
               heap'[p].type = heap[p].type /\ heap[p].fields \subseteq heap'[p].fields
        BY Zenon DEF Grows
      <4>q. QED
        BY <2>2, <3>1, <4>1, Zenon DEF Holds
    <3>q. QED
      BY <2>2, <3>2, Zenon DEF Holds
  <2>q. QED
    BY <1>4, <2>1, <2>2, Zenon DEF HandlerKeeps
<1>q. QED
  BY <1>1, <1>2, <1>3, <1>4, Zenon DEF HandlerKeeps

(* A step of one thread that leaves the snapshots, the queue and Java as   *)
(* they are: what remains to be shown is about that thread.                *)
LEMMA QuietStep ==
    ASSUME TMInv, NEW t \in Senders,
           UNCHANGED <<heap, snapshots, pending, pendingVer, version, server, submitted>>,
           \A s \in Senders \ {t} : /\ tpc'[s] = tpc[s] /\ hnd'[s] = hnd[s]
                                    /\ objects'[s] = objects[s] /\ metaVer'[s] = metaVer[s],
           tpc'[t] = "object" => HandlerKeeps(t)',
           tpc'[t] # "object" => tpc'[t] = "crashed" \/ hnd'[t] = Handler(Nil, Nil),
           hnd'[t].updated \in {hnd[t].updated, Nil},
           \/ hnd'[t].origin = hnd[t].origin \/ hnd'[t].origin \in {Nil, New}
           \/ \E type \in DOMAIN snapshots : hnd'[t].origin = snapshots[type]
           \/ \E i \in DOMAIN pending : hnd'[t].origin = pending[i],
           \A o \in objects'[t] : \A f \in o.fields :
              IF tpc'[t] = "send" THEN Knows(o.type, f) ELSE Kept(o.type, f),
           tpc'[t] \in {"writing", "object"} => metaVer'[t] <= version
    PROVE  NoUpdateIsLost' /\ Handlers' /\ ObjectsKept' /\ VersionsRead'
<1>0. TMTypes /\ Grows
  BY NothingGrows, Zenon DEF TMInv
<1>1. NoUpdateIsLost'
  BY Zenon DEF TMInv, NoUpdateIsLost, Told
<1>2. ASSUME NEW s \in Senders
      PROVE  /\ tpc'[s] = "object" => HandlerKeeps(s)'
             /\ tpc'[s] # "object" => tpc'[s] = "crashed" \/ hnd'[s] = Handler(Nil, Nil)
  <2>1. CASE s = t
    BY <2>1, Zenon
  <2>2. CASE s # t
    <3>1. tpc'[s] = tpc[s] /\ hnd'[s] = hnd[s]
      BY <2>2, Zenon
    <3>2. tpc[s] = "object" => HandlerKeeps(s)'
      BY <1>0, <3>1, HandlerStays, Zenon DEF TMInv, Handlers
    <3>q. QED
      BY <3>1, <3>2, Zenon DEF TMInv, Handlers
  <2>q. QED
    BY <2>1, <2>2, Zenon
<1>3. ASSUME NEW s \in Senders
      PROVE  Private(s)'
  <2>1. SUFFICES ASSUME hnd'[s].updated # Nil
                 PROVE  /\ \A type \in DOMAIN snapshots : snapshots[type] # hnd'[s].updated
                        /\ \A i \in DOMAIN pending : pending[i] # hnd'[s].updated
                        /\ \A r \in Senders : hnd'[r].origin # hnd'[s].updated
                        /\ \A r \in Senders : r # s => hnd'[r].updated # hnd'[s].updated
    BY Zenon DEF Private
  <2>2. hnd'[s].updated = hnd[s].updated /\ hnd[s].updated # Nil
    BY <2>1, Zenon
  <2>3. Private(s) /\ hnd[s].updated \in Nat
    BY Zenon DEF TMInv, Handlers, TMTypes
  <2>4. /\ \A type \in DOMAIN snapshots : snapshots[type] # hnd'[s].updated
        /\ \A i \in DOMAIN pending : pending[i] # hnd'[s].updated
    BY <2>2, <2>3, Zenon DEF Private
  <2>5. ASSUME NEW r \in Senders
        PROVE  hnd'[r].origin # hnd'[s].updated
    <3>1. CASE hnd'[r].origin = hnd[r].origin
      BY <2>2, <2>3, <3>1, Zenon DEF Private
    <3>2. CASE hnd'[r].origin # hnd[r].origin
      BY <2>2, <2>3, <2>4, <3>2, SMTT(30) DEF New
    <3>q. QED
      BY <3>1, <3>2, Zenon
  <2>6. ASSUME NEW r \in Senders, r # s
        PROVE  hnd'[r].updated # hnd'[s].updated
    BY <2>2, <2>3, <2>6, ZenonT(60) DEF Private
  <2>q. QED
    BY <2>4, <2>5, <2>6, Zenon
<1>4. Handlers'
  BY <1>2, <1>3, Zenon DEF Handlers
<1>5. ASSUME NEW type, NEW f
      PROVE  (Knows(type, f) => Knows(type, f)') /\ (Kept(type, f) => Kept(type, f)')
  BY <1>0, KeptStays, Zenon DEF Knows
<1>6. ASSUME NEW s \in Senders, NEW o \in objects'[s], NEW f \in o.fields
      PROVE  IF tpc'[s] = "send" THEN Knows(o.type, f)' ELSE Kept(o.type, f)'
  <2>1. IF tpc'[s] = "send" THEN Knows(o.type, f) ELSE Kept(o.type, f)
    BY <1>6, Zenon DEF TMInv, ObjectsKept
  <2>q. QED
    BY <1>5, <2>1, Zenon
<1>7. VersionsRead'
  BY Zenon DEF TMInv, VersionsRead
<1>q. QED
  BY <1>1, <1>4, <1>6, <1>7, Zenon DEF ObjectsKept

(* A step that neither is one of the loop nor starts or ends it. *)
LEMMA LoopStays ==
    ASSUME TMInv,
           UNCHANGED <<heap, snapshots, pending, server, entry, sent, refused>>,
           \A s \in Senders : tpc'[s] = "loop" <=> tpc[s] = "loop",
           ~refused => \A s \in Senders : /\ tpc'[s] # "crashed"
                                          /\ tpc'[s] = "object" => hnd'[s].origin # Nil
    PROVE  MetadataBeforeData' /\ LoopSends' /\ NoEmptyPointer'
<1>1. MetadataBeforeData'
  BY Zenon DEF TMInv, MetadataBeforeData, Told
<1>2. LoopSends'
  BY Zenon DEF TMInv, LoopSends, Told
<1>3. NoEmptyPointer'
  BY Zenon DEF TMInv, NoEmptyPointer, Running, Locked
<1>q. QED
  BY <1>1, <1>2, <1>3, Zenon

(* A step that leaves all but the updater. *)
LEMMA RestKeeps ==
    ASSUME TMInv, TMTypes',
           UNCHANGED <<heap, snapshots, pending, pendingVer, version, server, tpc, metaVer, hnd,
                       entry, objects, submitted, sent, refused>>
    PROVE  TMInv'
<1>1. NoUpdateIsLost' /\ MetadataBeforeData'
  BY ZenonT(60) DEF TMInv, NoUpdateIsLost, MetadataBeforeData, Told
<1>2. Handlers'
  BY SMTT(30) DEF TMInv, Handlers, HandlerKeeps, Private, Kept, Knows, Holds
<1>3. ObjectsKept'
  BY SMTT(30) DEF TMInv, ObjectsKept, Kept, Knows, Holds
<1>4. VersionsRead' /\ LoopSends' /\ NoEmptyPointer'
  BY Zenon DEF TMInv, VersionsRead, LoopSends, NoEmptyPointer, Running, Locked, Told
<1>q. QED
  BY <1>1, <1>2, <1>3, <1>4, Zenon DEF TMInv

(* IgniteEnvironment::Initialize. *)
LEMMA SetUpdaterKeeps ==
    ASSUME TMInv, SetUpdater
    PROVE  TMInv'
<1>1. TMTypes'
  BY Zenon DEF SetUpdater, TMInv, TMTypes, TMTypeOK
<1>q. QED
  BY <1>1, RestKeeps, Zenon DEF SetUpdater

(* The version that is read is never newer than what Java was told. *)
LEMMA WriteToKeeps ==
    ASSUME TMInv, NEW t \in Senders, WriteTo(t)
    PROVE  TMInv'
<1>0. /\ tpc \in [Senders -> {"idle", "writing", "object", "process", "loop", "send", "crashed"}]
      /\ metaVer \in [Senders -> Nat] /\ objects \in [Senders -> SUBSET Snapshots]
      /\ version \in Nat /\ Running
  BY SMTT(30) DEF TMInv, TMTypes, TMTypeOK, WriteTo
<1>1. /\ tpc[t] = "idle" /\ tpc' = [tpc EXCEPT ![t] = "writing"]
      /\ metaVer' = [metaVer EXCEPT ![t] = version] /\ objects' = [objects EXCEPT ![t] = {}]
      /\ UNCHANGED <<heap, snapshots, pending, updater, pendingVer, version, server, hnd, entry,
                     submitted, sent, refused>>
  BY Zenon DEF WriteTo, GetVersion
<1>2. TMTypes'
  BY <1>0, <1>1, Zenon DEF TMInv, TMTypes, TMTypeOK
<1>3. /\ tpc'[t] = "writing" /\ metaVer'[t] = version /\ objects'[t] = {}
      /\ \A s \in Senders \ {t} : /\ tpc'[s] = tpc[s] /\ objects'[s] = objects[s]
                                  /\ metaVer'[s] = metaVer[s]
  BY <1>0, <1>1, Zenon
<1>4. hnd[t] = Handler(Nil, Nil)
  BY <1>1, Zenon DEF TMInv, Handlers
<1>5. NoUpdateIsLost' /\ Handlers' /\ ObjectsKept' /\ VersionsRead'
  BY <1>0, <1>1, <1>3, <1>4, QuietStep, SMTT(30)
<1>6. MetadataBeforeData' /\ LoopSends' /\ NoEmptyPointer'
  BY <1>0, <1>1, <1>3, LoopStays, Zenon DEF TMInv, NoEmptyPointer, Running
<1>q. QED
  BY <1>2, <1>5, <1>6, Zenon DEF TMInv

(* A null pointer is dereferenced only after a refusal. *)
LEMMA CrashKeeps ==
    ASSUME TMInv, NEW t \in Senders, Crash(t), Running, refused
    PROVE  TMInv'
<1>0. tpc \in [Senders -> {"idle", "writing", "object", "process", "loop", "send", "crashed"}]
  BY Zenon DEF TMInv, TMTypes, TMTypeOK
<1>1. /\ tpc' = [tpc EXCEPT ![t] = "crashed"]
      /\ UNCHANGED <<heap, snapshots, pending, updater, pendingVer, version, server, metaVer,
                     hnd, entry, objects, submitted, sent, refused>>
  BY Zenon DEF Crash
<1>2. TMTypes'
  BY <1>0, <1>1, Zenon DEF TMInv, TMTypes, TMTypeOK
<1>3. tpc'[t] = "crashed" /\ \A s \in Senders \ {t} : tpc'[s] = tpc[s]
  BY <1>0, <1>1, Zenon
<1>4. \A o \in objects'[t] : \A f \in o.fields : Kept(o.type, f)
  BY <1>1, Zenon DEF TMInv, ObjectsKept, Kept
<1>5. NoUpdateIsLost' /\ Handlers' /\ ObjectsKept' /\ VersionsRead'
  BY <1>0, <1>1, <1>3, <1>4, QuietStep, Zenon
<1>6. MetadataBeforeData' /\ NoEmptyPointer'
  BY <1>1, Zenon DEF TMInv, MetadataBeforeData, Told, NoEmptyPointer
<1>7. LoopSends'
  BY <1>1, <1>3, ZenonT(60) DEF TMInv, LoopSends, Told
<1>q. QED
  BY <1>2, <1>5, <1>6, <1>7, Zenon DEF TMInv

(* A handler starts from nothing, from what Java knows, or from an update  *)
(* that is on its way.                                                     *)
LEMMA StartObjectKeeps ==
    ASSUME TMInv, NEW t \in Senders, NEW type \in Types, NEW origin, Running, tpc[t] = "writing",
           StartObject(t, type, origin),
           \/ origin = New
           \/ type \in DOMAIN snapshots /\ origin = snapshots[type]
           \/ \E i \in DOMAIN pending :
                 pending[i] # Nil /\ heap[pending[i]].type = type /\ origin = pending[i]
    PROVE  TMInv'
<1>0. /\ tpc \in [Senders -> {"idle", "writing", "object", "process", "loop", "send", "crashed"}]
      /\ hnd \in [Senders -> [type : Types \cup {Nil}, origin : Int, updated : Nat,
                              written : SUBSET Fields]]
      /\ Len(heap) \in Nat /\ TMTypes
  BY TypesMean, Zenon DEF TMInv, TMTypes, TMTypeOK
<1>1. /\ hnd' = [hnd EXCEPT ![t] = Handler(type, origin)]
      /\ tpc' = [tpc EXCEPT ![t] = "object"]
      /\ UNCHANGED <<heap, snapshots, pending, updater, pendingVer, version, server, metaVer,
                     entry, objects, submitted, sent, refused>>
  BY Zenon DEF StartObject
<1>2. origin \in -1 .. Len(heap) /\ origin \in Int
  BY <1>0, TypesMean, SMTT(30) DEF TMTypes, TMTypeOK, New
<1>3. /\ hnd'[t] = Handler(type, origin) /\ hnd'[t].type = type /\ hnd'[t].origin = origin
      /\ hnd'[t].updated = Nil /\ hnd'[t].written = {}
      /\ hnd'[t] \in [type : Types \cup {Nil}, origin : Int, updated : Nat, written : SUBSET Fields]
  BY <1>0, <1>1, <1>2, Zenon DEF Handler
<1>4. tpc'[t] = "object" /\ \A s \in Senders \ {t} : tpc'[s] = tpc[s] /\ hnd'[s] = hnd[s]
  BY <1>0, <1>1, Zenon
<1>5. TMTypes'
  <2>1. TMTypeOK'
    BY <1>0, <1>1, Zenon DEF TMTypes, TMTypeOK
  <2>2. hnd' \in [Senders -> [type : Types \cup {Nil}, origin : Int, updated : Nat,
                              written : SUBSET Fields]]
    <3>1. Handler(type, origin) \in [type : Types \cup {Nil}, origin : Int, updated : Nat,
                                     written : SUBSET Fields]
      BY <1>2, Zenon DEF Handler
    <3>q. QED
      BY <1>0, <1>1, <3>1, Zenon
  <2>3. \A s \in Senders : hnd'[s].origin \in -1 .. Len(heap) /\ hnd'[s].updated \in 0 .. Len(heap)
    <3>1. hnd'[t].origin \in -1 .. Len(heap) /\ hnd'[t].updated \in 0 .. Len(heap)
      BY <1>0, <1>2, <1>3, SMTT(30)
    <3>2. \A s \in Senders : hnd[s].origin \in -1 .. Len(heap) /\ hnd[s].updated \in 0 .. Len(heap)
      BY <1>0, Zenon DEF TMTypes
    <3>q. QED
      BY <1>4, <3>1, <3>2, Zenon
  <2>q. QED
    BY <1>0, <1>1, <2>1, <2>2, <2>3, Zenon DEF TMTypes
<1>6. HandlerKeeps(t)'
  <2>1. ASSUME origin > Nil
        PROVE  heap[origin].type = type /\ \A f \in heap[origin].fields : Kept(type, f)
    <3>1. CASE type \in DOMAIN snapshots /\ origin = snapshots[type]
      BY <2>1, <3>1, SMTT(30) DEF TMInv, NoUpdateIsLost, Told, Kept, Knows
    <3>2. CASE \E i \in DOMAIN pending :
                  pending[i] # Nil /\ heap[pending[i]].type = type /\ origin = pending[i]
      BY <3>2, Zenon DEF Kept, Holds
    <3>q. QED
      BY <2>1, <3>1, <3>2, SMTT(30) DEF New
  <2>2. \A f : Kept(type, f) => Kept(type, f)'
    BY <1>0, <1>1, NothingGrows, KeptStays, Zenon
  <2>q. QED
    BY <1>1, <1>3, <2>1, <2>2, Zenon DEF HandlerKeeps
<1>7. \A o \in objects'[t] : \A f \in o.fields : Kept(o.type, f)
  BY <1>1, Zenon DEF TMInv, ObjectsKept, Kept
<1>8. NoUpdateIsLost' /\ Handlers' /\ ObjectsKept' /\ VersionsRead'
  <2>1. metaVer'[t] <= version
    BY <1>1, Zenon DEF TMInv, VersionsRead
  <2>2. \/ origin \in {Nil, New} \/ \E k \in DOMAIN snapshots : origin = snapshots[k]
        \/ \E i \in DOMAIN pending : origin = pending[i]
    BY Zenon
  <2>q. QED
    BY <1>1, <1>3, <1>4, <1>6, <1>7, <2>1, <2>2, QuietStep, SMTT(30)
<1>9. MetadataBeforeData' /\ LoopSends' /\ NoEmptyPointer'
  <2>1. ~refused => origin # Nil
    BY SMTT(30) DEF TMInv, NoEmptyPointer, New
  <2>2. ~refused => \A s \in Senders : /\ tpc'[s] # "crashed"
                                       /\ tpc'[s] = "object" => hnd'[s].origin # Nil
    BY <1>3, <1>4, <2>1, Zenon DEF TMInv, NoEmptyPointer, Running
  <2>q. QED
    BY <1>1, <1>4, <2>2, LoopStays, Zenon
<1>q. QED
  BY <1>5, <1>8, <1>9, Zenon DEF TMInv

(* BinaryTypeManager::GetHandler. *)
LEMMA GetHandlerKeeps ==
    ASSUME TMInv, NEW t \in Senders, NEW type \in Types, GetHandler(t, type)
    PROVE  TMInv'
<1>1. Running /\ ~Locked /\ tpc[t] = "writing"
  BY Zenon DEF GetHandler
<1>2. CASE type \in DOMAIN snapshots /\ StartObject(t, type, snapshots[type])
  BY <1>1, <1>2, StartObjectKeeps, Zenon
<1>3. CASE StartObject(t, type, New)
  BY <1>1, <1>3, StartObjectKeeps, Zenon
<1>4. ASSUME NEW i \in Stops(type), IF pending[i] = Nil THEN Crash(t) ELSE StartObject(t, type, pending[i])
      PROVE  TMInv'
  <2>1. i \in DOMAIN pending /\ (pending[i] = Nil \/ heap[pending[i]].type = type)
    BY Zenon DEF Stops
  <2>2. CASE pending[i] = Nil
    <3>1. refused
      BY <1>1, <2>1, <2>2, Zenon DEF TMInv, NoEmptyPointer, TMTypes
    <3>q. QED
      BY <1>1, <1>4, <2>2, <3>1, CrashKeeps, Zenon
  <2>3. CASE pending[i] # Nil
    <3>1. StartObject(t, type, pending[i])
      BY <1>4, <2>3, Zenon
    <3>q. QED
      BY <1>1, <2>1, <2>3, <3>1, StartObjectKeeps, Zenon
  <2>q. QED
    BY <2>2, <2>3, Zenon
<1>q. QED
  BY <1>2, <1>3, <1>4, Zenon DEF GetHandler

(* IsUpdatedSince: with no update since the version was read, nothing is   *)
(* pending, and what is kept is known.                                     *)
LEMMA WrittenKeeps ==
    ASSUME TMInv, NEW t \in Senders, Written(t)
    PROVE  TMInv'
<1>0. /\ tpc \in [Senders -> {"idle", "writing", "object", "process", "loop", "send", "crashed"}]
      /\ metaVer \in [Senders -> Nat] /\ version \in 0 .. pendingVer /\ pendingVer \in Nat
  BY SMTT(30) DEF TMInv, TMTypes, TMTypeOK
<1>1. /\ Running /\ tpc[t] = "writing"
      /\ tpc' = [tpc EXCEPT ![t] = IF pendingVer > metaVer[t] THEN "process" ELSE "send"]
      /\ metaVer' = [metaVer EXCEPT ![t] = 0]
      /\ UNCHANGED <<heap, snapshots, pending, updater, pendingVer, version, server, hnd, entry,
                     objects, submitted, sent, refused>>
  BY Zenon DEF Written, IsUpdatedSince
<1>2. TMTypes'
  BY <1>0, <1>1, Zenon DEF TMInv, TMTypes, TMTypeOK
<1>3. /\ tpc'[t] = (IF pendingVer > metaVer[t] THEN "process" ELSE "send")
      /\ \A s \in Senders \ {t} : tpc'[s] = tpc[s] /\ metaVer'[s] = metaVer[s]
  BY <1>0, <1>1, Zenon
<1>4. hnd[t] = Handler(Nil, Nil)
  BY <1>1, Zenon DEF TMInv, Handlers
<1>5. tpc'[t] = "send" => pending = <<>>
  <2>1. metaVer[t] <= version /\ metaVer[t] \in Nat
    BY <1>0, <1>1, Zenon DEF TMInv, VersionsRead
  <2>2. tpc'[t] = "send" => version = pendingVer
    BY <1>0, <1>3, <2>1, SMTT(30)
  <2>q. QED
    BY <2>2, Zenon DEF TMInv, NoUpdateIsLost
<1>6. \A o \in objects'[t] : \A f \in o.fields :
         IF tpc'[t] = "send" THEN Knows(o.type, f) ELSE Kept(o.type, f)
  <2>1. \A o \in objects[t] : \A f \in o.fields : Kept(o.type, f)
    BY <1>1, Zenon DEF TMInv, ObjectsKept
  <2>2. \A type, f : Kept(type, f) /\ pending = <<>> => Knows(type, f)
    BY SMTT(30) DEF Kept
  <2>q. QED
    BY <1>1, <1>5, <2>1, <2>2, Zenon
<1>7. NoUpdateIsLost' /\ Handlers' /\ ObjectsKept' /\ VersionsRead'
  BY <1>1, <1>3, <1>4, <1>6, QuietStep, SMTT(30)
<1>8. MetadataBeforeData' /\ LoopSends' /\ NoEmptyPointer'
  BY <1>1, <1>3, LoopStays, SMTT(30) DEF TMInv, NoEmptyPointer, Running
<1>q. QED
  BY <1>2, <1>7, <1>8, Zenon DEF TMInv

(* The loop starts at the first entry; only one thread is in it. *)
LEMMA ProcessPendingUpdatesKeeps ==
    ASSUME TMInv, NEW t \in Senders, ProcessPendingUpdates(t)
    PROVE  TMInv'
<1>0. /\ tpc \in [Senders -> {"idle", "writing", "object", "process", "loop", "send", "crashed"}]
      /\ objects \in [Senders -> SUBSET Snapshots] /\ entry \in Nat /\ Len(pending) \in Nat
      /\ updater \in BOOLEAN
  BY TypesMean, Zenon DEF TMInv, TMTypes, TMTypeOK
<1>1. /\ Running /\ ~Locked /\ tpc[t] = "process"
      /\ UNCHANGED <<heap, snapshots, pending, updater, pendingVer, version, server, metaVer, hnd,
                     submitted, sent, refused>>
      /\ \/ tpc' = [tpc EXCEPT ![t] = "loop"] /\ entry' = 1 /\ objects' = objects
         \/ tpc' = [tpc EXCEPT ![t] = "idle"] /\ objects' = [objects EXCEPT ![t] = {}] /\ entry' = entry
  BY Zenon DEF ProcessPendingUpdates, Fail
<1>2. TMTypes'
  <2>1. /\ tpc' \in [Senders -> {"idle", "writing", "object", "process", "loop", "send", "crashed"}]
        /\ objects' \in [Senders -> SUBSET Snapshots] /\ entry' \in Nat
    BY <1>0, <1>1, SMTT(30)
  <2>q. QED
    BY <1>1, <2>1, Zenon DEF TMInv, TMTypes, TMTypeOK
<1>3. /\ tpc'[t] \in {"loop", "idle"} /\ objects'[t] \subseteq objects[t]
      /\ \A s \in Senders \ {t} : tpc'[s] = tpc[s] /\ objects'[s] = objects[s]
      /\ tpc'[t] = "loop" => entry' = 1
      /\ tpc'[t] = "idle" => entry' = entry
  BY <1>0, <1>1, Zenon
<1>4. hnd[t] = Handler(Nil, Nil)
  BY <1>1, Zenon DEF TMInv, Handlers
<1>5. \A o \in objects'[t] : \A f \in o.fields : Kept(o.type, f)
  BY <1>1, <1>3, Zenon DEF TMInv, ObjectsKept
<1>6. NoUpdateIsLost' /\ Handlers' /\ ObjectsKept' /\ VersionsRead'
  BY <1>1, <1>3, <1>4, <1>5, QuietStep, Zenon
<1>7. MetadataBeforeData'
  BY <1>1, Zenon DEF TMInv, MetadataBeforeData, Told
<1>8. LoopSends'
  BY <1>0, <1>1, <1>3, SMTT(30) DEF LoopSends, Locked
<1>9. NoEmptyPointer'
  BY <1>1, <1>3, Zenon DEF TMInv, NoEmptyPointer, Running, Locked
<1>q. QED
  BY <1>2, <1>6, <1>7, <1>8, <1>9, Zenon DEF TMInv

(* The objects of a thread stay kept, or known, through the steps of       *)
(* others.                                                                 *)
LEMMA ObjectsStay ==
    ASSUME TMInv, Grows, NEW s \in Senders, tpc'[s] = tpc[s], objects'[s] = objects[s]
    PROVE  \A o \in objects'[s] : \A f \in o.fields :
              IF tpc'[s] = "send" THEN Knows(o.type, f)' ELSE Kept(o.type, f)'
<1>1. SUFFICES ASSUME NEW o \in objects[s], NEW f \in o.fields
               PROVE  IF tpc[s] = "send" THEN Knows(o.type, f)' ELSE Kept(o.type, f)'
  BY Zenon
<1>2. IF tpc[s] = "send" THEN Knows(o.type, f) ELSE Kept(o.type, f)
  BY Zenon DEF TMInv, ObjectsKept
<1>3. Knows(o.type, f) => Knows(o.type, f)'
  BY Zenon DEF Grows, Knows
<1>4. Kept(o.type, f) => Kept(o.type, f)'
  BY KeptStays, Zenon DEF TMInv
<1>q. QED
  BY <1>2, <1>3, <1>4, Zenon

(* An entry that was processed before. *)
LEMMA SkipEntryKeeps ==
    ASSUME TMInv, NEW t \in Senders, SkipEntry(t)
    PROVE  TMInv'
<1>0. entry \in Nat /\ Len(pending) \in Nat /\ TMTypes
  BY TypesMean, Zenon DEF TMInv, TMTypes
<1>1. /\ tpc[t] = "loop" /\ entry <= Len(pending) /\ pending[entry] = Nil /\ entry' = entry + 1
      /\ UNCHANGED <<heap, snapshots, pending, updater, pendingVer, version, server, tpc, metaVer,
                     hnd, objects, submitted, sent, refused>>
  BY Zenon DEF SkipEntry, InLoop
<1>2. TMTypes'
  BY <1>0, <1>1, SMTT(30) DEF TMTypes, TMTypeOK
<1>3. hnd[t] = Handler(Nil, Nil)
  BY <1>1, Zenon DEF TMInv, Handlers
<1>4. \A o \in objects'[t] : \A f \in o.fields : Kept(o.type, f)
  BY <1>1, Zenon DEF TMInv, ObjectsKept
<1>5. NoUpdateIsLost' /\ Handlers' /\ ObjectsKept' /\ VersionsRead'
  BY <1>1, <1>3, <1>4, QuietStep, Zenon
<1>6. MetadataBeforeData'
  BY <1>1, Zenon DEF TMInv, MetadataBeforeData, Told
<1>7. LoopSends'
  <2>1. /\ entry \in 1 .. Len(pending) + 1
        /\ \A j \in 1 .. entry - 1 : pending[j] = Nil \/ Told(heap[pending[j]])
        /\ \A s \in Senders : tpc[s] = "loop" => s = t
    BY <1>1, Zenon DEF TMInv, LoopSends
  <2>2. entry' \in 1 .. Len(pending) + 1
    BY <1>0, <1>1, <2>1, SMTT(30)
  <2>3. \A j \in 1 .. entry' - 1 : j \in 1 .. entry - 1 \/ j = entry
    BY <1>0, <1>1, SMTT(30)
  <2>4. \A j \in 1 .. entry' - 1 : pending[j] = Nil \/ Told(heap[pending[j]])
    BY <1>1, <2>1, <2>3, Zenon
  <2>q. QED
    BY <1>1, <2>1, <2>2, <2>4, ZenonT(60) DEF LoopSends, Told
<1>8. NoEmptyPointer'
  <2>1. \A j \in DOMAIN pending : j < entry => j < entry'
    BY <1>0, <1>1, TypesMean, SMTT(30)
  <2>q. QED
    BY <1>1, <2>1, Zenon DEF TMInv, NoEmptyPointer, Running, Locked
<1>q. QED
  BY <1>2, <1>5, <1>6, <1>7, <1>8, Zenon DEF TMInv

(* A refused update stays in the queue, and its thread sends nothing. *)
LEMMA RefuseEntryKeeps ==
    ASSUME TMInv, NEW t \in Senders, RefuseEntry(t)
    PROVE  TMInv'
<1>0. /\ tpc \in [Senders -> {"idle", "writing", "object", "process", "loop", "send", "crashed"}]
      /\ objects \in [Senders -> SUBSET Snapshots]
  BY Zenon DEF TMInv, TMTypes, TMTypeOK
<1>1. /\ tpc[t] = "loop" /\ tpc' = [tpc EXCEPT ![t] = "idle"]
      /\ objects' = [objects EXCEPT ![t] = {}] /\ refused' = TRUE /\ entry' = 0
      /\ UNCHANGED <<heap, snapshots, pending, updater, pendingVer, version, server, metaVer, hnd,
                     submitted, sent>>
  BY Zenon DEF RefuseEntry, InLoop, Fail
<1>2. TMTypes'
  BY <1>0, <1>1, Zenon DEF TMInv, TMTypes, TMTypeOK
<1>3. /\ tpc'[t] = "idle" /\ objects'[t] = {}
      /\ \A s \in Senders \ {t} : tpc'[s] = tpc[s] /\ objects'[s] = objects[s]
  BY <1>0, <1>1, Zenon
<1>4. hnd[t] = Handler(Nil, Nil)
  BY <1>1, Zenon DEF TMInv, Handlers
<1>5. NoUpdateIsLost' /\ Handlers' /\ ObjectsKept' /\ VersionsRead'
  BY <1>1, <1>3, <1>4, QuietStep, Zenon
<1>6. MetadataBeforeData' /\ NoEmptyPointer'
  BY <1>1, Zenon DEF TMInv, MetadataBeforeData, Told, NoEmptyPointer
<1>7. LoopSends'
  <2>1. \A s \in Senders : tpc'[s] # "loop"
    BY <1>1, <1>3, Zenon DEF TMInv, LoopSends
  <2>q. QED
    BY <2>1, Zenon DEF LoopSends
<1>q. QED
  BY <1>2, <1>5, <1>6, <1>7, Zenon DEF TMInv

(* The data goes to Java only from where its fields are known. *)
LEMMA SendKeeps ==
    ASSUME TMInv, NEW t \in Senders, Send(t)
    PROVE  TMInv'
<1>0. /\ tpc \in [Senders -> {"idle", "writing", "object", "process", "loop", "send", "crashed"}]
      /\ objects \in [Senders -> SUBSET Snapshots]
  BY Zenon DEF TMInv, TMTypes, TMTypeOK
<1>1. /\ tpc[t] = "send" /\ tpc' = [tpc EXCEPT ![t] = "idle"] /\ sent' = objects[t]
      /\ objects' = [objects EXCEPT ![t] = {}] /\ Running
      /\ UNCHANGED <<heap, snapshots, pending, updater, pendingVer, version, server, metaVer, hnd,
                     entry, submitted, refused>>
  BY Zenon DEF Send
<1>2. TMTypes'
  BY <1>0, <1>1, Zenon DEF TMInv, TMTypes, TMTypeOK
<1>3. /\ tpc'[t] = "idle" /\ objects'[t] = {}
      /\ \A s \in Senders \ {t} : tpc'[s] = tpc[s] /\ objects'[s] = objects[s]
  BY <1>0, <1>1, Zenon
<1>4. hnd[t] = Handler(Nil, Nil)
  BY <1>1, Zenon DEF TMInv, Handlers
<1>5. NoUpdateIsLost' /\ Handlers' /\ ObjectsKept' /\ VersionsRead'
  BY <1>1, <1>3, <1>4, QuietStep, Zenon
<1>6. MetadataBeforeData'
  <2>1. \A o \in objects[t] : \A f \in o.fields : Knows(o.type, f)
    BY <1>1, Zenon DEF TMInv, ObjectsKept
  <2>2. \A o \in objects[t] : o.fields # {} => Told(o)
    BY <2>1, Zenon DEF Knows, Told
  <2>q. QED
    BY <1>1, <2>2, Zenon DEF MetadataBeforeData, Told
<1>7. LoopSends' /\ NoEmptyPointer'
  <2>1. \A s \in Senders : tpc'[s] = "loop" <=> tpc[s] = "loop"
    BY <1>1, <1>3, Zenon
  <2>q. QED
    BY <1>1, <1>3, <2>1, ZenonT(60) DEF TMInv, LoopSends, NoEmptyPointer, Running, Locked, Told
<1>q. QED
  BY <1>2, <1>5, <1>6, <1>7, Zenon DEF TMInv

(* At the end of the loop Java knows all that was pending, of whichever    *)
(* thread.                                                                 *)
LEMMA EndLoopKeeps ==
    ASSUME TMInv, NEW t \in Senders, EndLoop(t)
    PROVE  TMInv'
<1>0. /\ tpc \in [Senders -> {"idle", "writing", "object", "process", "loop", "send", "crashed"}]
      /\ TMTypes /\ version \in Nat /\ pendingVer \in Nat /\ version <= pendingVer
      /\ entry \in Nat
  BY SMTT(30) DEF TMInv, TMTypes, TMTypeOK
<1>1. /\ tpc[t] = "loop" /\ entry > Len(pending) /\ tpc' = [tpc EXCEPT ![t] = "send"]
      /\ pending' = <<>> /\ version' = pendingVer /\ entry' = 0 /\ Running
      /\ UNCHANGED <<heap, snapshots, updater, pendingVer, server, metaVer, hnd, objects, submitted,
                     sent, refused>>
  BY Zenon DEF EndLoop
<1>2. TMTypes'
  <2>1. pending' \in Seq(0 .. Len(heap')) /\ version' \in 0 .. pendingVer'
    BY <1>0, <1>1, SMTT(30)
  <2>q. QED
    BY <1>0, <1>1, <2>1, Zenon DEF TMTypes, TMTypeOK
<1>3. tpc'[t] = "send" /\ \A s \in Senders \ {t} : tpc'[s] = tpc[s]
  BY <1>0, <1>1, Zenon
<1>4. \A i \in DOMAIN pending : pending[i] # Nil => Told(heap[pending[i]])
  <2>1. \A j \in 1 .. entry - 1 : pending[j] = Nil \/ Told(heap[pending[j]])
    BY <1>1, Zenon DEF TMInv, LoopSends
  <2>2. \A i \in DOMAIN pending : i \in 1 .. entry - 1
    BY <1>0, <1>1, TypesMean, SMTT(30)
  <2>q. QED
    BY <2>1, <2>2, Zenon
<1>5. Grows
  BY <1>0, <1>1, <1>4, TypesMean, SMTT(30) DEF Grows, Told
<1>6. NoUpdateIsLost'
  <2>1. \A u \in submitted : Told(u)
    BY <1>4, Zenon DEF TMInv, NoUpdateIsLost, Told
  <2>q. QED
    BY <1>1, <2>1, Zenon DEF TMInv, NoUpdateIsLost, Told
<1>7. Handlers'
  <2>1. ASSUME NEW s \in Senders
        PROVE  /\ tpc'[s] = "object" => HandlerKeeps(s)'
               /\ tpc'[s] # "object" => tpc'[s] = "crashed" \/ hnd'[s] = Handler(Nil, Nil)
    <3>1. tpc[s] = "object" => HandlerKeeps(s)'
      BY <1>1, <1>5, HandlerStays, Zenon DEF TMInv, Handlers
    <3>q. QED
      BY <1>1, <1>3, <3>1, Zenon DEF TMInv, Handlers
  <2>2. ASSUME NEW s \in Senders
        PROVE  Private(s)'
    BY <1>1, SMTT(30) DEF TMInv, Handlers, Private
  <2>q. QED
    BY <2>1, <2>2, Zenon DEF Handlers
<1>8. ObjectsKept'
  <2>1. ASSUME NEW o \in objects[t], NEW f \in o.fields
        PROVE  Knows(o.type, f)'
    <3>1. Kept(o.type, f)
      BY <1>1, <2>1, Zenon DEF TMInv, ObjectsKept
    <3>2. Kept(o.type, f)'
      BY <1>0, <1>5, <3>1, KeptStays, Zenon
    <3>q. QED
      BY <1>1, <3>2, SMTT(30) DEF Kept
  <2>2. ASSUME NEW s \in Senders \ {t}
        PROVE  \A o \in objects'[s] : \A f \in o.fields :
                  IF tpc'[s] = "send" THEN Knows(o.type, f)' ELSE Kept(o.type, f)'
    BY <1>1, <1>3, <1>5, ObjectsStay, Zenon
  <2>q. QED
    BY <1>1, <1>3, <2>1, <2>2, Zenon DEF ObjectsKept
<1>9. VersionsRead'
  BY <1>0, <1>1, <1>3, SMTT(30) DEF TMInv, VersionsRead, TMTypes
<1>10. MetadataBeforeData'
  BY <1>1, Zenon DEF TMInv, MetadataBeforeData, Told
<1>11. LoopSends' /\ NoEmptyPointer'
  <2>1. \A s \in Senders : tpc'[s] # "loop"
    BY <1>1, <1>3, Zenon DEF TMInv, LoopSends
  <2>q. QED
    BY <1>1, <1>3, <2>1, SMTT(30) DEF TMInv, LoopSends, NoEmptyPointer, Running
<1>q. QED
  BY <1>2, <1>6, <1>7, <1>8, <1>9, <1>10, <1>11, Zenon DEF TMInv

(* The type of a handler. *)
HandlerType == [type : Types \cup {Nil}, origin : Int, updated : Nat, written : SUBSET Fields]

(* The handler goes, the object is kept. *)
LEMMA EndObjectTypes ==
    ASSUME TMInv, NEW t \in Senders, tpc[t] = "object", EndObject(t)
    PROVE  /\ hnd'[t] = Handler(Nil, Nil) /\ hnd'[t].origin = Nil /\ hnd'[t].updated = Nil
           /\ tpc'[t] = "writing"
           /\ objects'[t] = objects[t] \cup {[type |-> hnd[t].type, fields |-> hnd[t].written]}
           /\ \A s \in Senders \ {t} : /\ tpc'[s] = tpc[s] /\ hnd'[s] = hnd[s]
                                       /\ objects'[s] = objects[s]
           /\ hnd' \in [Senders -> HandlerType] /\ objects' \in [Senders -> SUBSET Snapshots]
           /\ tpc' \in [Senders -> {"idle", "writing", "object", "process", "loop", "send", "crashed"}]
           /\ \A s \in Senders : hnd'[s].origin \in -1 .. Len(heap) /\ hnd'[s].updated \in 0 .. Len(heap)
<1>0. /\ tpc \in [Senders -> {"idle", "writing", "object", "process", "loop", "send", "crashed"}]
      /\ objects \in [Senders -> SUBSET Snapshots] /\ hnd \in [Senders -> HandlerType]
      /\ \A s \in Senders : hnd[s].origin \in -1 .. Len(heap) /\ hnd[s].updated \in 0 .. Len(heap)
      /\ Len(heap) \in Nat
  BY TypesMean, Zenon DEF TMInv, TMTypes, TMTypeOK, HandlerType
<1>1. /\ objects' = [objects EXCEPT ![t] = @ \cup {[type |-> hnd[t].type, fields |-> hnd[t].written]}]
      /\ hnd' = [hnd EXCEPT ![t] = Handler(Nil, Nil)]
      /\ tpc' = [tpc EXCEPT ![t] = "writing"]
  BY Zenon DEF EndObject
<1>2. Handler(Nil, Nil) \in HandlerType /\ Handler(Nil, Nil).origin = Nil
      /\ Handler(Nil, Nil).updated = Nil
  BY SMTT(30) DEF Handler, HandlerType
<1>3. [type |-> hnd[t].type, fields |-> hnd[t].written] \in Snapshots
  <2>1. hnd[t].type \in Types
    BY Zenon DEF TMInv, Handlers, HandlerKeeps
  <2>2. hnd[t].written \in SUBSET Fields
    BY <1>0, Zenon DEF HandlerType
  <2>q. QED
    BY <2>1, <2>2, Zenon DEF Snapshots
<1>4. hnd'[t] = Handler(Nil, Nil) /\ \A s \in Senders \ {t} : hnd'[s] = hnd[s]
  BY <1>0, <1>1, Zenon
<1>5. \A s \in Senders : hnd'[s].origin \in -1 .. Len(heap) /\ hnd'[s].updated \in 0 .. Len(heap)
  <2>1. hnd'[t].origin \in -1 .. Len(heap) /\ hnd'[t].updated \in 0 .. Len(heap)
    BY <1>0, <1>2, <1>4, SMTT(30)
  <2>q. QED
    BY <1>0, <1>4, <2>1, Zenon
<1>6. hnd' \in [Senders -> HandlerType]
  BY <1>0, <1>1, <1>2, Zenon
<1>7. objects' \in [Senders -> SUBSET Snapshots]
  BY <1>0, <1>1, <1>3, Zenon
<1>8. /\ objects'[t] = objects[t] \cup {[type |-> hnd[t].type, fields |-> hnd[t].written]}
      /\ \A s \in Senders \ {t} : objects'[s] = objects[s]
  BY <1>0, <1>1, Zenon
<1>9. /\ tpc'[t] = "writing" /\ \A s \in Senders \ {t} : tpc'[s] = tpc[s]
      /\ tpc' \in [Senders -> {"idle", "writing", "object", "process", "loop", "send", "crashed"}]
  BY <1>0, <1>1, Zenon
<1>q. QED
  BY <1>2, <1>4, <1>5, <1>6, <1>7, <1>8, <1>9, Zenon

(* BinaryTypeManager::SubmitHandler moves the update from the handler to   *)
(* the queue: it is nobody's own any more.                                 *)
LEMMA SubmitHandlerKeeps ==
    ASSUME TMInv, NEW t \in Senders, SubmitHandler(t)
    PROVE  TMInv'
<1>0. /\ TMTypes /\ Running /\ tpc[t] = "object" /\ EndObject(t) /\ HandlerKeeps(t)
      /\ metaVer[t] <= version
      /\ UNCHANGED <<heap, snapshots, updater, version, server, metaVer, entry, sent, refused>>
  BY Zenon DEF TMInv, SubmitHandler, Handlers, EndObject, VersionsRead
<1>1. /\ hnd'[t] = Handler(Nil, Nil) /\ hnd'[t].origin = Nil /\ hnd'[t].updated = Nil
      /\ tpc'[t] = "writing"
      /\ objects'[t] = objects[t] \cup {[type |-> hnd[t].type, fields |-> hnd[t].written]}
      /\ \A s \in Senders \ {t} : /\ tpc'[s] = tpc[s] /\ hnd'[s] = hnd[s]
                                  /\ objects'[s] = objects[s]
  BY <1>0, EndObjectTypes, Zenon
<1>2. /\ hnd' \in [Senders -> HandlerType] /\ objects' \in [Senders -> SUBSET Snapshots]
      /\ tpc' \in [Senders -> {"idle", "writing", "object", "process", "loop", "send", "crashed"}]
      /\ \A s \in Senders : hnd'[s].origin \in -1 .. Len(heap) /\ hnd'[s].updated \in 0 .. Len(heap)
  BY <1>0, EndObjectTypes, Zenon
<1>3. \A o \in objects[t] : \A f \in o.fields : Kept(o.type, f)
  BY <1>0, Zenon DEF TMInv, ObjectsKept
<1>4. CASE hnd[t].updated = Nil /\ UNCHANGED <<pending, pendingVer, submitted>>
  <2>1. TMTypes'
    BY <1>0, <1>2, <1>4, Zenon DEF TMTypes, TMTypeOK, HandlerType
  <2>2. \A f \in hnd[t].written : Kept(hnd[t].type, f)
    BY <1>0, <1>4, Zenon DEF HandlerKeeps, Holds
  <2>3. \A o \in objects'[t] : \A f \in o.fields : Kept(o.type, f)
    BY <1>1, <1>3, <2>2, SMTT(30)
  <2>4. NoUpdateIsLost' /\ Handlers' /\ ObjectsKept' /\ VersionsRead'
    BY <1>0, <1>1, <1>4, <2>3, QuietStep, Zenon
  <2>5. MetadataBeforeData' /\ LoopSends' /\ NoEmptyPointer'
    <3>1. \A s \in Senders : tpc'[s] = "loop" <=> tpc[s] = "loop"
      BY <1>0, <1>1, Zenon
    <3>2. ~refused => \A s \in Senders : /\ tpc'[s] # "crashed"
                                         /\ tpc'[s] = "object" => hnd'[s].origin # Nil
      BY <1>0, <1>1, ZenonT(60) DEF TMInv, NoEmptyPointer, Running
    <3>q. QED
      BY <1>0, <1>4, <3>1, <3>2, LoopStays, Zenon
  <2>q. QED
    BY <2>1, <2>4, <2>5, Zenon DEF TMInv
<1>5. CASE /\ hnd[t].updated # Nil /\ ~Locked /\ pendingVer < MaxUpdates
           /\ pending' = Append(pending, hnd[t].updated) /\ pendingVer' = pendingVer + 1
           /\ submitted' = submitted \cup {heap[hnd[t].updated]}
  <2> DEFINE u == hnd[t].updated
  <2>0. u \in 1 .. Len(heap) /\ Len(heap) \in Nat /\ heap[u] \in Snapshots /\ heap[u].type = hnd[t].type
    BY <1>0, <1>5, TypesMean, SMTT(30) DEF TMTypes, HandlerKeeps
  <2>1. /\ pending \in Seq(0 .. Len(heap)) /\ pending' \in Seq(0 .. Len(heap))
        /\ Len(pending') = Len(pending) + 1 /\ Len(pending) \in Nat
        /\ DOMAIN pending = 1 .. Len(pending) /\ DOMAIN pending' = 1 .. Len(pending) + 1
        /\ \A i \in 1 .. Len(pending) : pending'[i] = pending[i]
        /\ pending'[Len(pending) + 1] = u
    BY <1>0, <1>5, <2>0, SMTT(30) DEF TMTypes, TMTypeOK
  <2>a. \A i \in DOMAIN pending' : (i \in DOMAIN pending /\ pending'[i] = pending[i]) \/ pending'[i] = u
    BY <2>1, SMTT(30)
  <2>b. \A i \in DOMAIN pending : i \in DOMAIN pending' /\ pending'[i] = pending[i]
    BY <2>1, SMTT(30)
  <2>c. \E i \in DOMAIN pending' : pending'[i] = u
    BY <2>1, SMTT(30)
  <2>2. TMTypes'
    <3>1. pendingVer \in Nat /\ version \in 0 .. pendingVer /\ MaxUpdates \in Nat
      BY <1>0, SMTT(30) DEF TMTypes, TMTypeOK
    <3>2. version' \in 0 .. pendingVer' /\ pendingVer' \in 0 .. MaxUpdates
      BY <1>0, <1>5, <3>1, SMTT(30)
    <3>3. submitted' \subseteq Snapshots
      BY <1>0, <1>5, <2>0, Zenon DEF TMTypes
    <3>q. QED
      BY <1>0, <1>2, <2>1, <3>2, <3>3, Zenon DEF TMTypes, TMTypeOK, HandlerType
  <2>3. Grows
    BY <1>0, <2>0, <2>b, SMTT(30) DEF Grows
  <2>4. NoUpdateIsLost'
    <3>1. ASSUME NEW w \in submitted'
          PROVE  \/ Told(w)'
                 \/ \E i \in DOMAIN pending' :
                       /\ pending'[i] # Nil
                       /\ heap'[pending'[i]].type = w.type /\ w.fields \subseteq heap'[pending'[i]].fields
      <4>1. CASE w \in submitted
        BY <1>0, <2>b, <4>1, SMTT(30) DEF TMInv, NoUpdateIsLost, Told
      <4>2. CASE w = heap[u]
        BY <1>0, <1>5, <2>c, <4>2, Zenon
      <4>q. QED
        BY <1>5, <4>1, <4>2, Zenon
    <3>2. version' # pendingVer'
      BY <1>0, <1>5, SMTT(30) DEF TMTypes, TMTypeOK
    <3>q. QED
      BY <1>0, <3>1, <3>2, Zenon DEF TMInv, NoUpdateIsLost, Told
  <2>5. Handlers'
    <3>1. ASSUME NEW r \in Senders
          PROVE  /\ tpc'[r] = "object" => HandlerKeeps(r)'
                 /\ tpc'[r] # "object" => tpc'[r] = "crashed" \/ hnd'[r] = Handler(Nil, Nil)
      <4>1. CASE r = t
        BY <1>1, <4>1, Zenon
      <4>2. CASE r # t
        <5>1. tpc'[r] = tpc[r] /\ hnd'[r] = hnd[r]
          BY <1>1, <4>2, Zenon
        <5>2. tpc[r] = "object" => HandlerKeeps(r)'
          BY <2>3, <5>1, HandlerStays, Zenon DEF TMInv, Handlers
        <5>q. QED
          BY <5>1, <5>2, Zenon DEF TMInv, Handlers
      <4>q. QED
        BY <4>1, <4>2, Zenon
    <3>2. ASSUME NEW r \in Senders
          PROVE  Private(r)'
      <4>1. CASE r = t
        BY <1>1, <4>1, Zenon DEF Private
      <4>2. CASE r # t /\ hnd[r].updated # Nil
        <5>1. hnd'[r] = hnd[r] /\ Private(r) /\ hnd[r].updated # u
          BY <1>1, <1>5, <4>2, Zenon DEF TMInv, Handlers, Private
        <5>2. \A i \in DOMAIN pending' : pending'[i] # hnd'[r].updated
          BY <2>a, <4>2, <5>1, Zenon DEF Private
        <5>3. \A q \in Senders : hnd'[q].origin # hnd'[r].updated
          BY <1>1, <4>2, <5>1, Zenon DEF Private
        <5>4. \A q \in Senders : q # r => hnd'[q].updated # hnd'[r].updated
          BY <1>1, <4>2, <5>1, Zenon DEF Private
        <5>q. QED
          BY <1>0, <4>2, <5>1, <5>2, <5>3, <5>4, Zenon DEF Private
      <4>3. CASE r # t /\ hnd[r].updated = Nil
        BY <1>1, <4>3, Zenon DEF Private
      <4>q. QED
        BY <4>1, <4>2, <4>3, Zenon
    <3>q. QED
      BY <3>1, <3>2, Zenon DEF Handlers
  <2>6. ObjectsKept'
    <3>0. PICK k \in Types : k = hnd[t].type
      BY <1>0, Zenon DEF HandlerKeeps
    <3>1. ASSUME NEW f \in hnd[t].written
          PROVE  Kept(k, f)'
      <4>0. heap' = heap
        BY <1>0, Zenon
      <4>1. CASE Kept(k, f)
        BY <1>0, <2>3, <4>1, KeptStays, Zenon
      <4>2. CASE Holds(u, k, f)
        BY <1>5, <2>c, <4>0, <4>2, Zenon DEF Kept, Holds
      <4>q. QED
        BY <1>0, <3>0, <4>1, <4>2, Zenon DEF HandlerKeeps
    <3>2. ASSUME NEW o \in objects[t], NEW f \in o.fields
          PROVE  Kept(o.type, f)'
      BY <1>0, <1>3, <2>3, <3>2, KeptStays, Zenon
    <3>3. ASSUME NEW r \in Senders \ {t}
          PROVE  \A o \in objects'[r] : \A f \in o.fields :
                    IF tpc'[r] = "send" THEN Knows(o.type, f)' ELSE Kept(o.type, f)'
      BY <1>1, <2>3, ObjectsStay, Zenon
    <3>4. \A o \in objects'[t] : o \in objects[t] \/ (o.type = k /\ o.fields = hnd[t].written)
      BY <1>1, <3>0, SMTT(30)
    <3>5. \A o \in objects'[t] : \A f \in o.fields : Kept(o.type, f)'
      BY <3>1, <3>2, <3>4, Zenon
    <3>q. QED
      BY <1>1, <3>3, <3>5, Zenon DEF ObjectsKept
  <2>7. VersionsRead'
    BY <1>0, <1>1, Zenon DEF TMInv, VersionsRead
  <2>8. MetadataBeforeData'
    BY <1>0, Zenon DEF TMInv, MetadataBeforeData, Told
  <2>9. LoopSends'
    BY <1>1, <1>5, Zenon DEF LoopSends, Locked
  <2>10. NoEmptyPointer'
    <3>1. ~refused => \A j \in DOMAIN pending' : pending'[j] # Nil
      BY <1>5, <2>a, Zenon DEF TMInv, NoEmptyPointer
    <3>q. QED
      BY <1>0, <1>1, <3>1, Zenon DEF TMInv, NoEmptyPointer, Running
  <2>q. QED
    BY <2>2, <2>4, <2>5, <2>6, <2>7, <2>8, <2>9, <2>10, Zenon DEF TMInv
<1>q. QED
  BY <1>4, <1>5, Zenon DEF SubmitHandler

(* A submitted update stays queued or told when a step only adds. *)
LEMMA SubmittedStay ==
    ASSUME TMInv, Grows, NEW u \in submitted
    PROVE  \/ Told(u)'
           \/ \E i \in DOMAIN pending' :
                 /\ pending'[i] # Nil
                 /\ heap'[pending'[i]].type = u.type /\ u.fields \subseteq heap'[pending'[i]].fields
<1>1. CASE Told(u)
  BY <1>1, Zenon DEF Grows, Told
<1>2. ASSUME NEW i \in DOMAIN pending, pending[i] # Nil, heap[pending[i]].type = u.type,
             u.fields \subseteq heap[pending[i]].fields
      PROVE  \/ Told(u)'
             \/ \E j \in DOMAIN pending' :
                   /\ pending'[j] # Nil
                   /\ heap'[pending'[j]].type = u.type
                   /\ u.fields \subseteq heap'[pending'[j]].fields
  <2>1. pending[i] \in 1 .. Len(heap)
    BY <1>2, TypesMean, Zenon DEF TMInv
  <2>2. heap'[pending[i]].type = u.type /\ u.fields \subseteq heap'[pending[i]].fields
    BY <1>2, <2>1, Zenon DEF Grows
  <2>3. ASSUME NEW j \in DOMAIN pending', pending'[j] = pending[i]
        PROVE  \E k \in DOMAIN pending' :
                  /\ pending'[k] # Nil
                  /\ heap'[pending'[k]].type = u.type
                  /\ u.fields \subseteq heap'[pending'[k]].fields
    <3>1. /\ pending'[j] # Nil /\ heap'[pending'[j]].type = u.type
          /\ u.fields \subseteq heap'[pending'[j]].fields
      BY <1>2, <2>2, <2>3, Zenon
    <3>q. QED
      BY <2>3, <3>1, Zenon
  <2>4. CASE /\ heap'[pending[i]].type \in DOMAIN server'
             /\ heap'[pending[i]].fields \subseteq server'[heap'[pending[i]].type]
    BY <2>2, <2>4, Zenon DEF Told
  <2>q. QED
    BY <1>2, <2>3, <2>4, Zenon DEF Grows
<1>q. QED
  BY <1>1, <1>2, SMTT(30) DEF TMInv, NoUpdateIsLost

(* A snapshot of the map stays one of its type that Java knows. *)
LEMMA SnapshotStays ==
    ASSUME TMInv, Grows, NEW type \in DOMAIN snapshots, snapshots[type] # Nil
    PROVE  /\ heap'[snapshots[type]].type = type /\ type \in DOMAIN server'
           /\ heap'[snapshots[type]].fields \subseteq server'[type]
<1>1. snapshots[type] \in 1 .. Len(heap) /\ Len(heap) \in Nat
  BY TypesMean, SMTT(30) DEF TMInv, TMTypes, TMTypeOK
<1>2. heap[snapshots[type]].type = type /\ type \in DOMAIN server
      /\ heap[snapshots[type]].fields \subseteq server[type]
  BY Zenon DEF TMInv, NoUpdateIsLost, Told
<1>3. heap'[snapshots[type]].type = type
  BY <1>1, <1>2, Zenon DEF Grows
<1>4. \A t \in Senders : snapshots[type] # hnd[t].updated
  BY <1>1, Zenon DEF TMInv, Handlers, Private
<1>5. \A f \in heap'[snapshots[type]].fields :
         f \in heap[snapshots[type]].fields \/ Knows(type, f)'
  BY <1>1, <1>2, <1>4, SMTT(30) DEF Grows
<1>6. type \in DOMAIN server' /\ server[type] \subseteq server'[type]
  BY <1>2, Zenon DEF Grows
<1>7. heap'[snapshots[type]].fields \subseteq server'[type]
  BY <1>2, <1>5, <1>6, Zenon DEF Knows
<1>q. QED
  BY <1>3, <1>6, <1>7, Zenon

(* OnFieldWritten puts the field into the update of the handler, which no  *)
(* other pointer leads to.                                                 *)
LEMMA FieldStep ==
    ASSUME TMInv, NEW t \in Senders, NEW f \in Fields, NEW u \in Nat, tpc[t] = "object",
           hnd' = [hnd EXCEPT ![t] = [hnd[t] EXCEPT !.updated = u, !.written = @ \cup {f}]],
           UNCHANGED <<snapshots, pending, updater, pendingVer, version, server, tpc,
                       metaVer, entry, objects, submitted, sent, refused>>,
           heap' \in Seq(Snapshots), Len(heap) <= Len(heap'), u \in 1 .. Len(heap'),
           hnd[t].updated # Nil => hnd[t].updated = u,
           \A p \in 1 .. Len(heap) : p # u => heap'[p] = heap[p],
           u \in 1 .. Len(heap) => /\ u = hnd[t].updated
                                   /\ heap[u].fields \subseteq heap'[u].fields,
           heap'[u].type = hnd[t].type, f \in heap'[u].fields,
           \A type \in DOMAIN snapshots : snapshots[type] # u,
           \A i \in DOMAIN pending : pending[i] # u,
           \A s \in Senders : hnd[s].origin # u,
           \A s \in Senders : s # t => hnd[s].updated # u
    PROVE  TMInv'
<1>0. /\ hnd \in [Senders -> HandlerType] /\ TMTypes /\ HandlerKeeps(t) /\ Handlers
      /\ Len(heap) \in Nat /\ Len(heap') \in Nat
      /\ \A s \in Senders : hnd[s].origin \in -1 .. Len(heap) /\ hnd[s].updated \in 0 .. Len(heap)
  BY TypesMean, SMTT(30) DEF TMInv, TMTypes, Handlers, HandlerType
<1>1. /\ hnd'[t].type = hnd[t].type /\ hnd'[t].origin = hnd[t].origin /\ hnd'[t].updated = u
      /\ hnd'[t].written = hnd[t].written \cup {f}
      /\ hnd'[t] \in HandlerType
      /\ \A s \in Senders \ {t} : hnd'[s] = hnd[s]
  BY <1>0, ZenonT(60) DEF HandlerType
<1>2. hnd' \in [Senders -> HandlerType]
  BY <1>0, <1>1, Zenon
<1>3. TMTypes'
  <2>1. \A s \in Senders : hnd'[s].origin \in -1 .. Len(heap') /\ hnd'[s].updated \in 0 .. Len(heap')
    <3>1. hnd'[t].origin \in -1 .. Len(heap') /\ hnd'[t].updated \in 0 .. Len(heap')
      BY <1>0, <1>1, SMTT(30)
    <3>2. ASSUME NEW s \in Senders \ {t}
          PROVE  hnd'[s].origin \in -1 .. Len(heap') /\ hnd'[s].updated \in 0 .. Len(heap')
      BY <1>0, <1>1, SMTT(30)
    <3>q. QED
      BY <3>1, <3>2, Zenon
  <2>2. TMTypeOK'
    <3>1. \A type \in DOMAIN snapshots : snapshots[type] \in 0 .. Len(heap')
      BY <1>0, SMTT(30) DEF TMTypes, TMTypeOK
    <3>2. pending \in Seq(0 .. Len(heap'))
      BY <1>0, SMTT(30) DEF TMTypes, TMTypeOK
    <3>q. QED
      BY <1>0, <3>1, <3>2, Zenon DEF TMTypes, TMTypeOK
  <2>q. QED
    BY <1>0, <1>2, <2>1, <2>2, Zenon DEF TMTypes, HandlerType
<1>4. Grows
  <2>1. ASSUME NEW p \in 1 .. Len(heap)
        PROVE  /\ heap'[p].type = heap[p].type /\ heap[p].fields \subseteq heap'[p].fields
               /\ \A g \in heap'[p].fields :
                     \/ g \in heap[p].fields \/ Knows(heap[p].type, g)'
                     \/ \E s \in Senders : p = hnd[s].updated
    <3>1. CASE p # u
      BY <3>1, Zenon
    <3>2. CASE p = u
      <4>1. hnd[t].updated = p /\ hnd[t].updated # Nil
        BY <1>0, <3>2, SMTT(30)
      <4>2. heap[p].type = hnd[t].type
        BY <1>0, <4>1, Zenon DEF HandlerKeeps
      <4>q. QED
        BY <3>2, <4>1, <4>2, Zenon
    <3>q. QED
      BY <3>1, <3>2, Zenon
  <2>q. QED
    BY <1>0, <2>1, Zenon DEF Grows
<1>5. NoUpdateIsLost'
  <2>1. \A v \in submitted' :
          \/ Told(v)'
          \/ \E i \in DOMAIN pending' :
                /\ pending'[i] # Nil
                /\ heap'[pending'[i]].type = v.type /\ v.fields \subseteq heap'[pending'[i]].fields
    BY <1>4, SubmittedStay, Zenon
  <2>2. \A type \in DOMAIN snapshots : snapshots[type] # Nil =>
          /\ heap'[snapshots[type]].type = type /\ type \in DOMAIN server'
          /\ heap'[snapshots[type]].fields \subseteq server'[type]
    BY <1>4, SnapshotStays, Zenon
  <2>3. version' = pendingVer' => pending' = <<>>
    BY Zenon DEF TMInv, NoUpdateIsLost
  <2>q. QED
    BY <2>1, <2>2, <2>3, SMTT(30) DEF NoUpdateIsLost, Told
<1>6. HandlerKeeps(t)'
  <2>1. ASSUME hnd[t].origin > Nil
        PROVE  /\ heap'[hnd[t].origin].type = hnd[t].type
               /\ \A g \in heap'[hnd[t].origin].fields : Kept(hnd[t].type, g)
    <3>1. hnd[t].origin \in 1 .. Len(heap) /\ hnd[t].origin # u
      BY <1>0, <2>1, SMTT(30)
    <3>2. heap'[hnd[t].origin] = heap[hnd[t].origin]
      BY <3>1, Zenon
    <3>q. QED
      BY <1>0, <2>1, <3>2, Zenon DEF HandlerKeeps
  <2>2. ASSUME NEW g \in hnd[t].written \cup {f}
        PROVE  Kept(hnd[t].type, g) \/ g \in heap'[u].fields
    <3>1. CASE g = f
      BY <3>1, Zenon
    <3>2. CASE g \in hnd[t].written
      <4>1. Kept(hnd[t].type, g) \/ Holds(hnd[t].updated, hnd[t].type, g)
        BY <1>0, <3>2, Zenon DEF HandlerKeeps
      <4>2. Holds(hnd[t].updated, hnd[t].type, g) => g \in heap'[u].fields
        BY <1>0, SMTT(30) DEF Holds
      <4>q. QED
        BY <4>1, <4>2, Zenon
    <3>q. QED
      BY <3>1, <3>2, Zenon
  <2>3. ASSUME NEW g, Kept(hnd[t].type, g)
        PROVE  Kept(hnd[t].type, g)'
    <3>1. PICK ty : ty = hnd[t].type
      BY Zenon
    <3>2. Kept(ty, g)'
      BY <1>0, <1>4, <2>3, <3>1, KeptStays, Zenon
    <3>q. QED
      BY <1>1, <3>1, <3>2, ZenonT(60) DEF Kept, Knows, Holds
  <2>4. hnd'[t].type \in Types
    BY <1>0, <1>1, Zenon DEF HandlerKeeps
  <2>5. hnd'[t].origin > Nil =>
          /\ heap'[hnd'[t].origin].type = hnd'[t].type
          /\ \A g \in heap'[hnd'[t].origin].fields : Kept(hnd[t].type, g)'
    BY <1>1, <2>1, <2>3, Zenon
  <2>6. \A g \in hnd'[t].written : Kept(hnd[t].type, g)' \/ Holds(hnd[t].updated, hnd[t].type, g)'
    <3>1. ASSUME NEW g, g \in heap'[u].fields
          PROVE  Holds(hnd[t].updated, hnd[t].type, g)'
      BY <1>1, <3>1, SMTT(30) DEF Holds
    <3>q. QED
      BY <1>1, <2>2, <2>3, <3>1, Zenon
  <2>q. QED
    BY <1>1, <2>4, <2>5, <2>6, Zenon DEF HandlerKeeps
<1>7. Handlers'
  <2>1. ASSUME NEW s \in Senders
        PROVE  /\ tpc'[s] = "object" => HandlerKeeps(s)'
               /\ tpc'[s] # "object" => tpc'[s] = "crashed" \/ hnd'[s] = Handler(Nil, Nil)
    <3>1. CASE s = t
      BY <1>6, <3>1, Zenon
    <3>2. CASE s # t
      <4>1. hnd'[s] = hnd[s] /\ tpc'[s] = tpc[s]
        BY <1>1, <3>2, Zenon
      <4>2. tpc[s] = "object" => HandlerKeeps(s)'
        BY <1>0, <1>4, <4>1, HandlerStays, Zenon DEF Handlers
      <4>q. QED
        BY <1>0, <4>1, <4>2, Zenon DEF Handlers
    <3>q. QED
      BY <3>1, <3>2, Zenon
  <2>2. \A s \in Senders : hnd'[s].origin = hnd[s].origin
    BY <1>1, Zenon
  <2>3. ASSUME NEW s \in Senders
        PROVE  Private(s)'
    <3>1. CASE s = t
      <4>1. \A r \in Senders : r # t => hnd'[r].updated # u
        BY <1>1, Zenon
      <4>q. QED
        BY <1>1, <2>2, <3>1, <4>1, SMTT(30) DEF Private
    <3>2. CASE s # t
      <4>1. hnd'[s].updated = hnd[s].updated /\ Private(s) /\ hnd[s].updated # u
        BY <1>0, <1>1, <3>2, Zenon DEF Handlers
      <4>2. \A r \in Senders : hnd'[r].updated = hnd[r].updated \/ hnd'[r].updated = u
        BY <1>1, Zenon
      <4>q. QED
        BY <2>2, <4>1, <4>2, Zenon DEF Private
    <3>q. QED
      BY <3>1, <3>2, Zenon
  <2>q. QED
    BY <2>1, <2>3, Zenon DEF Handlers
<1>8. ObjectsKept' /\ VersionsRead'
  <2>1. VersionsRead'
    BY Zenon DEF TMInv, VersionsRead
  <2>2. ASSUME NEW s \in Senders
        PROVE  \A o \in objects'[s] : \A g \in o.fields :
                  IF tpc'[s] = "send" THEN Knows(o.type, g)' ELSE Kept(o.type, g)'
    BY <1>4, ObjectsStay, Zenon
  <2>q. QED
    BY <2>1, <2>2, Zenon DEF ObjectsKept
<1>9. MetadataBeforeData'
  BY Zenon DEF TMInv, MetadataBeforeData, Told
<1>10. LoopSends'
  <2>1. ASSUME NEW s \in Senders, tpc[s] = "loop", NEW j \in 1 .. entry - 1
        PROVE  pending[j] = Nil \/ heap'[pending[j]] = heap[pending[j]]
    <3>1. entry \in 1 .. Len(pending) + 1
      BY <2>1, Zenon DEF TMInv, LoopSends
    <3>2. Len(pending) \in Nat /\ DOMAIN pending = 1 .. Len(pending)
      BY <1>0, TypesMean, Zenon
    <3>3. j \in DOMAIN pending
      BY <3>1, <3>2, SMTT(30)
    <3>q. QED
      BY <1>0, <3>2, <3>3, TypesMean, Zenon
  <2>q. QED
    BY <2>1, ZenonT(60) DEF TMInv, LoopSends, Told
<1>11. NoEmptyPointer'
  <2>1. ~refused => \A s \in Senders : tpc[s] = "object" => hnd'[s].origin # Nil
    BY <1>1, ZenonT(60) DEF TMInv, NoEmptyPointer
  <2>q. QED
    BY <2>1, Zenon DEF TMInv, NoEmptyPointer, Running, Locked
<1>q. QED
  BY <1>3, <1>5, <1>7, <1>8, <1>9, <1>10, <1>11, Zenon DEF TMInv

(* BinaryTypeHandler::OnFieldWritten, while another thread may be in the   *)
(* loop.                                                                   *)
LEMMA OnFieldWrittenKeeps ==
    ASSUME TMInv, NEW t \in Senders, NEW f \in Fields, OnFieldWritten(t, f)
    PROVE  TMInv'
<1>0. /\ hnd \in [Senders -> HandlerType] /\ TMTypes /\ Handlers /\ heap \in Seq(Snapshots)
      /\ Len(heap) \in Nat /\ hnd[t] \in HandlerType
      /\ \A p \in 1 .. Len(heap) : heap[p] \in Snapshots
      /\ \A s \in Senders : hnd[s].origin \in -1 .. Len(heap) /\ hnd[s].updated \in 0 .. Len(heap)
  BY TypesMean, Zenon DEF TMInv, TMTypes, TMTypeOK, Handlers, HandlerType
<1>1. Running /\ tpc[t] = "object" /\ HandlerKeeps(t)
  BY <1>0, Zenon DEF OnFieldWritten, Handlers
<1> DEFINE h == hnd[t]
           old == IF h.origin > Nil THEN heap[h.origin].fields ELSE {}
           Rest == UNCHANGED <<snapshots, pending, updater, pendingVer, version, server, tpc,
                               metaVer, entry, objects, submitted, sent, refused>>
<1>2. CASE /\ f \in old /\ Rest /\ UNCHANGED heap
           /\ hnd' = [hnd EXCEPT ![t] = [h EXCEPT !.written = @ \cup {f}]]
  <2>1. /\ hnd'[t].type = hnd[t].type /\ hnd'[t].origin = hnd[t].origin
        /\ hnd'[t].updated = hnd[t].updated /\ hnd'[t].written = hnd[t].written \cup {f}
        /\ hnd'[t] \in HandlerType
        /\ \A s \in Senders \ {t} : hnd'[s] = hnd[s]
    BY <1>0, <1>2, Zenon DEF HandlerType
  <2>2. TMTypes'
    <3>1. hnd' \in [Senders -> HandlerType]
      BY <1>0, <1>2, <2>1, Zenon
    <3>2. \A s \in Senders : hnd'[s].origin \in -1 .. Len(heap) /\ hnd'[s].updated \in 0 .. Len(heap)
      BY <1>0, <2>1, Zenon
    <3>3. TMTypeOK'
      BY <1>0, <1>2, Zenon DEF TMTypes, TMTypeOK
    <3>q. QED
      BY <1>0, <1>2, <3>1, <3>2, <3>3, Zenon DEF TMTypes, HandlerType
  <2>3. hnd[t].origin > Nil /\ Kept(hnd[t].type, f)
    BY <1>1, <1>2, Zenon DEF HandlerKeeps
  <2>4. HandlerKeeps(t)'
    <3>1. hnd'[t].type \in Types
      BY <1>1, <2>1, Zenon DEF HandlerKeeps
    <3>2. hnd'[t].origin > Nil =>
            /\ heap'[hnd'[t].origin].type = hnd'[t].type
            /\ \A g \in heap'[hnd'[t].origin].fields : Kept(hnd[t].type, g)'
      BY <1>1, <1>2, <2>1, SMTT(30) DEF HandlerKeeps, Kept, Knows, Holds
    <3>3. hnd'[t].updated # Nil => heap'[hnd'[t].updated].type = hnd'[t].type
      BY <1>1, <1>2, <2>1, Zenon DEF HandlerKeeps
    <3>4. \A g \in hnd'[t].written : Kept(hnd[t].type, g)' \/ Holds(hnd[t].updated, hnd[t].type, g)'
      <4>1. \A g \in hnd'[t].written : Kept(hnd[t].type, g) \/ Holds(hnd[t].updated, hnd[t].type, g)
        BY <1>1, <2>1, <2>3, Zenon DEF HandlerKeeps
      <4>q. QED
        BY <1>2, <2>1, <4>1, ZenonT(60) DEF Kept, Knows, Holds
    <3>q. QED
      BY <3>1, <3>2, <3>3, <3>4, Zenon DEF HandlerKeeps
  <2>5. \A o \in objects'[t] : \A g \in o.fields : Kept(o.type, g)
    BY <1>1, <1>2, Zenon DEF TMInv, ObjectsKept
  <2>6. tpc'[t] = "object" /\ metaVer'[t] <= version
    BY <1>1, <1>2, Zenon DEF TMInv, VersionsRead
  <2>7. NoUpdateIsLost' /\ Handlers' /\ ObjectsKept' /\ VersionsRead'
    BY <1>2, <2>1, <2>4, <2>5, <2>6, QuietStep, Zenon
  <2>8. MetadataBeforeData' /\ LoopSends' /\ NoEmptyPointer'
    <3>1. ~refused => \A s \in Senders : /\ tpc'[s] # "crashed"
                                         /\ tpc'[s] = "object" => hnd'[s].origin # Nil
      BY <1>1, <1>2, <2>1, Zenon DEF TMInv, NoEmptyPointer, Running
    <3>q. QED
      BY <1>2, <3>1, LoopStays, Zenon
  <2>q. QED
    BY <2>2, <2>7, <2>8, Zenon DEF TMInv
<1>3. CASE /\ h.updated # Nil /\ Rest
           /\ heap' = [heap EXCEPT ![h.updated].fields = @ \cup {f}]
           /\ hnd' = [hnd EXCEPT ![t] = [h EXCEPT !.written = @ \cup {f}]]
  <2>1. PICK u : u = hnd[t].updated
    BY Zenon
  <2>2. u \in Nat /\ u \in 1 .. Len(heap)
    BY <1>0, <1>3, <2>1, SMTT(30)
  <2>3. heap[u] \in Snapshots /\ heap[u].type = hnd[t].type
    BY <1>0, <1>1, <1>3, <2>1, <2>2, Zenon DEF HandlerKeeps
  <2>a. PICK snap : snap = [heap[hnd[t].updated] EXCEPT !.fields = @ \cup {f}]
    BY Zenon
  <2>4. snap \in Snapshots /\ snap.type = hnd[t].type /\ snap.fields = heap[u].fields \cup {f}
    BY <2>1, <2>3, <2>a, Zenon DEF Snapshots
  <2>b. heap' = [heap EXCEPT ![hnd[t].updated] = snap]
    BY <1>3, <2>a, Zenon
  <2>5. heap' = [heap EXCEPT ![u] = snap]
    BY <2>1, <2>b, Zenon
  <2>6. heap' \in Seq(Snapshots) /\ Len(heap') = Len(heap)
    BY <1>0, <2>2, <2>4, <2>5, SMTT(30)
  <2>7. /\ \A p \in 1 .. Len(heap) : p # u => heap'[p] = heap[p]
        /\ heap'[u] = snap
    BY <1>0, <2>2, <2>5, SMTT(30)
  <2>8. heap'[u].type = hnd[t].type /\ heap'[u].fields = heap[u].fields \cup {f}
    BY <2>4, <2>7, Zenon
  <2>9. /\ \A type \in DOMAIN snapshots : snapshots[type] # u
        /\ \A i \in DOMAIN pending : pending[i] # u
        /\ \A s \in Senders : hnd[s].origin # u
        /\ \A s \in Senders : s # t => hnd[s].updated # u
    BY <1>0, <1>3, <2>1, Zenon DEF Handlers, Private
  <2>10. hnd' = [hnd EXCEPT ![t] = [hnd[t] EXCEPT !.updated = u, !.written = @ \cup {f}]]
    <3>1. [hnd[t] EXCEPT !.written = @ \cup {f}]
             = [hnd[t] EXCEPT !.updated = u, !.written = @ \cup {f}]
      BY <1>0, <2>1, Zenon DEF HandlerType
    <3>q. QED
      BY <1>3, <3>1, Zenon
  <2>11. /\ Len(heap) <= Len(heap') /\ u \in 1 .. Len(heap') /\ f \in heap'[u].fields
         /\ heap[u].fields \subseteq heap'[u].fields
    BY <1>0, <2>2, <2>6, <2>8, SMTT(30)
  <2>12. /\ UNCHANGED <<snapshots, pending, updater, pendingVer, version, server, tpc, metaVer, entry,
                        objects, submitted, sent, refused>>
         /\ hnd[t].updated # Nil => hnd[t].updated = u
         /\ u \in 1 .. Len(heap) => u = hnd[t].updated /\ heap[u].fields \subseteq heap'[u].fields
    BY <1>3, <2>1, <2>11, Zenon
  <2>q. QED
    BY <1>1, <2>2, <2>6, <2>7, <2>8, <2>9, <2>10, <2>11, <2>12, FieldStep, ZenonT(60)
<1>4. CASE h.origin = Nil /\ Crash(t)
  <2>1. refused
    BY <1>1, <1>4, Zenon DEF TMInv, NoEmptyPointer, TMTypes
  <2>q. QED
    BY <1>1, <1>4, <2>1, CrashKeeps, Zenon
<1>5. CASE /\ h.updated = Nil /\ h.origin # Nil /\ Rest
           /\ heap' = Append(heap, [type |-> h.type, fields |-> old \cup {f}])
           /\ hnd' = [hnd EXCEPT ![t] = [h EXCEPT !.updated = Len(heap) + 1,
                                                  !.written = @ \cup {f}]]
  <2>1. PICK u : u = Len(heap) + 1
    BY Zenon
  <2>2. u \in Nat /\ u \notin 1 .. Len(heap) /\ u \notin -1 .. Len(heap) /\ u \notin 0 .. Len(heap)
    BY <1>0, <2>1, SMTT(30)
  <2>3. old \subseteq Fields
    BY <1>0, SMTT(30) DEF Snapshots
  <2>4. PICK snap : snap = [type |-> hnd[t].type, fields |-> old \cup {f}]
    BY Zenon
  <2>5. snap \in Snapshots /\ snap.type = hnd[t].type /\ f \in snap.fields
    BY <1>1, <2>3, <2>4, Zenon DEF Snapshots, HandlerKeeps
  <2>6. heap' = Append(heap, snap)
    BY <1>5, <2>4, Zenon
  <2>7. /\ heap' \in Seq(Snapshots) /\ Len(heap') = Len(heap) + 1 /\ heap'[u] = snap
        /\ \A p \in 1 .. Len(heap) : heap'[p] = heap[p]
    BY <1>0, <2>1, <2>5, <2>6, SMTT(30)
  <2>8. /\ \A type \in DOMAIN snapshots : snapshots[type] # u
        /\ \A i \in DOMAIN pending : pending[i] # u
    BY <1>0, <2>2, TypesMean, SMTT(30) DEF TMTypes, TMTypeOK
  <2>9. \A s \in Senders : hnd[s].origin # u /\ hnd[s].updated # u
    BY <1>0, <2>2, Zenon
  <2>10. hnd' = [hnd EXCEPT ![t] = [hnd[t] EXCEPT !.updated = u, !.written = @ \cup {f}]]
    BY <1>5, <2>1, Zenon
  <2>11. Len(heap) <= Len(heap') /\ u \in 1 .. Len(heap')
    BY <1>0, <2>1, <2>7, SMTT(30)
  <2>12. /\ UNCHANGED <<snapshots, pending, updater, pendingVer, version, server, tpc, metaVer, entry,
                        objects, submitted, sent, refused>>
         /\ hnd[t].updated # Nil => hnd[t].updated = u
         /\ u \in 1 .. Len(heap) => u = hnd[t].updated /\ heap[u].fields \subseteq heap'[u].fields
         /\ \A p \in 1 .. Len(heap) : p # u => heap'[p] = heap[p]
         /\ heap'[u].type = hnd[t].type /\ f \in heap'[u].fields
         /\ \A s \in Senders : hnd[s].origin # u
         /\ \A s \in Senders : s # t => hnd[s].updated # u
    BY <1>5, <2>2, <2>5, <2>7, <2>9, Zenon
  <2>q. QED
    BY <1>1, <2>2, <2>7, <2>8, <2>10, <2>11, <2>12, FieldStep, ZenonT(60)
<1>q. QED
  BY <1>2, <1>3, <1>4, <1>5, Zenon DEF OnFieldWritten

(* A step that leaves the threads as they are. *)
LEMMA SharedStep ==
    ASSUME TMInv, Grows, UNCHANGED <<tpc, metaVer, hnd, objects, version>>,
           \A t \in Senders : hnd[t].updated # Nil =>
              /\ \A type \in DOMAIN snapshots' : snapshots'[type] # hnd[t].updated
              /\ \A i \in DOMAIN pending' : pending'[i] # hnd[t].updated
    PROVE  Handlers' /\ ObjectsKept' /\ VersionsRead'
<1>1. ASSUME NEW s \in Senders
      PROVE  /\ tpc'[s] = "object" => HandlerKeeps(s)'
             /\ tpc'[s] # "object" => tpc'[s] = "crashed" \/ hnd'[s] = Handler(Nil, Nil)
             /\ Private(s)'
  <2>1. tpc[s] = "object" => HandlerKeeps(s)'
    BY HandlerStays, Zenon DEF TMInv, Handlers
  <2>2. Private(s)'
    BY Zenon DEF TMInv, Handlers, Private
  <2>q. QED
    BY <2>1, <2>2, Zenon DEF TMInv, Handlers
<1>2. ASSUME NEW s \in Senders
      PROVE  \A o \in objects'[s] : \A g \in o.fields :
                IF tpc'[s] = "send" THEN Knows(o.type, g)' ELSE Kept(o.type, g)'
  BY ObjectsStay, Zenon
<1>3. VersionsRead'
  BY Zenon DEF TMInv, VersionsRead
<1>q. QED
  BY <1>1, <1>2, <1>3, Zenon DEF Handlers, ObjectsKept

(* BinaryTypeManager::GetMeta caches what Java answers. *)
LEMMA GetMetaKeeps ==
    ASSUME TMInv, NEW t \in Senders, NEW type \in Types, GetMeta(t, type)
    PROVE  TMInv'
<1>0. /\ TMTypes /\ heap \in Seq(Snapshots) /\ Len(heap) \in Nat /\ Handlers
      /\ \A s \in Senders : hnd[s].origin \in -1 .. Len(heap) /\ hnd[s].updated \in 0 .. Len(heap)
  BY TypesMean, Zenon DEF TMInv, TMTypes, TMTypeOK
<1>1. Running /\ ~Locked
  BY Zenon DEF GetMeta
<1>2. ASSUME NEW i \in Stops(type), pending[i] = Nil, Crash(t)
      PROVE  TMInv'
  <2>1. refused
    BY <1>1, <1>2, Zenon DEF TMInv, NoEmptyPointer, Stops, TMTypes
  <2>q. QED
    BY <1>1, <1>2, <2>1, CrashKeeps, Zenon
<1>3. ASSUME type \notin DOMAIN snapshots, type \in DOMAIN server,
             heap' = Append(heap, [type |-> type, fields |-> server[type]]),
             snapshots' = With(snapshots, type, Len(heap) + 1),
             UNCHANGED <<pending, updater, pendingVer, version, server, tpc, metaVer, hnd, entry,
                         objects, submitted, sent, refused>>
      PROVE  TMInv'
  <2>1. PICK u : u = Len(heap) + 1
    BY Zenon
  <2>2. PICK snap : snap = [type |-> type, fields |-> server[type]]
    BY Zenon
  <2>3. snap \in Snapshots /\ snap.type = type /\ snap.fields = server[type]
    BY <1>0, <1>3, <2>2, Zenon DEF Snapshots, TMTypes
  <2>4. /\ heap' \in Seq(Snapshots) /\ Len(heap') = Len(heap) + 1 /\ heap'[u] = snap
        /\ \A p \in 1 .. Len(heap) : heap'[p] = heap[p]
    <3>1. heap' = Append(heap, snap)
      BY <1>3, <2>2, Zenon
    <3>q. QED
      BY <1>0, <2>1, <2>3, <3>1, SMTT(30)
  <2>5. /\ DOMAIN snapshots' = DOMAIN snapshots \cup {type} /\ snapshots'[type] = u
        /\ \A k \in DOMAIN snapshots : k # type => snapshots'[k] = snapshots[k]
    BY <1>3, <2>1, Zenon DEF With
  <2>6. \A k \in DOMAIN snapshots : snapshots[k] \in 0 .. Len(heap)
    BY <1>0, Zenon DEF TMTypes, TMTypeOK
  <2>7. TMTypes'
    <3>1. \A k \in DOMAIN snapshots' : snapshots'[k] \in 0 .. Len(heap')
      BY <1>0, <2>1, <2>4, <2>5, <2>6, SMTT(30)
    <3>2. pending' \in Seq(0 .. Len(heap'))
      BY <1>0, <1>3, <2>4, SMTT(30) DEF TMTypes, TMTypeOK
    <3>3. TMTypeOK'
      BY <1>0, <1>3, <2>4, <2>5, <3>1, <3>2, Zenon DEF TMTypes, TMTypeOK
    <3>4. \A s \in Senders : hnd'[s].origin \in -1 .. Len(heap') /\ hnd'[s].updated \in 0 .. Len(heap')
      BY <1>0, <1>3, <2>4, SMTT(30)
    <3>q. QED
      BY <1>0, <1>3, <3>3, <3>4, Zenon DEF TMTypes
  <2>8. Grows
    BY <1>0, <1>3, <2>4, SMTT(30) DEF Grows
  <2>9. NoUpdateIsLost'
    <3>1. \A v \in submitted' :
            \/ Told(v)'
            \/ \E i \in DOMAIN pending' :
                  /\ pending'[i] # Nil
                  /\ heap'[pending'[i]].type = v.type /\ v.fields \subseteq heap'[pending'[i]].fields
      BY <1>3, <2>8, SubmittedStay, Zenon
    <3>2. ASSUME NEW k \in DOMAIN snapshots', snapshots'[k] # Nil
          PROVE  heap'[snapshots'[k]].type = k /\ Told(heap[snapshots[k]])'
      <4>1. CASE k = type
        BY <1>3, <2>3, <2>4, <2>5, <4>1, Zenon DEF Told
      <4>2. CASE k # type
        <5>1. k \in DOMAIN snapshots /\ snapshots'[k] = snapshots[k]
          BY <2>5, <4>2, Zenon
        <5>2. /\ heap'[snapshots[k]].type = k /\ k \in DOMAIN server'
              /\ heap'[snapshots[k]].fields \subseteq server'[k]
          BY <2>8, <3>2, <5>1, SnapshotStays, Zenon
        <5>q. QED
          BY <5>1, <5>2, Zenon DEF Told
      <4>q. QED
        BY <4>1, <4>2, Zenon
    <3>3. version' = pendingVer' => pending' = <<>>
      BY <1>3, Zenon DEF TMInv, NoUpdateIsLost
    <3>q. QED
      BY <3>1, <3>2, <3>3, Zenon DEF NoUpdateIsLost
  <2>10. Handlers' /\ ObjectsKept' /\ VersionsRead'
    <3>1. ASSUME NEW s \in Senders, hnd[s].updated # Nil
          PROVE  /\ \A k \in DOMAIN snapshots' : snapshots'[k] # hnd[s].updated
                 /\ \A i \in DOMAIN pending' : pending'[i] # hnd[s].updated
      <4>1. Private(s) /\ hnd[s].updated # u
        BY <1>0, <2>1, SMTT(30) DEF Handlers
      <4>q. QED
        BY <1>3, <2>5, <3>1, <4>1, ZenonT(60) DEF Private
    <3>q. QED
      BY <1>3, <2>8, <3>1, SharedStep, Zenon
  <2>11. MetadataBeforeData'
    BY <1>3, Zenon DEF TMInv, MetadataBeforeData, Told
  <2>12. LoopSends'
    BY <1>1, <1>3, Zenon DEF LoopSends, Locked
  <2>13. NoEmptyPointer'
    <3>1. u # Nil
      BY <1>0, <2>1, SMTT(30)
    <3>q. QED
      BY <1>3, <2>5, <3>1, Zenon DEF TMInv, NoEmptyPointer, Running, Locked
  <2>q. QED
    BY <2>7, <2>9, <2>10, <2>11, <2>12, <2>13, Zenon DEF TMInv
<1>4. ASSUME type \notin DOMAIN snapshots, snapshots' = With(snapshots, type, Nil), refused' = TRUE,
             UNCHANGED <<heap, pending, updater, pendingVer, version, server, tpc, metaVer, hnd,
                         entry, objects, submitted, sent>>
      PROVE  TMInv'
  <2>1. /\ DOMAIN snapshots' = DOMAIN snapshots \cup {type} /\ snapshots'[type] = Nil
        /\ \A k \in DOMAIN snapshots : snapshots'[k] = snapshots[k]
    BY <1>4, Zenon DEF With
  <2>2. TMTypes'
    <3>0. \A k \in DOMAIN snapshots : snapshots[k] \in 0 .. Len(heap)
      BY <1>0, Zenon DEF TMTypes, TMTypeOK
    <3>1. \A k \in DOMAIN snapshots' : snapshots'[k] \in 0 .. Len(heap')
      BY <1>0, <1>4, <2>1, <3>0, SMTT(30)
    <3>q. QED
      BY <1>0, <1>4, <2>1, <3>1, ZenonT(60) DEF TMTypes, TMTypeOK
  <2>3. Grows
    BY <1>0, <1>4, NothingGrows, Zenon
  <2>4. NoUpdateIsLost'
    BY <1>4, <2>1, SMTT(30) DEF TMInv, NoUpdateIsLost, Told
  <2>5. Handlers' /\ ObjectsKept' /\ VersionsRead'
    <3>1. ASSUME NEW s \in Senders, hnd[s].updated # Nil
          PROVE  /\ \A k \in DOMAIN snapshots' : snapshots'[k] # hnd[s].updated
                 /\ \A i \in DOMAIN pending' : pending'[i] # hnd[s].updated
      BY <1>0, <1>4, <2>1, <3>1, SMTT(30) DEF Handlers, Private
    <3>q. QED
      BY <1>4, <2>3, <3>1, SharedStep, ZenonT(60)
  <2>6. MetadataBeforeData' /\ LoopSends' /\ NoEmptyPointer'
    BY <1>4, Zenon DEF TMInv, MetadataBeforeData, LoopSends, NoEmptyPointer, Told
  <2>q. QED
    BY <2>2, <2>4, <2>5, <2>6, Zenon DEF TMInv
<1>q. QED
  BY <1>2, <1>3, <1>4, Zenon DEF GetMeta

(* An accepted update: Java knows it, the snapshot of the type is the      *)
(* entry's, and with the fields of the old one it holds nothing that Java  *)
(* does not know.                                                          *)
LEMMA AcceptEntryKeeps ==
    ASSUME TMInv, NEW t \in Senders, AcceptEntry(t)
    PROVE  TMInv'
<1>0. /\ TMTypes /\ heap \in Seq(Snapshots) /\ Len(heap) \in Nat /\ Handlers
      /\ Len(pending) \in Nat /\ DOMAIN pending = 1 .. Len(pending) /\ entry \in Nat
      /\ DOMAIN snapshots \subseteq Types /\ DOMAIN server \subseteq Types
      /\ \A k \in DOMAIN snapshots : snapshots[k] \in 0 .. Len(heap)
      /\ \A k \in DOMAIN server : server[k] \subseteq Fields
      /\ pending \in Seq(0 .. Len(heap))
  BY TypesMean, Zenon DEF TMInv, TMTypes, TMTypeOK
<1>1. /\ Running /\ tpc[t] = "loop" /\ entry <= Len(pending) /\ pending[entry] # Nil
      /\ entry' = entry + 1
      /\ UNCHANGED <<updater, pendingVer, version, tpc, metaVer, hnd, objects, submitted, sent,
                     refused>>
  BY ZenonT(60) DEF AcceptEntry, InLoop
<1>2. entry \in 1 .. Len(pending)
  BY <1>0, <1>1, SMTT(30) DEF TMInv, LoopSends
<1>3. PICK p : p = pending[entry]
  BY Zenon
<1>4. PICK type : type = heap[p].type
  BY Zenon
<1>5. p \in 1 .. Len(heap) /\ type \in Types /\ heap[p].fields \subseteq Fields /\ heap[p] \in Snapshots
  BY <1>0, <1>1, <1>2, <1>3, <1>4, TypesMean, Zenon
<1>6. PICK old : old = IF snapshots[type] = Nil THEN {} ELSE heap[snapshots[type]].fields
  BY Zenon
<1>7. /\ server' = With(server, type,
                        heap[p].fields \cup (IF type \in DOMAIN server THEN server[type] ELSE {}))
      /\ snapshots' = With(snapshots, type, p)
      /\ \/ type \notin DOMAIN snapshots /\ UNCHANGED <<heap, pending>>
         \/ /\ type \in DOMAIN snapshots
            /\ heap' = [heap EXCEPT ![p].fields = @ \cup old]
            /\ pending' = [pending EXCEPT ![entry] = Nil]
  BY <1>3, <1>4, <1>6, Zenon DEF AcceptEntry, Update
<1>8. /\ DOMAIN snapshots' = DOMAIN snapshots \cup {type} /\ snapshots'[type] = p
      /\ \A k \in DOMAIN snapshots : k # type => snapshots'[k] = snapshots[k]
  BY <1>7, Zenon DEF With
<1>9. /\ DOMAIN server' = DOMAIN server \cup {type} /\ heap[p].fields \subseteq server'[type]
      /\ type \in DOMAIN server => server[type] \subseteq server'[type]
      /\ \A k \in DOMAIN server : k # type => server'[k] = server[k]
      /\ server'[type] \subseteq Fields
  <2>1. /\ DOMAIN server' = DOMAIN server \cup {type}
        /\ \A k \in DOMAIN server : k # type => server'[k] = server[k]
        /\ server'[type] = heap[p].fields \cup (IF type \in DOMAIN server THEN server[type] ELSE {})
    BY <1>7, Zenon DEF With
  <2>q. QED
    BY <1>0, <1>5, <2>1, Zenon
<1>10. \A k \in DOMAIN server : k \in DOMAIN server' /\ server[k] \subseteq server'[k]
  BY <1>9, Zenon
<1>11. type \in DOMAIN snapshots =>
          old \subseteq Fields /\ (type \in DOMAIN server \/ old = {}) /\ old \subseteq server'[type]
  <2>1. CASE type \in DOMAIN snapshots /\ snapshots[type] # Nil
    <3>1. old = heap[snapshots[type]].fields /\ heap[snapshots[type]].type = type
          /\ type \in DOMAIN server /\ old \subseteq server[type]
      BY <1>6, <2>1, Zenon DEF TMInv, NoUpdateIsLost, Told
    <3>q. QED
      BY <1>0, <1>10, <3>1, Zenon
  <2>q. QED
    BY <1>6, <2>1, Zenon
<1>12. /\ heap' \in Seq(Snapshots) /\ Len(heap') = Len(heap)
       /\ \A q \in 1 .. Len(heap) : q # p => heap'[q] = heap[q]
       /\ heap'[p].type = type /\ heap[p].fields \subseteq heap'[p].fields
       /\ heap'[p].fields \subseteq server'[type]
  <2>1. CASE UNCHANGED heap
    BY <1>0, <1>4, <1>9, <2>1, Zenon
  <2>2. CASE type \in DOMAIN snapshots /\ heap' = [heap EXCEPT ![p].fields = @ \cup old]
    <3>1. PICK snap : snap = [heap[p] EXCEPT !.fields = @ \cup old]
      BY Zenon
    <3>2. snap \in Snapshots /\ snap.type = type /\ snap.fields = heap[p].fields \cup old
      BY <1>4, <1>5, <1>11, <2>2, <3>1, Zenon DEF Snapshots
    <3>3. heap' = [heap EXCEPT ![p] = snap]
      BY <2>2, <3>1, Zenon
    <3>4. heap' \in Seq(Snapshots) /\ Len(heap') = Len(heap)
      BY <1>0, <1>5, <3>2, <3>3, SMTT(30)
    <3>5. heap'[p] = snap /\ \A q \in 1 .. Len(heap) : q # p => heap'[q] = heap[q]
      BY <1>0, <1>5, <3>3, SMTT(30)
    <3>q. QED
      BY <1>9, <1>11, <2>2, <3>2, <3>4, <3>5, Zenon
  <2>q. QED
    BY <1>7, <2>1, <2>2, Zenon
<1>13. /\ Len(pending') = Len(pending) /\ DOMAIN pending' = DOMAIN pending
       /\ pending' \in Seq(0 .. Len(heap'))
       /\ \A i \in DOMAIN pending : i # entry => pending'[i] = pending[i]
       /\ pending'[entry] \in {p, Nil}
  <2>1. CASE UNCHANGED pending
    BY <1>0, <1>3, <1>12, <2>1, Zenon
  <2>2. CASE pending' = [pending EXCEPT ![entry] = Nil]
    <3>1. /\ Len(pending') = Len(pending) /\ DOMAIN pending' = DOMAIN pending
          /\ \A i \in DOMAIN pending : i # entry => pending'[i] = pending[i]
          /\ pending'[entry] = Nil
      BY <1>0, <1>2, <2>2, SMTT(30)
    <3>2. pending' \in Seq(0 .. Len(heap))
      <4>1. Nil \in 0 .. Len(heap)
        BY <1>0, SMTT(30)
      <4>q. QED
        BY <1>0, <1>2, <2>2, <4>1, SMTT(30)
    <3>q. QED
      BY <1>12, <3>1, <3>2, Zenon
  <2>q. QED
    BY <1>7, <2>1, <2>2, Zenon
<1>14. TMTypes'
  <2>1. \A k \in DOMAIN snapshots' : snapshots'[k] \in 0 .. Len(heap')
    BY <1>0, <1>5, <1>8, <1>12, SMTT(30)
  <2>2. DOMAIN snapshots' \subseteq Types /\ DOMAIN server' \subseteq Types
    BY <1>0, <1>5, <1>8, <1>9, Zenon
  <2>3. TMTypeOK'
    BY <1>0, <1>1, <1>12, <1>13, <2>1, <2>2, Zenon DEF TMTypes, TMTypeOK
  <2>4. \A k \in DOMAIN server' : server'[k] \subseteq Fields
    BY <1>0, <1>9, Zenon
  <2>q. QED
    BY <1>0, <1>1, <1>12, <2>3, <2>4, SMTT(30) DEF TMTypes
<1>15. Grows
  <2>1. ASSUME NEW q \in 1 .. Len(heap)
        PROVE  /\ heap'[q].type = heap[q].type /\ heap[q].fields \subseteq heap'[q].fields
               /\ \A f \in heap'[q].fields :
                     \/ f \in heap[q].fields \/ Knows(heap[q].type, f)'
                     \/ \E s \in Senders : q = hnd[s].updated
    <3>1. CASE q # p
      BY <1>12, <3>1, Zenon
    <3>2. CASE q = p
      BY <1>4, <1>9, <1>12, <3>2, Zenon DEF Knows
    <3>q. QED
      BY <3>1, <3>2, Zenon
  <2>2. ASSUME NEW i \in DOMAIN pending, pending[i] # Nil
        PROVE  \/ \E j \in DOMAIN pending' : pending'[j] = pending[i]
               \/ /\ heap'[pending[i]].type \in DOMAIN server'
                  /\ heap'[pending[i]].fields \subseteq server'[heap'[pending[i]].type]
    <3>1. CASE i = entry
      BY <1>3, <1>9, <1>12, <3>1, Zenon
    <3>2. CASE i # entry
      BY <1>13, <3>2, Zenon
    <3>q. QED
      BY <3>1, <3>2, Zenon
  <2>3. Len(heap) \in Nat /\ Len(heap') \in Nat /\ Len(heap) <= Len(heap')
    BY <1>0, <1>12, SMTT(30)
  <2>q. QED
    BY <1>10, <2>1, <2>2, <2>3, Zenon DEF Grows
<1>16. NoUpdateIsLost'
  <2>1. \A v \in submitted' :
          \/ Told(v)'
          \/ \E i \in DOMAIN pending' :
                /\ pending'[i] # Nil
                /\ heap'[pending'[i]].type = v.type /\ v.fields \subseteq heap'[pending'[i]].fields
    BY <1>1, <1>15, SubmittedStay, Zenon
  <2>2. ASSUME NEW k \in DOMAIN snapshots', snapshots'[k] # Nil
        PROVE  heap'[snapshots'[k]].type = k /\ Told(heap[snapshots[k]])'
    <3>1. CASE k = type
      BY <1>8, <1>9, <1>12, <3>1, Zenon DEF Told
    <3>2. CASE k # type
      <4>1. k \in DOMAIN snapshots /\ snapshots'[k] = snapshots[k]
        BY <1>8, <3>2, Zenon
      <4>2. /\ heap'[snapshots[k]].type = k /\ k \in DOMAIN server'
            /\ heap'[snapshots[k]].fields \subseteq server'[k]
        BY <1>15, <2>2, <4>1, SnapshotStays, Zenon
      <4>q. QED
        BY <4>1, <4>2, Zenon DEF Told
    <3>q. QED
      BY <3>1, <3>2, Zenon
  <2>3. version' # pendingVer'
    <3>1. pending # <<>>
      BY <1>0, <1>2, SMTT(30)
    <3>q. QED
      BY <1>1, <3>1, Zenon DEF TMInv, NoUpdateIsLost
  <2>q. QED
    BY <2>1, <2>2, <2>3, Zenon DEF NoUpdateIsLost
<1>17. Handlers' /\ ObjectsKept' /\ VersionsRead'
  <2>1. ASSUME NEW s \in Senders, hnd[s].updated # Nil
        PROVE  /\ \A k \in DOMAIN snapshots' : snapshots'[k] # hnd[s].updated
               /\ \A i \in DOMAIN pending' : pending'[i] # hnd[s].updated
    <3>1. /\ \A k \in DOMAIN snapshots : snapshots[k] # hnd[s].updated
          /\ \A i \in DOMAIN pending : pending[i] # hnd[s].updated
      BY <1>0, <2>1, Zenon DEF Handlers, Private
    <3>2. p # hnd[s].updated
      BY <1>0, <1>2, <1>3, <3>1, Zenon
    <3>q. QED
      BY <1>8, <1>13, <2>1, <3>1, <3>2, Zenon
  <2>q. QED
    BY <1>1, <1>15, <2>1, SharedStep, Zenon
<1>18. MetadataBeforeData'
  BY <1>1, <1>10, Zenon DEF TMInv, MetadataBeforeData, Told
<1>19. LoopSends'
  <2>1. /\ \A j \in 1 .. entry - 1 : pending[j] = Nil \/ Told(heap[pending[j]])
        /\ \A s \in Senders : tpc[s] = "loop" => s = t
    BY <1>1, Zenon DEF TMInv, LoopSends
  <2>2. entry' \in 1 .. Len(pending') + 1
    BY <1>0, <1>1, <1>2, <1>13, SMTT(30)
  <2>3. ASSUME NEW j \in 1 .. entry' - 1
        PROVE  pending'[j] = Nil \/ Told(heap[pending[j]])'
    <3>1. j = entry \/ (j \in 1 .. entry - 1 /\ j \in DOMAIN pending /\ j # entry)
      BY <1>0, <1>1, <1>2, SMTT(30)
    <3>2. CASE j = entry
      BY <1>9, <1>12, <1>13, <3>2, Zenon DEF Told
    <3>3. CASE j \in 1 .. entry - 1 /\ j \in DOMAIN pending /\ j # entry
      <4>1. pending'[j] = pending[j]
        BY <1>13, <3>3, Zenon
      <4>2. CASE pending[j] = Nil
        BY <4>1, <4>2, Zenon
      <4>3. CASE pending[j] # Nil /\ pending[j] # p
        <5>1. pending[j] \in 1 .. Len(heap)
          BY <1>0, <3>3, <4>3, TypesMean, Zenon
        <5>2. heap'[pending[j]] = heap[pending[j]] /\ Told(heap[pending[j]])
          BY <1>12, <2>1, <3>3, <4>3, <5>1, Zenon
        <5>q. QED
          BY <1>10, <4>1, <5>2, Zenon DEF Told
      <4>4. CASE pending[j] = p
        BY <1>9, <1>12, <4>1, <4>4, Zenon DEF Told
      <4>q. QED
        BY <4>2, <4>3, <4>4, Zenon
    <3>q. QED
      BY <3>1, <3>2, <3>3, Zenon
  <2>q. QED
    BY <1>1, <2>1, <2>2, <2>3, Zenon DEF LoopSends
<1>20. NoEmptyPointer'
  <2>1. p # Nil
    BY <1>1, <1>3, Zenon
  <2>2. SUFFICES ASSUME ~refused
                 PROVE  /\ Running'
                        /\ \A k \in DOMAIN snapshots' : snapshots'[k] # Nil
                        /\ \A s \in Senders : tpc'[s] = "object" => hnd'[s].origin # Nil
                        /\ \A j \in DOMAIN pending' : pending'[j] = Nil => Locked' /\ j < entry'
    BY <1>1, Zenon DEF NoEmptyPointer
  <2>3. Running' /\ Locked'
    BY <1>1, Zenon DEF Running, Locked
  <2>4. \A k \in DOMAIN snapshots' : snapshots'[k] # Nil
    BY <1>8, <2>1, <2>2, Zenon DEF TMInv, NoEmptyPointer
  <2>5. \A s \in Senders : tpc'[s] = "object" => hnd'[s].origin # Nil
    BY <1>1, <2>2, Zenon DEF TMInv, NoEmptyPointer
  <2>6. ASSUME NEW j \in DOMAIN pending', pending'[j] = Nil
        PROVE  j < entry'
    <3>1. j \in DOMAIN pending /\ j \in Nat
      BY <1>0, <1>13, SMTT(30)
    <3>2. CASE j = entry
      BY <1>0, <1>1, <3>2, SMTT(30)
    <3>3. CASE j # entry
      <4>1. j < entry
        BY <1>13, <2>2, <2>6, <3>1, <3>3, Zenon DEF TMInv, NoEmptyPointer
      <4>q. QED
        BY <1>0, <1>1, <3>1, <4>1, SMTT(30)
    <3>q. QED
      BY <3>2, <3>3, Zenon
  <2>q. QED
    BY <2>3, <2>4, <2>5, <2>6, Zenon
<1>q. QED
  BY <1>14, <1>16, <1>17, <1>18, <1>19, <1>20, Zenon DEF TMInv

(* Whatever threads write objects of whatever types, and whatever Java     *)
(* refuses: Java is told of every field before it gets an object with it   *)
(* (InteropTarget::WriteTo), no submitted update is lost                   *)
(* (BinaryTypeManager::ProcessPendingUpdates), and an empty snapshot is    *)
(* dereferenced only after Java refused an update or did not know a type.  *)
THEOREM MetadataKept == TMSpec => []MetadataIsKept
<1>1. TMInit => TMInv
  <2>1. SUFFICES ASSUME TMInit
                 PROVE  TMInv
    BY Zenon
  <2>2. /\ heap = <<>> /\ snapshots = <<>> /\ pending = <<>> /\ updater = FALSE
        /\ pendingVer = 0 /\ version = 0 /\ entry = 0
        /\ tpc = [t \in Senders |-> "idle"] /\ metaVer = [t \in Senders |-> 0]
        /\ hnd = [t \in Senders |-> Handler(Nil, Nil)] /\ objects = [t \in Senders |-> {}]
        /\ submitted = {} /\ sent = {} /\ refused = FALSE
    BY <2>1, Zenon DEF TMInit
  <2>3. PICK known \in SUBSET Types : server \in [known -> SUBSET Fields]
    BY <2>1, Zenon DEF TMInit
  <2>4. \A t \in Senders : /\ tpc[t] = "idle" /\ hnd[t] = Handler(Nil, Nil) /\ objects[t] = {}
                           /\ hnd[t].origin = Nil /\ hnd[t].updated = Nil
    BY <2>2, Zenon DEF Handler
  <2>5. TMTypes
    <3>1. Len(heap) = 0 /\ heap \in Seq(Snapshots) /\ pending \in Seq(0 .. Len(heap))
      BY <2>2, SMTT(30)
    <3>2. DOMAIN snapshots = {}
      BY <2>2, SMTT(30)
    <3>3. TMTypeOK
      BY <2>2, <2>3, <3>1, <3>2, SMTT(30) DEF TMTypeOK
    <3>4. Handler(Nil, Nil) \in [type : Types \cup {Nil}, origin : Int, updated : Nat,
                                   written : SUBSET Fields]
      BY SMTT(30) DEF Handler
    <3>5. /\ metaVer \in [Senders -> Nat] /\ objects \in [Senders -> SUBSET Snapshots]
          /\ hnd \in [Senders -> [type : Types \cup {Nil}, origin : Int, updated : Nat,
                                  written : SUBSET Fields]]
      BY <2>2, <3>4, Zenon
    <3>6. \A t \in Senders : hnd[t].origin \in -1 .. Len(heap) /\ hnd[t].updated \in 0 .. Len(heap)
      BY <2>4, <3>1, SMTT(30)
    <3>q. QED
      BY <2>2, <2>3, <3>3, <3>5, <3>6, Zenon DEF TMTypes
  <2>6. MetadataBeforeData /\ NoUpdateIsLost
    BY <2>2, SMTT(30) DEF MetadataBeforeData, NoUpdateIsLost
  <2>7. Handlers /\ ObjectsKept /\ VersionsRead
    BY <2>2, <2>4, Zenon DEF Handlers, Private, ObjectsKept, VersionsRead
  <2>8. LoopSends /\ NoEmptyPointer
    BY <2>2, <2>4, SMTT(30) DEF LoopSends, NoEmptyPointer, Running
  <2>q. QED
    BY <2>5, <2>6, <2>7, <2>8, Zenon DEF TMInv
<1>2. TMInv /\ [TMNext]_tmVars => TMInv'
  <2>1. SUFFICES ASSUME TMInv, [TMNext]_tmVars
                 PROVE  TMInv'
    BY Zenon
  <2>2. CASE SetUpdater
    BY <2>1, <2>2, SetUpdaterKeeps, Zenon
  <2>3. ASSUME NEW t \in Senders,
               \/ WriteTo(t) \/ SubmitHandler(t) \/ Written(t) \/ ProcessPendingUpdates(t)
               \/ SkipEntry(t) \/ RefuseEntry(t) \/ AcceptEntry(t) \/ EndLoop(t) \/ Send(t)
        PROVE  TMInv'
    BY <2>1, <2>3, WriteToKeeps, SubmitHandlerKeeps, WrittenKeeps, ProcessPendingUpdatesKeeps,
       SkipEntryKeeps, RefuseEntryKeeps, AcceptEntryKeeps, EndLoopKeeps, SendKeeps, Zenon
  <2>4. ASSUME NEW t \in Senders, NEW type \in Types, GetHandler(t, type) \/ GetMeta(t, type)
        PROVE  TMInv'
    BY <2>1, <2>4, GetHandlerKeeps, GetMetaKeeps, Zenon
  <2>5. ASSUME NEW t \in Senders, NEW f \in Fields, OnFieldWritten(t, f)
        PROVE  TMInv'
    BY <2>1, <2>5, OnFieldWrittenKeeps, Zenon
  <2>6. CASE UNCHANGED tmVars
    <3>1. UNCHANGED <<heap, snapshots, pending, updater, pendingVer, version, server, tpc, metaVer,
                      hnd, entry, objects, submitted, sent, refused>>
      BY <2>6, Zenon DEF tmVars
    <3>2. TMTypes'
      BY <2>1, <3>1, Zenon DEF TMInv, TMTypes, TMTypeOK
    <3>q. QED
      BY <2>1, <3>1, <3>2, RestKeeps, Zenon
  <2>q. QED
    BY <2>1, <2>2, <2>3, <2>4, <2>5, <2>6, Zenon DEF TMNext
<1>3. TMInv => MetadataIsKept
  BY Zenon DEF TMInv, TMTypes, MetadataIsKept, CrashNeedsARefusal, NoEmptyPointer
<1>q. QED
  BY <1>1, <1>2, <1>3, PTL DEF TMSpec
=============================================================================
