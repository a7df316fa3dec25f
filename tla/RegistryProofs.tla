--------------------------- MODULE RegistryProofs ---------------------------
(***************************************************************************)
(* HandleRegistry, for any number of threads, slots and segments.          *)
(***************************************************************************)
EXTENDS HandleRegistry, TLAPS

RegistryAssumption ==
    /\ IsFiniteSet(Threads) /\ Threads # {} /\ Null \notin Targets
    /\ FastCap \in Nat /\ SlowSegmentCnt \in Nat \ {0} /\ MaxAllocs \in Nat

FastOwner == {"storeFast", "recheckFast"}
SlowOwner == {"putSlow", "recheckSlow"}

(* The slots and the slow handles that were given out lie below the        *)
(* counters, and a thread that clears the registry has closed it.          *)
RegistryControl ==
    /\ TypeOK /\ HandlesAreUnique
    /\ slowCtr >= FastCap
    /\ \A t \in Threads :
          /\ pc[t] \in AllocLabels => call[t].target \in Targets
          /\ pc[t] \in FastOwner => call[t].idx \in Slots /\ call[t].idx < fastCtr
          /\ pc[t] \in SlowOwner => call[t].idx \in FastCap .. slowCtr - 1
          /\ pc[t] = "clearFast" => call[t].idx \in 0 .. FastCap /\ closed = 1
          /\ pc[t] = "clearSlow" => call[t].idx \in 0 .. SlowSegmentCnt /\ closed = 1
    /\ \A h \in held :
          \/ h.handle \in Slots /\ h.handle < fastCtr
          \/ h.handle \in FastCap .. slowCtr - 1

(* The stores in a buffer. *)
Elements(s) == {s[k] : k \in 1 .. Len(s)}

Stores(t) == Elements(buffer[t])

(* Slot i has, or will have when the buffers are drained, value v. *)
Holds(memory, buffers, i, v) ==
    /\ \A u \in Threads : \A store \in Elements(buffers[u]) : store[1] = i => store[2] = v
    /\ memory[i] = v \/ \E u \in Threads : \E store \in Elements(buffers[u]) : store[1] = i

(* While the registry is open nothing was stored to a slot that is not     *)
(* given out, and what a thread was given is where it put it.              *)
RegistryOpen ==
    closed = 0 =>
        /\ \A u \in Threads : \A store \in Stores(u) :
              /\ store[1] < fastCtr
              /\ \A t \in Threads : pc[t] = "storeFast" => call[t].idx # store[1]
        /\ \A t \in Threads :
              /\ pc[t] = "recheckFast" => Holds(fast, buffer, call[t].idx, call[t].target)
              /\ pc[t] = "recheckSlow" =>
                    <<call[t].idx, call[t].target>> \in slow[Segment(call[t].idx)]
        /\ \A h \in held :
              IF h.handle < FastCap
              THEN Holds(fast, buffer, h.handle, h.target)
              ELSE <<h.handle, h.target>> \in slow[Segment(h.handle)]

(* Close has yet to come to a slot, or to a segment. *)
SlotToClear(i) == \E u \in Threads : pc[u] = "clearFast" /\ call[u].idx <= i

SegmentToClear(s) ==
    \E u \in Threads : pc[u] = "clearFast" \/ (pc[u] = "clearSlow" /\ call[u].idx <= s)

(* Why an entry is in its segment: its allocation is about to look at      *)
(* closed again, or its handle is held and, if it is safe, Close will      *)
(* still come to it.                                                       *)
SlowEntries ==
    \A s \in 0 .. SlowSegmentCnt - 1 : \A e \in slow[s] :
        /\ e[1] \in FastCap .. slowCtr - 1 /\ Segment(e[1]) = s
        /\ \/ \E t \in Threads :
                 pc[t] = "recheckSlow" /\ call[t].idx = e[1] /\ call[t].target = e[2]
           \/ \E h \in held :
                 /\ h.handle = e[1] /\ h.target = e[2]
                 /\ ~h.safe \/ closed = 0 \/ SegmentToClear(s)

(* The same of a slot, which may also be about to be overwritten.  With a  *)
(* fence of the processor a target is on its way to a slot only until its  *)
(* allocation looks at closed again.                                       *)
FastSlots ==
    /\ \A u \in Threads : \A store \in Stores(u) : store[2] # Null =>
          pc[u] = "recheckFast" /\ call[u].idx = store[1] /\ call[u].target = store[2]
    /\ \A i \in Slots : fast[i] # Null =>
          \/ \E t \in Threads :
                pc[t] = "recheckFast" /\ call[t].idx = i /\ call[t].target = fast[i]
          \/ \E h \in held :
                /\ h.handle = i /\ h.target = fast[i]
                /\ ~h.safe \/ closed = 0 \/ SlotToClear(i)
          \/ \E u \in Threads : <<i, Null>> \in Stores(u)

RegistryInv ==
    RegistryControl /\ RegistryOpen /\ SlowEntries
    /\ (FullFence => FastSlots)
-----------------------------------------------------------------------------
(* What a buffer holds after a store, and before its oldest one drains. *)
LEMMA AppendElements ==
    ASSUME NEW S, NEW s \in Seq(S), NEW x \in S
    PROVE  Append(s, x) \in Seq(S) /\ Elements(Append(s, x)) = Elements(s) \cup {x}
BY SMTT(30) DEF Elements

LEMMA HeadElements ==
    ASSUME NEW S, NEW s \in Seq(S), s # <<>>
    PROVE  /\ Head(s) \in S /\ Tail(s) \in Seq(S)
           /\ Elements(s) = {Head(s)} \cup Elements(Tail(s))
<1>1. Len(s) \in Nat \ {0} /\ Head(s) = s[1] /\ Tail(s) \in Seq(S)
      /\ Len(Tail(s)) = Len(s) - 1 /\ \A k \in 1 .. Len(s) - 1 : Tail(s)[k] = s[k + 1]
  BY SMTT(30)
<1>2. ASSUME NEW x \in Elements(s) PROVE x = Head(s) \/ x \in Elements(Tail(s))
  <2>1. PICK k \in 1 .. Len(s) : x = s[k]
    BY <1>2, Zenon DEF Elements
  <2>2. CASE k = 1
    BY <1>1, <2>1, <2>2, Zenon
  <2>3. CASE k # 1
    <3>1. k - 1 \in 1 .. Len(Tail(s)) /\ Tail(s)[k - 1] = s[k]
      BY <1>1, <2>1, <2>3, SMTT(30)
    <3> QED
      BY <2>1, <3>1, Zenon DEF Elements
  <2> QED
    BY <2>2, <2>3, Zenon
<1>3. ASSUME NEW x \in Elements(Tail(s)) PROVE x \in Elements(s)
  <2>1. PICK k \in 1 .. Len(Tail(s)) : x = Tail(s)[k]
    BY <1>3, Zenon DEF Elements
  <2>2. k + 1 \in 1 .. Len(s) /\ x = s[k + 1]
    BY <1>1, <2>1, SMTT(30)
  <2> QED
    BY <2>2, Zenon DEF Elements
<1>4. Head(s) \in Elements(s) /\ Head(s) \in S
  <2>1. 1 \in 1 .. Len(s)
    BY <1>1, SMTT(30)
  <2> QED
    BY <1>1, <2>1, SMTT(30) DEF Elements
<1> QED
  BY <1>1, <1>2, <1>3, <1>4, Zenon

LEMMA Wider ==
    ASSUME NEW a \in Nat, NEW b \in Nat, NEW c \in Nat, c >= b, NEW k \in a .. b - 1
    PROVE  k \in a .. c - 1 /\ k \in Nat
BY SMTT(30)

LEMMA SameCount == \A n \in Nat : n >= n
BY SMTT(30)

LEMMA SegmentType ==
    RegistryAssumption => \A k \in Nat : Segment(k) \in 0 .. SlowSegmentCnt - 1
BY SMTT(30) DEF Segment, RegistryAssumption

LEMMA NoElements == Elements(<<>>) = {}
BY SMTT(30) DEF Elements

LEMMA RegistryInitially == RegistryAssumption /\ Init => RegistryInv
<1> SUFFICES ASSUME RegistryAssumption, Init PROVE RegistryInv
  BY Zenon
<1> USE DEF RegistryAssumption, Init
<1>1. RegistryControl
  <2>1. TypeOK
    BY SMTT(30) DEF TypeOK, Slots, Idle, AllocLabels
  <2> QED
    BY <2>1, SMTT(30) DEF RegistryControl, HandlesAreUnique, AllocLabels, FastOwner, SlowOwner
<1>2. \A t \in Threads : Stores(t) = {}
  BY NoElements, Zenon DEF Stores
<1>3. RegistryOpen
  BY <1>2, Zenon DEF RegistryOpen
<1>4. SlowEntries
  BY Zenon DEF SlowEntries
<1>5. FastSlots
  BY <1>2, Zenon DEF FastSlots
<1> QED
  BY <1>1, <1>3, <1>4, <1>5, Zenon DEF RegistryInv

(* The properties follow from the invariant. *)
LEMMA RegistryInvImplies ==
    ASSUME RegistryAssumption, RegistryInv
    PROVE  /\ TypeOK /\ HandlesAreUnique /\ HeldIsFound
           /\ FullFence => LeftoversAreUnsafe
<1>1. TypeOK /\ HandlesAreUnique
  BY Zenon DEF RegistryInv, RegistryControl
<1>2. ASSUME closed = 0, \A t \in Threads : Drained(t),
             NEW h \in held, NEW t \in Threads
      PROVE  Get(t, h.handle) = h.target
  <2>1. h.handle \in Nat /\ FastCap \in Nat
    BY <1>1, Zenon DEF TypeOK, RegistryAssumption
  <2>2. CASE h.handle < FastCap
    <3>1. \A u \in Threads : Stores(u) = {}
      BY <1>2, NoElements, Zenon DEF Stores, Drained
    <3>2. fast[h.handle] = h.target
      BY <1>2, <2>2, <3>1, Zenon DEF RegistryInv, RegistryOpen, Holds, Stores
    <3>3. DOMAIN buffer[t] = {}
      BY <1>2, SMTT(30) DEF Drained
    <3> QED
      BY <2>2, <3>2, <3>3, Zenon DEF Get, Load
  <2>3. CASE ~(h.handle < FastCap)
    <3> DEFINE S == slow[Segment(h.handle)]
    <3>1. <<h.handle, h.target>> \in S
      BY <1>2, <2>3, Zenon DEF RegistryInv, RegistryOpen
    <3>2. Segment(h.handle) \in 0 .. SlowSegmentCnt - 1
      BY <2>1, SMTT(30) DEF Segment, RegistryAssumption
    <3>3. ASSUME NEW e \in S, e[1] = h.handle PROVE e[2] = h.target
      <4>1. CASE \E u \in Threads :
                    pc[u] = "recheckSlow" /\ call[u].idx = e[1] /\ call[u].target = e[2]
        BY <1>1, <3>3, <4>1, Zenon DEF HandlesAreUnique
      <4>2. CASE \E g \in held : g.handle = e[1] /\ g.target = e[2]
        BY <1>1, <3>3, <4>2, Zenon DEF HandlesAreUnique
      <4> QED
        BY <3>2, <3>3, <4>1, <4>2, Zenon DEF RegistryInv, SlowEntries
    <3> HIDE DEF S
    <3> DEFINE found == {e \in S : e[1] = h.handle}
    <3>4. <<h.handle, h.target>> \in found /\ \A e \in found : e[2] = h.target
      BY <3>1, <3>3, Zenon
    <3>5. found # {} /\ (CHOOSE e \in found : TRUE) \in found
      BY <3>4, Zenon
    <3>6. Get(t, h.handle) = IF found = {} THEN Null ELSE (CHOOSE e \in found : TRUE)[2]
      BY <2>3, Zenon DEF Get, S
    <3> HIDE DEF found
    <3> QED
      BY <3>4, <3>5, <3>6, Zenon
  <2> QED
    BY <2>2, <2>3, Zenon
<1>3. HeldIsFound
  BY <1>2, Zenon DEF HeldIsFound
<1>4. ASSUME FullFence, closed = 1, Quiet PROVE LeftoversAreUnsafe
  <2>1. \A u \in Threads : Stores(u) = {} /\ pc[u] = "idle"
    BY <1>4, NoElements, Zenon DEF Quiet, Stores, Drained
  <2>2. ASSUME NEW i \in Slots, fast[i] # Null
        PROVE  \E h \in held : h.handle = i /\ h.target = fast[i] /\ ~h.safe
    <3>1. FastSlots
      BY <1>4, Zenon DEF RegistryInv
    <3>2. \/ \E t \in Threads :
                pc[t] = "recheckFast" /\ call[t].idx = i /\ call[t].target = fast[i]
          \/ \E h \in held :
                /\ h.handle = i /\ h.target = fast[i]
                /\ ~h.safe \/ closed = 0 \/ SlotToClear(i)
          \/ \E u \in Threads : <<i, Null>> \in Stores(u)
      BY <2>2, <3>1, Zenon DEF FastSlots
    <3> QED
      BY <1>4, <2>1, <3>2, SMTT(30) DEF SlotToClear
  <2>3. ASSUME NEW s \in DOMAIN slow, NEW e \in slow[s]
        PROVE  \E h \in held : h.handle = e[1] /\ h.target = e[2] /\ ~h.safe
    <3>1. s \in 0 .. SlowSegmentCnt - 1
      BY <1>1, Zenon DEF TypeOK
    <3> QED
      BY <1>4, <2>1, <2>3, <3>1, SMTT(30) DEF RegistryInv, SlowEntries, SegmentToClear
  <2> QED
    BY <2>2, <2>3, Zenon DEF LeftoversAreUnsafe
<1>5. FullFence => LeftoversAreUnsafe
  BY <1>4, Zenon DEF LeftoversAreUnsafe
<1> QED
  BY <1>1, <1>3, <1>5, Zenon

(* A call's record. *)
Calls == [op : {"idle", "alloc", "close"}, idx : Int, target : Targets \cup {Null},
          critical : BOOLEAN, safe : BOOLEAN]

LEMMA CallTypes ==
    ASSUME TypeOK, NEW t \in Threads
    PROVE  /\ Idle \in Calls /\ Idle.idx = -1
           /\ call[t] \in Calls /\ call[t].idx \in Int /\ call[t].target \in Targets \cup {Null}
           /\ call[t].safe \in BOOLEAN /\ call[t].critical \in BOOLEAN
           /\ DOMAIN call = Threads /\ DOMAIN pc = Threads
BY SMTT(30) DEF TypeOK, Calls, Idle

LEMMA ReturnDoes ==
    ASSUME TypeOK, NEW t \in Threads, Return(t)
    PROVE  /\ call' \in [Threads -> Calls] /\ pc'[t] = "idle"
           /\ \A u \in Threads : u # t => call'[u] = call[u] /\ pc'[u] = pc[u]
           /\ pc' \in [Threads -> AllocLabels \cup {"idle", "clearFast", "clearSlow"}]
<1>1. Idle \in Calls /\ call \in [Threads -> Calls]
  BY CallTypes, Zenon DEF TypeOK, Calls
<1>2. call' = [call EXCEPT ![t] = Idle] /\ pc' = [pc EXCEPT ![t] = "idle"]
  BY Zenon DEF Return, Goto
<1> QED
  BY <1>1, <1>2, Zenon DEF TypeOK

(* A call whose idx changes. *)
LEMMA IdxDoes ==
    ASSUME TypeOK, NEW t \in Threads, NEW x \in Int, call' = [call EXCEPT ![t].idx = x]
    PROVE  /\ call' \in [Threads -> Calls]
           /\ call'[t].idx = x /\ call'[t].target = call[t].target
           /\ call'[t].safe = call[t].safe
           /\ \A u \in Threads : u # t => call'[u] = call[u]
<1>1. call \in [Threads -> Calls]
  BY Zenon DEF TypeOK, Calls
<1>2. [call[t] EXCEPT !.idx = x] \in Calls
  BY <1>1, Zenon DEF Calls
<1>3. call' = [call EXCEPT ![t] = [call[t] EXCEPT !.idx = x]]
  BY <1>1, Zenon
<1>4. call'[t] = [call[t] EXCEPT !.idx = x]
  BY <1>1, <1>3, Zenon
<1> QED
  BY <1>1, <1>2, <1>3, <1>4, ZenonT(60) DEF Calls

(* A step after which no thread has an index, and no handle is held, that  *)
(* was not so before, except thread t, keeps the handles apart.            *)
LEMMA ControlStep ==
    ASSUME RegistryControl, NEW t \in Threads, TypeOK',
           fastCtr' >= fastCtr, slowCtr' >= slowCtr, closed' >= closed,
           \A u \in Threads : u # t => pc'[u] = pc[u] /\ call'[u] = call[u],
           held' \subseteq held \cup {Granted(t)},
           Granted(t) \in held' => Granted(t) \in held \/ pc[t] \in {"recheckFast", "recheckSlow"},
           \/ pc'[t] \in {"idle", "checkClosed", "checkFast", "takeFast", "takeSlow",
                          "clearFast", "clearSlow"}
           \/ /\ pc[t] \in FastOwner \cup SlowOwner /\ call'[t] = call[t] /\ held' = held
              /\ pc[t] \in FastOwner <=> pc'[t] \in FastOwner
           \/ /\ held' = held /\ pc'[t] = "storeFast" /\ fastCtr < FastCap
              /\ call'[t].idx = fastCtr /\ fastCtr' = fastCtr + 1
           \/ /\ held' = held /\ pc'[t] = "putSlow"
              /\ call'[t].idx = slowCtr /\ slowCtr' = slowCtr + 1,
           pc'[t] \in AllocLabels => call'[t].target \in Targets,
           pc'[t] = "clearFast" => call'[t].idx \in 0 .. FastCap /\ closed' = 1,
           pc'[t] = "clearSlow" => call'[t].idx \in 0 .. SlowSegmentCnt /\ closed' = 1,
           RegistryAssumption
    PROVE  RegistryControl'
<1>1. TypeOK /\ closed \in {0, 1} /\ closed' \in {0, 1} /\ FastCap \in Nat
      /\ fastCtr \in Nat /\ fastCtr' \in Nat /\ slowCtr \in Nat /\ slowCtr' \in Nat
  BY Zenon DEF RegistryControl, TypeOK, RegistryAssumption
<1>2. \A u \in Threads :
          /\ pc'[u] \in AllocLabels => call'[u].target \in Targets
          /\ pc'[u] = "clearFast" => call'[u].idx \in 0 .. FastCap /\ closed' = 1
          /\ pc'[u] = "clearSlow" => call'[u].idx \in 0 .. SlowSegmentCnt /\ closed' = 1
  BY <1>1, SMTT(30) DEF RegistryControl
<1>3. \A u \in Threads :
          /\ pc'[u] \in FastOwner => call'[u].idx \in Slots /\ call'[u].idx < fastCtr'
          /\ pc'[u] \in SlowOwner => call'[u].idx \in FastCap .. slowCtr' - 1
  BY <1>1, SMTT(30) DEF RegistryControl, FastOwner, SlowOwner, Slots
<1>4. \A h \in held' :
          \/ h.handle \in Slots /\ h.handle < fastCtr'
          \/ h.handle \in FastCap .. slowCtr' - 1
  BY <1>1, SMTT(30) DEF RegistryControl, FastOwner, SlowOwner, Granted, Slots
<1>5. HandlesAreUnique'
  BY <1>1, SMTT(30) DEF RegistryControl, HandlesAreUnique, FastOwner, SlowOwner, Granted, Slots
<1> QED
  BY <1>1, <1>2, <1>3, <1>4, <1>5, SMTT(30) DEF RegistryControl

(* Only thread t moves. *)
Moves(t) == \A u \in Threads : u # t => pc'[u] = pc[u] /\ call'[u] = call[u]

LEMMA AllocateControl ==
    ASSUME RegistryAssumption, RegistryControl, NEW t \in Threads,
           NEW v \in Targets, NEW critical \in BOOLEAN, NEW safe \in BOOLEAN,
           Allocate(t, v, critical, safe)
    PROVE  RegistryControl' /\ Moves(t) /\ pc[t] = "idle" /\ pc'[t] = "checkClosed"
<1>1. TypeOK /\ pc[t] = "idle"
  BY Zenon DEF RegistryControl, Allocate
<1> DEFINE new == [op |-> "alloc", idx |-> -1, target |-> v, critical |-> critical, safe |-> safe]
<1>2. new \in Calls /\ new.target = v
  BY SMTT(30) DEF Calls
<1>3. call' = [call EXCEPT ![t] = new] /\ pc' = [pc EXCEPT ![t] = "checkClosed"]
      /\ UNCHANGED <<closed, fastCtr, fast, slowCtr, slow, buffer, held>>
      /\ allocs < MaxAllocs /\ allocs' = allocs + 1
  BY Zenon DEF Allocate, Goto
<1> HIDE DEF new
<1>4. Moves(t) /\ pc'[t] = "checkClosed" /\ call'[t].target = v /\ call' \in [Threads -> Calls]
      /\ pc' \in [Threads -> AllocLabels \cup {"idle", "clearFast", "clearSlow"}]
  BY <1>1, <1>2, <1>3, Zenon DEF TypeOK, Calls, Moves, AllocLabels
<1>5. allocs' \in 0 .. MaxAllocs
  BY <1>1, <1>3, SMTT(30) DEF TypeOK, RegistryAssumption
<1>6. TypeOK'
  BY <1>1, <1>3, <1>4, <1>5, Zenon DEF TypeOK, Calls
<1>7. closed' >= closed /\ fastCtr' >= fastCtr /\ slowCtr' >= slowCtr
  BY <1>1, <1>3, SMTT(30) DEF TypeOK
<1> QED
  BY <1>1, <1>3, <1>4, <1>6, <1>7, ControlStep, Zenon DEF Moves, AllocLabels

LEMMA ReleaseControl ==
    ASSUME RegistryAssumption, RegistryControl, NEW t \in Threads, NEW h \in held, Release(t, h)
    PROVE  RegistryControl'
<1>1. TypeOK /\ h.handle \in Nat /\ (h.handle < FastCap => h.handle \in Slots)
  BY SMTT(60) DEF RegistryControl, Slots, TypeOK, RegistryAssumption
<1>2. UNCHANGED <<closed, fastCtr, fast, slowCtr, pc, call, allocs>> /\ held' \subseteq held
      /\ pc[t] = "idle"
  BY Zenon DEF Release
<1>3. buffer' \in [Threads -> Seq(Slots \X (Targets \cup {Null}))]
  <2>1. <<h.handle, Null>> \in Slots \X (Targets \cup {Null}) \/ h.handle >= FastCap
    BY <1>1, SMTT(30) DEF RegistryAssumption
  <2> QED
    <3>1. CASE h.handle < FastCap /\ Store(t, h.handle, Null)
      BY <1>1, <2>1, <3>1, AppendElements, Zenon DEF Store, TypeOK, RegistryAssumption
    <3>2. CASE UNCHANGED buffer
      BY <1>1, <3>2, Zenon DEF TypeOK
    <3> QED
      BY <3>1, <3>2, Zenon DEF Release
<1>4. slow' \in [0 .. SlowSegmentCnt - 1 -> SUBSET (Nat \X Targets)]
  <2>1. Segment(h.handle) \in 0 .. SlowSegmentCnt - 1
    BY <1>1, SMTT(30) DEF Segment, RegistryAssumption
  <2> QED
    <3>1. CASE Remove(h.handle)
      BY <1>1, <2>1, <3>1, Zenon DEF Remove, TypeOK
    <3>2. CASE UNCHANGED slow
      BY <1>1, <3>2, Zenon DEF TypeOK
    <3> QED
      BY <3>1, <3>2, Zenon DEF Release
<1>5. TypeOK'
  BY <1>1, <1>2, <1>3, <1>4, Zenon DEF TypeOK
<1>6. closed' >= closed /\ fastCtr' >= fastCtr /\ slowCtr' >= slowCtr
  BY <1>1, <1>2, SMTT(30) DEF TypeOK
<1> QED
  BY <1>1, <1>2, <1>5, <1>6, ControlStep, Zenon DEF AllocLabels

LEMMA CloseBeginControl ==
    ASSUME RegistryAssumption, RegistryControl, NEW t \in Threads, CloseBegin(t)
    PROVE  /\ RegistryControl' /\ Moves(t)
           /\ \/ UNCHANGED <<closed, pc, call>>
              \/ closed = 0 /\ closed' = 1 /\ pc'[t] = "clearFast" /\ call'[t].idx = 0
<1>1. TypeOK /\ pc[t] = "idle" /\ UNCHANGED <<fastCtr, fast, slowCtr, slow, buffer, held, allocs>>
  BY Zenon DEF RegistryControl, CloseBegin
<1>2. CASE UNCHANGED <<closed, pc, call>>
  <2>1. TypeOK'
    BY <1>1, <1>2, Zenon DEF TypeOK
  <2>2. closed' >= closed /\ fastCtr' >= fastCtr /\ slowCtr' >= slowCtr
    BY <1>1, <1>2, SMTT(30) DEF TypeOK
  <2> QED
    BY <1>1, <1>2, <2>1, <2>2, ControlStep, Zenon DEF Moves, AllocLabels
<1>3. CASE closed = 0 /\ closed' = 1 /\ Begin(t, "close", 0) /\ Goto(t, "clearFast")
  <2> DEFINE new == [Idle EXCEPT !.op = "close", !.idx = 0]
  <2>1. new \in Calls /\ new.idx = 0
    <3>1. PICK begun \in Calls : begun = [Idle EXCEPT !.op = "close"]
      BY <1>1, CallTypes, Zenon DEF Calls
    <3>2. new = [begun EXCEPT !.idx = 0]
      BY <3>1, Zenon DEF Idle
    <3> HIDE DEF new
    <3> QED
      BY <3>2, SMTT(30) DEF Calls
  <2>2. call' = [call EXCEPT ![t] = new] /\ pc' = [pc EXCEPT ![t] = "clearFast"]
    BY <1>3, Zenon DEF Begin, Goto
  <2> HIDE DEF new
  <2>3. Moves(t) /\ pc'[t] = "clearFast" /\ call'[t].idx = 0 /\ call' \in [Threads -> Calls]
        /\ pc' \in [Threads -> AllocLabels \cup {"idle", "clearFast", "clearSlow"}]
    BY <1>1, <2>1, <2>2, Zenon DEF TypeOK, Calls, Moves
  <2>4. TypeOK'
    BY <1>1, <1>3, <2>3, Zenon DEF TypeOK, Calls
  <2>5. 0 \in 0 .. FastCap /\ closed' >= closed /\ fastCtr' >= fastCtr /\ slowCtr' >= slowCtr
    BY <1>1, <1>3, SMTT(30) DEF RegistryAssumption, TypeOK
  <2> QED
    BY <1>1, <1>3, <2>3, <2>4, <2>5, ControlStep, Zenon DEF Moves, AllocLabels
<1> QED
  BY <1>2, <1>3, Zenon DEF CloseBegin

LEMMA CheckControl ==
    ASSUME RegistryAssumption, RegistryControl, NEW t \in Threads, CheckClosed(t) \/ CheckFast(t)
    PROVE  /\ RegistryControl' /\ Moves(t)
           /\ pc[t] \in {"checkClosed", "checkFast"}
           /\ pc'[t] \in {"idle", "checkFast", "takeFast", "takeSlow"}
           /\ pc'[t] = "takeFast" => fastCtr < FastCap
           /\ UNCHANGED <<closed, fastCtr, fast, slowCtr, slow, buffer, held>>
<1>1. TypeOK /\ UNCHANGED <<closed, fastCtr, fast, slowCtr, slow, buffer, held, allocs>>
      /\ pc[t] \in {"checkClosed", "checkFast"}
  BY Zenon DEF RegistryControl, CheckClosed, CheckFast
<1>0. closed' >= closed /\ fastCtr' >= fastCtr /\ slowCtr' >= slowCtr
  BY <1>1, SMTT(30) DEF TypeOK
<1>2. CASE Return(t)
  <2>1. TypeOK'
    BY <1>1, <1>2, ReturnDoes, Zenon DEF TypeOK, Calls
  <2> QED
    BY <1>0, <1>1, <1>2, <2>1, ReturnDoes, ControlStep, Zenon DEF AllocLabels, Moves
<1>3. ASSUME NEW label \in {"checkFast", "takeFast", "takeSlow"}, Goto(t, label), UNCHANGED call,
             label = "takeFast" => fastCtr < FastCap
      PROVE  /\ RegistryControl' /\ Moves(t) /\ pc'[t] = label
             /\ pc'[t] = "takeFast" => fastCtr < FastCap
  <2>1. TypeOK' /\ Moves(t) /\ pc'[t] = label
    BY <1>1, <1>3, Zenon DEF TypeOK, AllocLabels, Goto, Moves
  <2>2. call'[t].target \in Targets
    BY <1>1, <1>3, Zenon DEF RegistryControl, AllocLabels
  <2> QED
    BY <1>0, <1>1, <1>3, <2>1, <2>2, ControlStep, Zenon DEF Moves, AllocLabels
<1> QED
  BY <1>1, <1>2, <1>3, ReturnDoes, Zenon DEF CheckClosed, CheckFast, Moves

LEMMA TakeControl ==
    ASSUME RegistryAssumption, RegistryControl, NEW t \in Threads, TakeFast(t) \/ TakeSlow(t)
    PROVE  /\ RegistryControl' /\ Moves(t)
           /\ UNCHANGED <<closed, fast, slow, buffer, held>> /\ Drained(t)
           /\ \/ pc[t] = "takeFast" /\ fastCtr' = fastCtr + 1
              \/ pc[t] = "takeSlow" /\ fastCtr' = fastCtr
           /\ slowCtr' >= slowCtr
           /\ \/ pc'[t] = "storeFast" /\ call'[t].idx = fastCtr /\ fastCtr' = fastCtr + 1
              \/ pc'[t] = "takeSlow"
              \/ pc'[t] = "putSlow" /\ call'[t].idx = slowCtr /\ slowCtr' = slowCtr + 1
<1>1. /\ TypeOK /\ fastCtr \in Nat /\ slowCtr \in Nat /\ FastCap \in Nat
      /\ UNCHANGED <<closed, fast, slow, buffer, held, allocs>>
      /\ Drained(t)
  BY Zenon DEF RegistryControl, TakeFast, TakeSlow, TypeOK, RegistryAssumption
<1>2. closed' >= closed
  BY <1>1, SMTT(30) DEF TypeOK
<1>3. ASSUME pc[t] = "takeFast", fastCtr' = fastCtr + 1, fastCtr < FastCap, slowCtr' = slowCtr,
             call' = [call EXCEPT ![t].idx = fastCtr], Goto(t, "storeFast")
      PROVE  RegistryControl' /\ Moves(t) /\ pc'[t] = "storeFast" /\ call'[t].idx = fastCtr
  <2>1. /\ call' \in [Threads -> Calls] /\ call'[t].idx = fastCtr
        /\ call'[t].target = call[t].target
        /\ \A u \in Threads : u # t => call'[u] = call[u]
    <3>1. fastCtr \in Int /\ TypeOK
      BY <1>1, SMTT(30)
    <3>2. call' = [call EXCEPT ![t].idx = fastCtr]
      BY <1>3, Zenon
    <3> QED
      BY <3>1, <3>2, IdxDoes, Zenon
  <2>2. pc' \in [Threads -> AllocLabels \cup {"idle", "clearFast", "clearSlow"}]
        /\ pc'[t] = "storeFast" /\ Moves(t)
    BY <1>1, <1>3, <2>1, Zenon DEF TypeOK, AllocLabels, Goto, Moves
  <2>3. TypeOK'
    BY <1>1, <1>3, <2>1, <2>2, SMTT(30) DEF TypeOK, Calls
  <2>4. call[t].target \in Targets
    BY <1>3, Zenon DEF RegistryControl, AllocLabels
  <2>5. fastCtr' >= fastCtr /\ slowCtr' >= slowCtr
    BY <1>1, <1>3, SMTT(30)
  <2> QED
    BY <1>1, <1>2, <1>3, <2>1, <2>2, <2>3, <2>4, <2>5, ControlStep, Zenon DEF Moves
<1>4. ASSUME pc[t] = "takeFast", fastCtr' = fastCtr + 1, UNCHANGED <<slowCtr, call>>,
             Goto(t, "takeSlow")
      PROVE  RegistryControl' /\ Moves(t) /\ pc'[t] = "takeSlow"
  <2>1. pc' \in [Threads -> AllocLabels \cup {"idle", "clearFast", "clearSlow"}]
        /\ pc'[t] = "takeSlow" /\ Moves(t)
    BY <1>1, <1>4, Zenon DEF TypeOK, AllocLabels, Goto, Moves
  <2>2. TypeOK'
    BY <1>1, <1>4, <2>1, SMTT(30) DEF TypeOK
  <2>3. call'[t].target \in Targets
    BY <1>4, Zenon DEF RegistryControl, AllocLabels
  <2>4. fastCtr' >= fastCtr /\ slowCtr' >= slowCtr
    BY <1>1, <1>4, SMTT(30)
  <2> QED
    BY <1>1, <1>2, <1>4, <2>1, <2>2, <2>3, <2>4, ControlStep, Zenon DEF Moves
<1>5. ASSUME pc[t] = "takeSlow", slowCtr' = slowCtr + 1, fastCtr' = fastCtr,
             call' = [call EXCEPT ![t].idx = slowCtr], Goto(t, "putSlow")
      PROVE  RegistryControl' /\ Moves(t) /\ pc'[t] = "putSlow" /\ call'[t].idx = slowCtr
  <2>1. /\ call' \in [Threads -> Calls] /\ call'[t].idx = slowCtr
        /\ call'[t].target = call[t].target
        /\ \A u \in Threads : u # t => call'[u] = call[u]
    <3>1. slowCtr \in Int /\ TypeOK
      BY <1>1, SMTT(30)
    <3>2. call' = [call EXCEPT ![t].idx = slowCtr]
      BY <1>5, Zenon
    <3> QED
      BY <3>1, <3>2, IdxDoes, Zenon
  <2>2. pc' \in [Threads -> AllocLabels \cup {"idle", "clearFast", "clearSlow"}]
        /\ pc'[t] = "putSlow" /\ Moves(t)
    BY <1>1, <1>5, <2>1, Zenon DEF TypeOK, AllocLabels, Goto, Moves
  <2>3. TypeOK'
    BY <1>1, <1>5, <2>1, <2>2, SMTT(30) DEF TypeOK, Calls
  <2>4. call[t].target \in Targets
    BY <1>5, Zenon DEF RegistryControl, AllocLabels
  <2>5. fastCtr' >= fastCtr /\ slowCtr' >= slowCtr
    BY <1>1, <1>5, SMTT(30)
  <2> QED
    BY <1>1, <1>2, <1>5, <2>1, <2>2, <2>3, <2>4, <2>5, ControlStep, Zenon DEF Moves
<1>6. slowCtr' >= slowCtr
  BY <1>1, SMTT(30) DEF TakeFast, TakeSlow
<1> QED
  BY <1>1, <1>3, <1>4, <1>5, <1>6, Zenon DEF TakeFast, TakeSlow

LEMMA PutControl ==
    ASSUME RegistryAssumption, RegistryControl, NEW t \in Threads, StoreFast(t) \/ PutSlow(t)
    PROVE  /\ RegistryControl' /\ Moves(t) /\ call' = call
           /\ \/ /\ pc[t] = "storeFast" /\ pc'[t] = "recheckFast" /\ slow' = slow
                 /\ call[t].idx \in Slots
                 /\ buffer[t] \in Seq(Slots \X (Targets \cup {Null}))
                 /\ <<call[t].idx, call[t].target>> \in Slots \X (Targets \cup {Null})
              \/ /\ pc[t] = "putSlow" /\ pc'[t] = "recheckSlow" /\ buffer' = buffer
                 /\ Segment(call[t].idx) \in 0 .. SlowSegmentCnt - 1
<1>1. TypeOK /\ UNCHANGED <<closed, fastCtr, fast, slowCtr, call, held, allocs>>
  BY Zenon DEF RegistryControl, StoreFast, PutSlow
<1>2. closed' >= closed /\ fastCtr' >= fastCtr /\ slowCtr' >= slowCtr
  BY <1>1, SMTT(30) DEF TypeOK
<1>3. CASE StoreFast(t)
  <2>1. /\ call[t].idx \in Slots /\ call[t].target \in Targets
        /\ <<call[t].idx, call[t].target>> \in Slots \X (Targets \cup {Null})
        /\ buffer[t] \in Seq(Slots \X (Targets \cup {Null}))
    BY <1>1, <1>3, Zenon DEF StoreFast, RegistryControl, FastOwner, AllocLabels, TypeOK
  <2>2. pc' \in [Threads -> AllocLabels \cup {"idle", "clearFast", "clearSlow"}]
        /\ pc'[t] = "recheckFast" /\ pc[t] = "storeFast" /\ Moves(t) /\ slow' = slow
    BY <1>1, <1>3, Zenon DEF StoreFast, TypeOK, AllocLabels, Goto, Moves
  <2>3. buffer' \in [Threads -> Seq(Slots \X (Targets \cup {Null}))]
    BY <1>1, <1>3, <2>1, AppendElements, Zenon DEF StoreFast, Store, TypeOK
  <2>4. TypeOK'
    BY <1>1, <2>2, <2>3, Zenon DEF TypeOK
  <2>5. RegistryControl'
    BY <1>1, <1>2, <2>1, <2>2, <2>4, ControlStep, Zenon DEF Moves, FastOwner
  <2> QED
    BY <1>1, <2>1, <2>2, <2>5, Zenon
<1>4. CASE PutSlow(t)
  <2>1. /\ call[t].idx \in Nat /\ call[t].target \in Targets
        /\ Segment(call[t].idx) \in 0 .. SlowSegmentCnt - 1
    BY <1>1, <1>4, SMTT(30) DEF PutSlow, RegistryControl, SlowOwner, AllocLabels, TypeOK, Segment,
                      RegistryAssumption
  <2>2. pc' \in [Threads -> AllocLabels \cup {"idle", "clearFast", "clearSlow"}]
        /\ pc'[t] = "recheckSlow" /\ pc[t] = "putSlow" /\ Moves(t) /\ buffer' = buffer
    BY <1>1, <1>4, Zenon DEF PutSlow, TypeOK, AllocLabels, Goto, Moves
  <2>3. slow' \in [0 .. SlowSegmentCnt - 1 -> SUBSET (Nat \X Targets)]
    BY <1>1, <1>4, <2>1, SMTT(30) DEF PutSlow, TypeOK
  <2>4. TypeOK'
    BY <1>1, <2>2, <2>3, Zenon DEF TypeOK
  <2>5. RegistryControl'
    BY <1>1, <1>2, <2>1, <2>2, <2>4, ControlStep, Zenon DEF Moves, SlowOwner, FastOwner
  <2> QED
    BY <1>1, <2>1, <2>2, <2>5, Zenon
<1> QED
  BY <1>3, <1>4, Zenon

(* The second look at closed: the allocation is undone, or its handle is   *)
(* given out.                                                              *)
LEMMA RecheckControl ==
    ASSUME RegistryAssumption, RegistryControl, NEW t \in Threads, RecheckFast(t) \/ RecheckSlow(t)
    PROVE  /\ RegistryControl' /\ Moves(t) /\ pc'[t] = "idle"
           /\ \/ /\ closed = 1 /\ held' = held /\ call[t].safe
              \/ /\ ~(call[t].safe /\ closed = 1) /\ held' = held \cup {Granted(t)}
                 /\ UNCHANGED <<slow, buffer>>
           /\ \/ /\ pc[t] = "recheckFast" /\ call[t].idx \in Slots /\ slow' = slow
                 /\ <<call[t].idx, Null>> \in Slots \X (Targets \cup {Null})
              \/ /\ pc[t] = "recheckSlow" /\ call[t].idx \in FastCap .. slowCtr - 1
                 /\ Segment(call[t].idx) \in 0 .. SlowSegmentCnt - 1 /\ buffer' = buffer
<1>1. /\ TypeOK /\ UNCHANGED <<closed, fastCtr, fast, slowCtr, allocs>> /\ Return(t)
      /\ call[t].target \in Targets
  BY Zenon DEF RegistryControl, RecheckFast, RecheckSlow, AllocLabels
<1>2. closed' >= closed /\ fastCtr' >= fastCtr /\ slowCtr' >= slowCtr
  BY <1>1, SMTT(30) DEF TypeOK
<1>3. /\ call' \in [Threads -> Calls] /\ pc'[t] = "idle" /\ Moves(t)
      /\ pc' \in [Threads -> AllocLabels \cup {"idle", "clearFast", "clearSlow"}]
  BY <1>1, ReturnDoes, Zenon DEF Moves
<1>4. \/ pc[t] = "recheckFast" /\ call[t].idx \in Slots
      \/ /\ pc[t] = "recheckSlow" /\ call[t].idx \in FastCap .. slowCtr - 1
         /\ Segment(call[t].idx) \in 0 .. SlowSegmentCnt - 1
  BY <1>1, SMTT(30) DEF RecheckFast, RecheckSlow, RegistryControl, FastOwner, SlowOwner, Segment,
              RegistryAssumption, TypeOK
<1>5. call[t].idx \in Nat
  BY <1>1, <1>4, SMTT(30) DEF RegistryAssumption, Slots, TypeOK
<1>6. Granted(t) \in [handle : Nat, target : Targets, safe : BOOLEAN]
  BY <1>1, <1>5, CallTypes, Zenon DEF Granted
<1>7. held' \subseteq held \cup {Granted(t)}
  BY Zenon DEF RecheckFast, RecheckSlow
<1>8. held' \subseteq [handle : Nat, target : Targets, safe : BOOLEAN]
  BY <1>1, <1>6, <1>7, Zenon DEF TypeOK
<1>9. buffer' \in [Threads -> Seq(Slots \X (Targets \cup {Null}))]
  <2>1. CASE Store(t, call[t].idx, Null) /\ pc[t] = "recheckFast"
    <3>1. <<call[t].idx, Null>> \in Slots \X (Targets \cup {Null})
      BY <1>4, <2>1, Zenon
    <3> QED
      BY <1>1, <2>1, <3>1, AppendElements, Zenon DEF Store, TypeOK
  <2>2. CASE UNCHANGED buffer
    BY <1>1, <2>2, Zenon DEF TypeOK
  <2> QED
    BY <2>1, <2>2, Zenon DEF RecheckFast, RecheckSlow
<1>10. slow' \in [0 .. SlowSegmentCnt - 1 -> SUBSET (Nat \X Targets)]
  <2>1. CASE Remove(call[t].idx) /\ pc[t] = "recheckSlow"
    BY <1>1, <1>4, <2>1, Zenon DEF Remove, TypeOK
  <2>2. CASE UNCHANGED slow
    BY <1>1, <2>2, Zenon DEF TypeOK
  <2> QED
    BY <2>1, <2>2, Zenon DEF RecheckFast, RecheckSlow
<1>11. TypeOK'
  BY <1>1, <1>3, <1>8, <1>9, <1>10, Zenon DEF TypeOK, Calls
<1>12. RegistryControl'
  BY <1>1, <1>2, <1>3, <1>4, <1>7, <1>11, ControlStep, Zenon DEF Moves, AllocLabels
<1>13. \/ /\ closed = 1 /\ held' = held /\ call[t].safe
       \/ /\ ~(call[t].safe /\ closed = 1) /\ held' = held \cup {Granted(t)}
          /\ UNCHANGED <<slow, buffer>>
  BY Zenon DEF RecheckFast, RecheckSlow
<1>14. \/ /\ pc[t] = "recheckFast" /\ call[t].idx \in Slots /\ slow' = slow
          /\ <<call[t].idx, Null>> \in Slots \X (Targets \cup {Null})
       \/ /\ pc[t] = "recheckSlow" /\ call[t].idx \in FastCap .. slowCtr - 1
          /\ Segment(call[t].idx) \in 0 .. SlowSegmentCnt - 1 /\ buffer' = buffer
  BY <1>4, Zenon DEF RecheckFast, RecheckSlow
<1> QED
  BY <1>3, <1>12, <1>13, <1>14, Zenon

LEMMA ClearFastControl ==
    ASSUME RegistryAssumption, RegistryControl, NEW t \in Threads, ClearFast(t)
    PROVE  /\ RegistryControl' /\ Moves(t) /\ pc[t] = "clearFast" /\ closed = 1
           /\ \/ /\ call[t].idx \in Slots /\ pc' = pc /\ call'[t].idx = call[t].idx + 1
                 /\ <<call[t].idx, Null>> \in Slots \X (Targets \cup {Null})
                 /\ Store(t, call[t].idx, Null)
              \/ call[t].idx = FastCap /\ pc'[t] = "clearSlow" /\ buffer' = buffer /\ call'[t].idx = 0
<1>1. /\ TypeOK /\ UNCHANGED <<closed, fastCtr, fast, slowCtr, slow, held, allocs>>
      /\ pc[t] = "clearFast" /\ closed = 1 /\ call[t].idx \in 0 .. FastCap /\ FastCap \in Nat
  BY Zenon DEF RegistryControl, ClearFast, RegistryAssumption
<1>2. closed' >= closed /\ fastCtr' >= fastCtr /\ slowCtr' >= slowCtr
  BY <1>1, SMTT(30) DEF TypeOK
<1>3. CASE /\ call[t].idx < FastCap /\ Store(t, call[t].idx, Null)
           /\ call' = [call EXCEPT ![t].idx = @ + 1] /\ UNCHANGED pc
  <2> DEFINE next == call[t].idx + 1
  <2>1. call[t].idx \in Slots /\ next \in 0 .. FastCap /\ next \in Int
        /\ <<call[t].idx, Null>> \in Slots \X (Targets \cup {Null})
    BY <1>1, <1>3, SMTT(30) DEF Slots
  <2>2. call' = [call EXCEPT ![t].idx = next]
    BY <1>3, Zenon
  <2> HIDE DEF next
  <2>3. call' \in [Threads -> Calls] /\ call'[t].idx = next /\ Moves(t)
    <3>1. /\ call' \in [Threads -> Calls] /\ call'[t].idx = next
          /\ \A u \in Threads : u # t => call'[u] = call[u]
      BY <1>1, <2>1, <2>2, IdxDoes, Zenon
    <3> QED
      BY <1>3, <3>1, Zenon DEF Moves
  <2>4. buffer' \in [Threads -> Seq(Slots \X (Targets \cup {Null}))]
    BY <1>1, <1>3, <2>1, AppendElements, Zenon DEF Store, TypeOK
  <2>5. TypeOK'
    BY <1>1, <1>3, <2>3, <2>4, Zenon DEF TypeOK, Calls
  <2>6. RegistryControl'
    BY <1>1, <1>2, <1>3, <2>1, <2>3, <2>5, ControlStep, Zenon DEF Moves, AllocLabels
  <2> QED
    BY <1>1, <1>3, <2>1, <2>3, <2>6, Zenon DEF next
<1>4. CASE /\ call[t].idx = FastCap /\ call' = [call EXCEPT ![t].idx = 0]
           /\ Goto(t, "clearSlow") /\ UNCHANGED buffer
  <2>1. /\ call' \in [Threads -> Calls] /\ call'[t].idx = 0
        /\ \A u \in Threads : u # t => call'[u] = call[u]
    <3>1. 0 \in Int /\ TypeOK /\ call' = [call EXCEPT ![t].idx = 0]
      BY <1>1, <1>4, SMTT(30)
    <3> QED
      BY <3>1, IdxDoes, Zenon
  <2>2. /\ pc' \in [Threads -> AllocLabels \cup {"idle", "clearFast", "clearSlow"}]
        /\ pc'[t] = "clearSlow" /\ Moves(t)
    BY <1>1, <1>4, <2>1, Zenon DEF TypeOK, Goto, Moves
  <2>3. TypeOK'
    BY <1>1, <1>4, <2>1, <2>2, Zenon DEF TypeOK, Calls
  <2>4. 0 \in 0 .. SlowSegmentCnt
    BY SMTT(30) DEF RegistryAssumption
  <2>5. RegistryControl'
    BY <1>1, <1>2, <1>4, <2>1, <2>2, <2>3, <2>4, ControlStep, SMTT(30) DEF Moves, AllocLabels
  <2> QED
    BY <1>1, <1>4, <2>1, <2>2, <2>5, Zenon
<1> QED
  BY <1>3, <1>4, Zenon DEF ClearFast

LEMMA ClearSlowControl ==
    ASSUME RegistryAssumption, RegistryControl, NEW t \in Threads, ClearSlow(t)
    PROVE  /\ RegistryControl' /\ Moves(t) /\ pc[t] = "clearSlow" /\ closed = 1 /\ Drained(t)
           /\ \/ /\ call[t].idx \in 0 .. SlowSegmentCnt - 1
                 /\ pc' = pc /\ call'[t].idx = call[t].idx + 1
                 /\ slow' = [slow EXCEPT ![call[t].idx] = {}]
              \/ call[t].idx = SlowSegmentCnt /\ pc'[t] = "idle" /\ slow' = slow
<1>1. /\ TypeOK /\ UNCHANGED <<closed, fastCtr, fast, slowCtr, buffer, held, allocs>>
      /\ pc[t] = "clearSlow" /\ closed = 1 /\ call[t].idx \in 0 .. SlowSegmentCnt
      /\ SlowSegmentCnt \in Nat /\ Drained(t)
  BY Zenon DEF RegistryControl, ClearSlow, RegistryAssumption
<1>2. closed' >= closed /\ fastCtr' >= fastCtr /\ slowCtr' >= slowCtr
  BY <1>1, SMTT(30) DEF TypeOK
<1>3. CASE /\ call[t].idx < SlowSegmentCnt /\ slow' = [slow EXCEPT ![call[t].idx] = {}]
           /\ call' = [call EXCEPT ![t].idx = @ + 1] /\ UNCHANGED pc
  <2> DEFINE next == call[t].idx + 1
  <2>1. call[t].idx \in 0 .. SlowSegmentCnt - 1 /\ next \in 0 .. SlowSegmentCnt /\ next \in Int
    BY <1>1, <1>3, SMTT(30)
  <2>2. call' = [call EXCEPT ![t].idx = next]
    BY <1>3, Zenon
  <2> HIDE DEF next
  <2>3. call' \in [Threads -> Calls] /\ call'[t].idx = next /\ Moves(t)
    <3>1. /\ call' \in [Threads -> Calls] /\ call'[t].idx = next
          /\ \A u \in Threads : u # t => call'[u] = call[u]
      BY <1>1, <2>1, <2>2, IdxDoes, Zenon
    <3> QED
      BY <1>3, <3>1, Zenon DEF Moves
  <2>4. slow' \in [0 .. SlowSegmentCnt - 1 -> SUBSET (Nat \X Targets)]
    BY <1>1, <1>3, <2>1, Zenon DEF TypeOK
  <2>5. TypeOK'
    BY <1>1, <1>3, <2>3, <2>4, Zenon DEF TypeOK, Calls
  <2>6. RegistryControl'
    BY <1>1, <1>2, <1>3, <2>1, <2>3, <2>5, ControlStep, Zenon DEF Moves, AllocLabels
  <2> QED
    BY <1>1, <1>3, <2>1, <2>3, <2>6, Zenon DEF next
<1>4. CASE call[t].idx = SlowSegmentCnt /\ Return(t) /\ UNCHANGED slow
  <2>1. /\ call' \in [Threads -> Calls] /\ pc'[t] = "idle" /\ Moves(t)
        /\ pc' \in [Threads -> AllocLabels \cup {"idle", "clearFast", "clearSlow"}]
    BY <1>1, <1>4, ReturnDoes, Zenon DEF Moves
  <2>2. TypeOK'
    BY <1>1, <1>4, <2>1, Zenon DEF TypeOK, Calls
  <2>3. RegistryControl'
    BY <1>1, <1>2, <1>4, <2>1, <2>2, ControlStep, Zenon DEF Moves, AllocLabels
  <2> QED
    BY <1>1, <1>4, <2>1, <2>3, Zenon
<1> QED
  BY <1>3, <1>4, Zenon DEF ClearSlow

LEMMA DrainControl ==
    ASSUME RegistryAssumption, RegistryControl, NEW t \in Threads, Drain(t)
    PROVE  /\ RegistryControl' /\ Head(buffer[t]) \in Stores(t)
           /\ Head(buffer[t]) \in Slots \X (Targets \cup {Null})
           /\ Stores(t) = {Head(buffer[t])} \cup Elements(Tail(buffer[t]))
           /\ buffer'[t] = Tail(buffer[t])
           /\ \A u \in Threads : u # t => buffer'[u] = buffer[u]
           /\ fast'[Head(buffer[t])[1]] = Head(buffer[t])[2]
           /\ \A i \in Slots : i # Head(buffer[t])[1] => fast'[i] = fast[i]
<1>1. /\ TypeOK /\ UNCHANGED <<closed, fastCtr, slowCtr, slow, pc, call, held, allocs>>
      /\ fast' = [fast EXCEPT ![Head(buffer[t])[1]] = Head(buffer[t])[2]]
      /\ buffer' = [buffer EXCEPT ![t] = Tail(buffer[t])]
      /\ buffer[t] # <<>>
  BY Zenon DEF RegistryControl, Drain, Drained
<1>2. buffer \in [Threads -> Seq(Slots \X (Targets \cup {Null}))]
      /\ fast \in [Slots -> Targets \cup {Null}]
  BY <1>1, Zenon DEF TypeOK
<1>3. /\ Head(buffer[t]) \in Slots \X (Targets \cup {Null})
      /\ Tail(buffer[t]) \in Seq(Slots \X (Targets \cup {Null}))
      /\ Stores(t) = {Head(buffer[t])} \cup Elements(Tail(buffer[t]))
  BY <1>1, <1>2, HeadElements, Zenon DEF Stores
<1>4. buffer' \in [Threads -> Seq(Slots \X (Targets \cup {Null}))]
      /\ buffer'[t] = Tail(buffer[t]) /\ \A u \in Threads : u # t => buffer'[u] = buffer[u]
  BY <1>1, <1>2, <1>3, Zenon
<1>5. PICK store \in Slots \X (Targets \cup {Null}) : store = Head(buffer[t])
  BY <1>3, Zenon
<1>6. fast' \in [Slots -> Targets \cup {Null}] /\ fast'[store[1]] = store[2]
      /\ \A i \in Slots : i # store[1] => fast'[i] = fast[i]
  BY <1>1, <1>2, <1>5, Zenon
<1>7. TypeOK'
  BY <1>1, <1>4, <1>6, Zenon DEF TypeOK
<1>8. RegistryControl'
  BY <1>1, <1>7, Zenon DEF RegistryControl, HandlesAreUnique
<1> QED
  BY <1>3, <1>4, <1>5, <1>6, <1>8, Zenon

-----------------------------------------------------------------------------
(* What a plain store adds to what is on its way. *)
LEMMA StoreDoes ==
    ASSUME TypeOK, NEW t \in Threads, NEW i, NEW v,
           <<i, v>> \in Slots \X (Targets \cup {Null}), Store(t, i, v)
    PROVE  /\ Stores(t)' = Stores(t) \cup {<<i, v>>}
           /\ \A u \in Threads : u # t => Stores(u)' = Stores(u)
<1>1. buffer \in [Threads -> Seq(Slots \X (Targets \cup {Null}))]
      /\ buffer' = [buffer EXCEPT ![t] = Append(buffer[t], <<i, v>>)]
  BY Zenon DEF TypeOK, Store
<1>2. buffer'[t] = Append(buffer[t], <<i, v>>) /\ \A u \in Threads : u # t => buffer'[u] = buffer[u]
  BY <1>1, Zenon
<1>3. buffer[t] \in Seq(Slots \X (Targets \cup {Null}))
  BY <1>1, Zenon
<1>4. Elements(Append(buffer[t], <<i, v>>)) = Elements(buffer[t]) \cup {<<i, v>>}
  <2>1. PICK All : All = Slots \X (Targets \cup {Null})
    BY Zenon
  <2>2. PICK x \in All : x = <<i, v>>
    BY <2>1, Zenon
  <2>3. buffer[t] \in Seq(All)
    BY <1>3, <2>1, Zenon
  <2> QED
    BY <2>2, <2>3, AppendElements, SMTT(30)
<1> QED
  BY <1>2, <1>4, Zenon DEF Stores

(* A step that touches neither memory nor what is held. *)
LEMMA OpenKept ==
    ASSUME RegistryControl, RegistryControl', RegistryOpen, NEW t \in Threads, Moves(t),
           UNCHANGED <<fast, slow, buffer, held>>, fastCtr' >= fastCtr, closed' = 0 => closed = 0,
           pc'[t] \in FastOwner => pc'[t] = "storeFast" /\ call'[t].idx = fastCtr,
           pc'[t] # "recheckSlow"
    PROVE  RegistryOpen'
<1> SUFFICES ASSUME closed' = 0 PROVE RegistryOpen'
  BY Zenon DEF RegistryOpen
<1>1. closed = 0 /\ fastCtr \in Nat /\ fastCtr' \in Nat
  BY Zenon DEF RegistryControl, TypeOK
<1>2. \A u \in Threads : Stores(u)' = Stores(u)
      /\ \A store \in Stores(u) : store \in Slots \X (Targets \cup {Null}) /\ store[1] \in Int
  BY SMTT(30) DEF Stores, Elements, RegistryControl, TypeOK, Slots
<1>3. \A i, v : Holds(fast', buffer', i, v) = Holds(fast, buffer, i, v)
  BY Zenon
<1>4. ASSUME NEW u \in Threads, NEW store \in Stores(u)'
      PROVE  /\ store[1] < fastCtr'
             /\ \A w \in Threads : pc'[w] = "storeFast" => call'[w].idx # store[1]
  <2>1. store \in Stores(u) /\ store[1] \in Int
    BY <1>2, <1>4, Zenon
  <2>2. store[1] < fastCtr /\ \A w \in Threads : pc[w] = "storeFast" => call[w].idx # store[1]
    BY <1>1, <2>1, Zenon DEF RegistryOpen
  <2> QED
    BY <1>1, <2>1, <2>2, SMTT(30) DEF Moves, FastOwner
<1>5. ASSUME NEW u \in Threads
      PROVE  /\ pc'[u] = "recheckFast" => Holds(fast', buffer', call'[u].idx, call'[u].target)
             /\ pc'[u] = "recheckSlow" =>
                   <<call'[u].idx, call'[u].target>> \in slow'[Segment(call'[u].idx)]
  <2>1. CASE u = t
    BY <2>1, Zenon DEF FastOwner
  <2>2. CASE u # t
    BY <1>1, <1>3, <2>2, Zenon DEF RegistryOpen, Moves
  <2> QED
    BY <2>1, <2>2, Zenon
<1>6. \A h \in held' :
          IF h.handle < FastCap
          THEN Holds(fast', buffer', h.handle, h.target)
          ELSE <<h.handle, h.target>> \in slow'[Segment(h.handle)]
  BY <1>1, <1>3, Zenon DEF RegistryOpen
<1> QED
  BY <1>4, <1>5, <1>6, Zenon DEF RegistryOpen

(* A target is stored, or a slot is given back: nobody else has the slot. *)
LEMMA OpenStored ==
    ASSUME RegistryAssumption, RegistryControl, RegistryControl', RegistryOpen, closed = 0,
           NEW t \in Threads, NEW i \in Slots, NEW v,
           <<i, v>> \in Slots \X (Targets \cup {Null}), Store(t, i, v), i < fastCtr,
           UNCHANGED <<fast, slow, fastCtr>>, Moves(t),
           \A u \in Threads : u # t /\ pc[u] \in FastOwner => call[u].idx # i,
           \/ /\ pc[t] = "storeFast" /\ pc'[t] = "recheckFast" /\ UNCHANGED <<call, held>>
              /\ call[t].idx = i /\ call[t].target = v
           \/ /\ pc[t] = "idle" /\ pc'[t] = "idle"
              /\ held' \subseteq held /\ \A h \in held' : h.handle # i
    PROVE  RegistryOpen'
<1> SUFFICES ASSUME closed' = 0 PROVE RegistryOpen'
  BY Zenon DEF RegistryOpen
<1>1. /\ Stores(t)' = Stores(t) \cup {<<i, v>>}
      /\ \A u \in Threads : u # t => Stores(u)' = Stores(u)
  BY StoreDoes, Zenon DEF RegistryControl
<1>2. /\ Elements(buffer'[t]) = Elements(buffer[t]) \cup {<<i, v>>}
      /\ \A u \in Threads : u # t => Elements(buffer'[u]) = Elements(buffer[u])
  BY <1>1, Zenon DEF Stores
<1>3. \A j, w : j # i /\ Holds(fast, buffer, j, w) => Holds(fast', buffer', j, w)
  <2> SUFFICES ASSUME NEW j, NEW w, j # i, Holds(fast, buffer, j, w)
               PROVE  Holds(fast, buffer', j, w)
    BY Zenon
  <2> QED
    BY <1>2, SMTT(30) DEF Holds
<1>4. ASSUME NEW u \in Threads, NEW store \in Stores(u)'
      PROVE  /\ store[1] < fastCtr'
             /\ \A w \in Threads : pc'[w] = "storeFast" => call'[w].idx # store[1]
  <2>1. CASE store \in Stores(u)
    <3>1. /\ store[1] < fastCtr
          /\ \A w \in Threads : pc[w] = "storeFast" => call[w].idx # store[1]
      BY <2>1, Zenon DEF RegistryOpen
    <3> QED
      BY <3>1, Zenon DEF Moves
  <2>2. CASE store = <<i, v>>
    BY <2>2, Zenon DEF Moves, FastOwner
  <2> QED
    BY <1>1, <1>4, <2>1, <2>2, Zenon
<1>5. ASSUME NEW u \in Threads
      PROVE  /\ pc'[u] = "recheckFast" => Holds(fast', buffer', call'[u].idx, call'[u].target)
             /\ pc'[u] = "recheckSlow" =>
                   <<call'[u].idx, call'[u].target>> \in slow'[Segment(call'[u].idx)]
  <2>1. CASE u = t /\ pc[t] = "storeFast"
    <3>1. \A w \in Threads : \A store \in Elements(buffer[w]) : store[1] # i
      BY <2>1, Zenon DEF RegistryOpen, Stores
    <3>2. \A store \in {<<i, v>>} : store[1] = i /\ store[2] = v
      BY SMTT(30)
    <3>3. Holds(fast', buffer', i, v)
      BY <1>2, <3>1, <3>2, Zenon DEF Holds
    <3> QED
      BY <2>1, <3>3, Zenon
  <2>2. CASE u = t /\ pc[t] = "idle"
    BY <2>2, Zenon
  <2>3. CASE u # t
    BY <1>3, <2>3, Zenon DEF RegistryOpen, Moves, FastOwner
  <2> QED
    BY <2>1, <2>2, <2>3, Zenon
<1>6. ASSUME NEW h \in held'
      PROVE  IF h.handle < FastCap
             THEN Holds(fast', buffer', h.handle, h.target)
             ELSE <<h.handle, h.target>> \in slow'[Segment(h.handle)]
  <2>1. h \in held /\ h.handle # i
    BY <1>6, Zenon DEF RegistryControl, HandlesAreUnique
  <2> QED
    BY <1>3, <2>1, Zenon DEF RegistryOpen
<1> QED
  BY <1>4, <1>5, <1>6, Zenon DEF RegistryOpen

LEMMA OpenPut ==
    ASSUME RegistryAssumption, RegistryControl, RegistryControl', RegistryOpen,
           NEW t \in Threads, PutSlow(t)
    PROVE  RegistryOpen'
<1> SUFFICES ASSUME closed' = 0 PROVE RegistryOpen'
  BY Zenon DEF RegistryOpen
<1>1. /\ closed = 0 /\ UNCHANGED <<fastCtr, fast, buffer, call, held>> /\ Moves(t)
      /\ pc'[t] = "recheckSlow" /\ Segment(call[t].idx) \in 0 .. SlowSegmentCnt - 1
  BY PutControl, Zenon DEF PutSlow
<1>2. /\ \A s \in DOMAIN slow : slow[s] \subseteq slow'[s]
      /\ <<call[t].idx, call[t].target>> \in slow'[Segment(call[t].idx)]
      /\ DOMAIN slow = 0 .. SlowSegmentCnt - 1
  BY <1>1, Zenon DEF PutSlow, RegistryControl, TypeOK
<1>3. \A u \in Threads : Stores(u)' = Stores(u)
  BY <1>1, Zenon DEF Stores
<1>4. ASSUME NEW u \in Threads, NEW store \in Stores(u)'
      PROVE  /\ store[1] < fastCtr'
             /\ \A w \in Threads : pc'[w] = "storeFast" => call'[w].idx # store[1]
  BY <1>1, <1>3, <1>4, SMTT(30) DEF RegistryOpen, Moves
<1>5. ASSUME NEW u \in Threads
      PROVE  /\ pc'[u] = "recheckFast" => Holds(fast', buffer', call'[u].idx, call'[u].target)
             /\ pc'[u] = "recheckSlow" =>
                   <<call'[u].idx, call'[u].target>> \in slow'[Segment(call'[u].idx)]
  <2>1. CASE u = t
    BY <1>1, <1>2, <2>1, Zenon
  <2>2. CASE u # t
    <3>1. pc'[u] = pc[u]
      BY <1>1, <2>2, Zenon DEF Moves
    <3>2. pc[u] = "recheckSlow" => Segment(call[u].idx) \in 0 .. SlowSegmentCnt - 1
      <4>1. FastCap \in Nat /\ SlowSegmentCnt \in Nat \ {0} /\ slowCtr \in Nat
        BY Zenon DEF RegistryControl, RegistryAssumption, TypeOK
      <4>2. pc[u] = "recheckSlow" => call[u].idx \in FastCap .. slowCtr - 1
        BY Zenon DEF RegistryControl, SlowOwner
      <4> QED
        BY <4>1, <4>2, SMTT(30) DEF Segment
    <3> QED
      BY <1>1, <1>2, <3>1, <3>2, Zenon DEF RegistryOpen
  <2> QED
    BY <2>1, <2>2, Zenon
<1>6. ASSUME NEW h \in held'
      PROVE  IF h.handle < FastCap
             THEN Holds(fast', buffer', h.handle, h.target)
             ELSE <<h.handle, h.target>> \in slow'[Segment(h.handle)]
  <2>1. h \in held /\ Segment(h.handle) \in 0 .. SlowSegmentCnt - 1
    <3>1. h \in held /\ h \in [handle : Nat, target : Targets, safe : BOOLEAN]
      BY <1>1, <1>6, Zenon DEF RegistryControl, TypeOK
    <3> QED
      BY <3>1, SegmentType, Zenon
  <2> QED
    BY <1>1, <1>2, <2>1, Zenon DEF RegistryOpen
<1> QED
  BY <1>4, <1>5, <1>6, Zenon DEF RegistryOpen

LEMMA OpenGranted ==
    ASSUME RegistryAssumption, RegistryControl, RegistryControl', RegistryOpen,
           NEW t \in Threads, RecheckFast(t) \/ RecheckSlow(t)
    PROVE  RegistryOpen'
<1> SUFFICES ASSUME closed' = 0 PROVE RegistryOpen'
  BY Zenon DEF RegistryOpen
<1>1. closed = 0 /\ UNCHANGED <<fastCtr, fast>>
  BY Zenon DEF RecheckFast, RecheckSlow
<1>2. /\ Moves(t) /\ pc'[t] = "idle" /\ held' = held \cup {Granted(t)} /\ UNCHANGED <<slow, buffer>>
      /\ \/ pc[t] = "recheckFast" /\ call[t].idx < FastCap
         \/ pc[t] = "recheckSlow" /\ ~(call[t].idx < FastCap)
  <2>1. FastCap \in Nat /\ slowCtr \in Nat
    BY Zenon DEF RegistryControl, RegistryAssumption, TypeOK
  <2>2. /\ Moves(t) /\ pc'[t] = "idle" /\ held' = held \cup {Granted(t)} /\ UNCHANGED <<slow, buffer>>
        /\ \/ pc[t] = "recheckFast" /\ call[t].idx \in Slots
           \/ pc[t] = "recheckSlow" /\ call[t].idx \in FastCap .. slowCtr - 1
    <3>1. closed # 1
      BY <1>1, SMTT(30)
    <3> QED
      BY <3>1, RecheckControl, Zenon
  <2> QED
    BY <2>1, <2>2, SMTT(30) DEF Slots
<1>3. \A u \in Threads : Stores(u)' = Stores(u)
  BY <1>2, Zenon DEF Stores
<1>4. ASSUME NEW u \in Threads, NEW store \in Stores(u)'
      PROVE  /\ store[1] < fastCtr'
             /\ \A w \in Threads : pc'[w] = "storeFast" => call'[w].idx # store[1]
  BY <1>1, <1>2, <1>3, <1>4, ZenonT(60) DEF RegistryOpen, Moves
<1>5. ASSUME NEW u \in Threads
      PROVE  /\ pc'[u] = "recheckFast" => Holds(fast', buffer', call'[u].idx, call'[u].target)
             /\ pc'[u] = "recheckSlow" =>
                   <<call'[u].idx, call'[u].target>> \in slow'[Segment(call'[u].idx)]
  BY <1>1, <1>2, Zenon DEF RegistryOpen, Moves
<1>6. ASSUME NEW h \in held'
      PROVE  IF h.handle < FastCap
             THEN Holds(fast', buffer', h.handle, h.target)
             ELSE <<h.handle, h.target>> \in slow'[Segment(h.handle)]
  <2>1. CASE h \in held
    BY <1>1, <1>2, <2>1, Zenon DEF RegistryOpen
  <2>2. CASE h = Granted(t)
    <3>1. h.handle = call[t].idx /\ h.target = call[t].target
      BY <2>2, Zenon DEF Granted
    <3> QED
      BY <1>1, <1>2, <3>1, Zenon DEF RegistryOpen
  <2> QED
    BY <1>2, <1>6, <2>1, <2>2, Zenon
<1> QED
  BY <1>4, <1>5, <1>6, Zenon DEF RegistryOpen

LEMMA OpenReleased ==
    ASSUME RegistryAssumption, RegistryControl, RegistryControl', RegistryOpen,
           NEW t \in Threads, NEW g \in held, Release(t, g)
    PROVE  RegistryOpen'
<1> SUFFICES ASSUME closed' = 0 PROVE RegistryOpen'
  BY Zenon DEF RegistryOpen
<1>1. /\ closed = 0 /\ UNCHANGED <<fastCtr, fast, pc, call>> /\ pc[t] = "idle"
      /\ held' = held \ {g}
  BY Zenon DEF Release
<1>2. /\ \A h \in held' : h \in held /\ h.handle # g.handle
      /\ \A u \in Threads : pc[u] \in FastOwner \cup SlowOwner => call[u].idx # g.handle
  BY <1>1, Zenon DEF RegistryControl, HandlesAreUnique, FastOwner, SlowOwner
<1>3. FastCap \in Nat /\ fastCtr \in Nat /\ slowCtr \in Nat /\ g.handle \in Nat
  BY Zenon DEF RegistryControl, RegistryAssumption, TypeOK
<1>4. CASE g.handle < FastCap /\ Store(t, g.handle, Null) /\ UNCHANGED slow
  <2>1. /\ g.handle \in Slots /\ g.handle < fastCtr
        /\ <<g.handle, Null>> \in Slots \X (Targets \cup {Null})
    BY <1>3, <1>4, SMTT(30) DEF RegistryControl, Slots
  <2> QED
    BY <1>1, <1>2, <1>4, <2>1, OpenStored, SMTT(30) DEF Moves
<1>5. CASE g.handle >= FastCap /\ Remove(g.handle) /\ UNCHANGED buffer
  <2>1. \A s \in 0 .. SlowSegmentCnt - 1 : \A e \in slow[s] : e[1] # g.handle => e \in slow'[s]
    BY <1>3, <1>5, Zenon DEF Remove, RegistryControl, TypeOK
  <2>2. \A k \in Nat : Segment(k) \in 0 .. SlowSegmentCnt - 1
    BY SMTT(30) DEF Segment, RegistryAssumption
  <2>3. \A u \in Threads : Stores(u)' = Stores(u)
    BY <1>5, Zenon DEF Stores
  <2>4. ASSUME NEW u \in Threads, NEW store \in Stores(u)'
        PROVE  /\ store[1] < fastCtr'
               /\ \A w \in Threads : pc'[w] = "storeFast" => call'[w].idx # store[1]
    BY <1>1, <2>3, <2>4, Zenon DEF RegistryOpen
  <2>5. ASSUME NEW u \in Threads
        PROVE  /\ pc'[u] = "recheckFast" => Holds(fast', buffer', call'[u].idx, call'[u].target)
               /\ pc'[u] = "recheckSlow" =>
                     <<call'[u].idx, call'[u].target>> \in slow'[Segment(call'[u].idx)]
    <3>1. CASE pc[u] = "recheckFast"
      BY <1>1, <1>5, <3>1, Zenon DEF RegistryOpen
    <3>2. CASE pc[u] = "recheckSlow"
      <4>1. call[u].idx \in FastCap .. slowCtr - 1 /\ call[u].idx # g.handle
        BY <1>2, <3>2, Zenon DEF RegistryControl, SlowOwner
      <4>2. Segment(call[u].idx) \in 0 .. SlowSegmentCnt - 1
        BY <1>3, <2>2, <4>1, SMTT(30)
      <4>3. <<call[u].idx, call[u].target>> \in slow[Segment(call[u].idx)]
        BY <1>1, <3>2, Zenon DEF RegistryOpen
      <4> QED
        BY <1>1, <2>1, <3>2, <4>1, <4>2, <4>3, Zenon
    <3> QED
      BY <1>1, <3>1, <3>2, Zenon
  <2>6. ASSUME NEW h \in held'
        PROVE  IF h.handle < FastCap
               THEN Holds(fast', buffer', h.handle, h.target)
               ELSE <<h.handle, h.target>> \in slow'[Segment(h.handle)]
    <3>1. h \in held /\ h.handle # g.handle /\ h.handle \in Nat
      BY <1>2, <2>6, Zenon DEF RegistryControl, TypeOK
    <3>2. CASE h.handle < FastCap
      BY <1>1, <1>5, <3>1, <3>2, Zenon DEF RegistryOpen
    <3>3. CASE ~(h.handle < FastCap)
      <4>1. <<h.handle, h.target>> \in slow[Segment(h.handle)]
        BY <1>1, <3>1, <3>3, Zenon DEF RegistryOpen
      <4> QED
        BY <2>1, <2>2, <3>1, <3>3, <4>1, Zenon
    <3> QED
      BY <3>2, <3>3, Zenon
  <2> QED
    BY <2>4, <2>5, <2>6, Zenon DEF RegistryOpen
<1> QED
  BY <1>4, <1>5, Zenon DEF Release

LEMMA OpenDrained ==
    ASSUME RegistryAssumption, RegistryControl, RegistryControl', RegistryOpen,
           NEW t \in Threads, Drain(t)
    PROVE  RegistryOpen'
<1> SUFFICES ASSUME closed' = 0 PROVE RegistryOpen'
  BY Zenon DEF RegistryOpen
<1>1. closed = 0 /\ UNCHANGED <<fastCtr, slowCtr, slow, pc, call, held>>
  BY Zenon DEF Drain
<1>2. PICK store : store = Head(buffer[t])
  BY Zenon
<1>3. /\ store \in Elements(buffer[t]) /\ store[1] \in Slots
      /\ Elements(buffer[t]) = {store} \cup Elements(buffer'[t])
      /\ \A u \in Threads : u # t => Elements(buffer'[u]) = Elements(buffer[u])
      /\ fast'[store[1]] = store[2]
      /\ \A i \in Slots : i # store[1] => fast'[i] = fast[i]
  BY <1>2, DrainControl, Zenon DEF Stores
<1>4. \A u \in Threads : Stores(u)' \subseteq Stores(u)
  BY <1>3, Zenon DEF Stores
<1>5. ASSUME NEW i \in Slots, NEW v, Holds(fast, buffer, i, v)
      PROVE  Holds(fast', buffer', i, v)
  <2>1. CASE i = store[1]
    BY <1>3, <1>5, <2>1, Zenon DEF Holds
  <2>2. CASE i # store[1]
    BY <1>3, <1>5, <2>2, Zenon DEF Holds
  <2> QED
    BY <2>1, <2>2, Zenon
<1>6. ASSUME NEW u \in Threads, NEW old \in Stores(u)'
      PROVE  /\ old[1] < fastCtr'
             /\ \A w \in Threads : pc'[w] = "storeFast" => call'[w].idx # old[1]
  BY <1>1, <1>4, <1>6, Zenon DEF RegistryOpen
<1>7. ASSUME NEW u \in Threads
      PROVE  /\ pc'[u] = "recheckFast" => Holds(fast', buffer', call'[u].idx, call'[u].target)
             /\ pc'[u] = "recheckSlow" =>
                   <<call'[u].idx, call'[u].target>> \in slow'[Segment(call'[u].idx)]
  <2>1. pc[u] = "recheckFast" => call[u].idx \in Slots
    BY Zenon DEF RegistryControl, FastOwner
  <2> QED
    BY <1>1, <1>5, <2>1, Zenon DEF RegistryOpen
<1>8. ASSUME NEW h \in held'
      PROVE  IF h.handle < FastCap
             THEN Holds(fast', buffer', h.handle, h.target)
             ELSE <<h.handle, h.target>> \in slow'[Segment(h.handle)]
  <2>1. h \in held /\ (h.handle < FastCap => h.handle \in Slots)
    BY <1>1, <1>8, SMTT(30) DEF RegistryControl, TypeOK, Slots, RegistryAssumption
  <2> QED
    BY <1>1, <1>5, <2>1, Zenon DEF RegistryOpen
<1> QED
  BY <1>6, <1>7, <1>8, Zenon DEF RegistryOpen

-----------------------------------------------------------------------------
(* A step that leaves the entries alone, and keeps what stands for them or *)
(* grants what stood for one.                                              *)
LEMMA SlowKept ==
    ASSUME RegistryControl, RegistryControl', SlowEntries, NEW t \in Threads, Moves(t),
           slow' = slow, slowCtr' >= slowCtr, held \subseteq held',
           \/ pc[t] # "recheckSlow"
           \/ Granted(t) \in held' /\ ~(call[t].safe /\ closed = 1),
           \A s \in 0 .. SlowSegmentCnt - 1 :
               closed = 0 \/ SegmentToClear(s) => closed' = 0 \/ SegmentToClear(s)',
           FastCap \in Nat
    PROVE  SlowEntries'
<1>1. closed \in {0, 1} /\ slowCtr \in Nat /\ slowCtr' \in Nat
  BY Zenon DEF RegistryControl, TypeOK
<1> SUFFICES ASSUME NEW s \in 0 .. SlowSegmentCnt - 1, NEW e \in slow[s]
             PROVE  /\ e[1] \in FastCap .. slowCtr' - 1 /\ Segment(e[1]) = s
                    /\ \/ \E u \in Threads :
                             pc'[u] = "recheckSlow" /\ call'[u].idx = e[1] /\ call'[u].target = e[2]
                       \/ \E h \in held' :
                             /\ h.handle = e[1] /\ h.target = e[2]
                             /\ ~h.safe \/ closed' = 0 \/ SegmentToClear(s)'
  BY Zenon DEF SlowEntries
<1>2. e[1] \in FastCap .. slowCtr - 1 /\ Segment(e[1]) = s
  BY Zenon DEF SlowEntries
<1>3. e[1] \in FastCap .. slowCtr' - 1
  BY <1>1, <1>2, Wider, Zenon
<1>4. CASE \E u \in Threads :
              pc[u] = "recheckSlow" /\ call[u].idx = e[1] /\ call[u].target = e[2]
  <2>1. PICK u \in Threads : pc[u] = "recheckSlow" /\ call[u].idx = e[1] /\ call[u].target = e[2]
    BY <1>4, ZenonT(30)
  <2>2. CASE u # t
    BY <1>2, <1>3, <2>1, <2>2, Zenon DEF Moves
  <2>3. CASE u = t
    <3>1. /\ Granted(t).handle = e[1] /\ Granted(t).target = e[2]
          /\ Granted(t).safe = call[t].safe
      BY <2>1, <2>3, Zenon DEF Granted
    <3>2. Granted(t) \in held' /\ (~call[t].safe \/ closed = 0)
      BY <1>1, <2>1, <2>3, Zenon
    <3>3. ~call[t].safe \/ closed' = 0 \/ SegmentToClear(s)'
      BY <3>2, Zenon
    <3> QED
      BY <1>2, <1>3, <3>1, <3>2, <3>3, Zenon
  <2> QED
    BY <2>2, <2>3, Zenon
<1>5. CASE \E h \in held :
              /\ h.handle = e[1] /\ h.target = e[2]
              /\ ~h.safe \/ closed = 0 \/ SegmentToClear(s)
  BY <1>2, <1>3, <1>5, Zenon
<1> QED
  BY <1>4, <1>5, Zenon DEF SlowEntries

(* A step that removes the entries of one handle, whose owner or holder    *)
(* goes: the other entries keep theirs.                                    *)
LEMMA SlowRemoved ==
    ASSUME RegistryControl, SlowEntries, NEW t \in Threads, Moves(t), NEW k,
           \A s \in 0 .. SlowSegmentCnt - 1 : \A e \in slow'[s] : e \in slow[s] /\ e[1] # k,
           UNCHANGED <<slowCtr, closed>>,
           pc[t] = "recheckSlow" => call[t].idx = k,
           \A h \in held : h.handle # k => h \in held',
           pc[t] \notin {"clearFast", "clearSlow"}
    PROVE  SlowEntries'
<1>1. \A s : SegmentToClear(s) => SegmentToClear(s)'
  BY Zenon DEF SegmentToClear, Moves
<1> SUFFICES ASSUME NEW s \in 0 .. SlowSegmentCnt - 1, NEW e \in slow'[s]
             PROVE  /\ e[1] \in FastCap .. slowCtr' - 1 /\ Segment(e[1]) = s
                    /\ \/ \E u \in Threads :
                             pc'[u] = "recheckSlow" /\ call'[u].idx = e[1] /\ call'[u].target = e[2]
                       \/ \E h \in held' :
                             /\ h.handle = e[1] /\ h.target = e[2]
                             /\ ~h.safe \/ closed' = 0 \/ SegmentToClear(s)'
  BY Zenon DEF SlowEntries
<1>2. e \in slow[s] /\ e[1] # k
  BY Zenon
<1>3. e[1] \in FastCap .. slowCtr' - 1 /\ Segment(e[1]) = s
  BY <1>2, Zenon DEF SlowEntries
<1>4. CASE \E u \in Threads :
              pc[u] = "recheckSlow" /\ call[u].idx = e[1] /\ call[u].target = e[2]
  BY <1>2, <1>3, <1>4, ZenonT(60) DEF Moves
<1>5. CASE \E h \in held :
              /\ h.handle = e[1] /\ h.target = e[2]
              /\ ~h.safe \/ closed = 0 \/ SegmentToClear(s)
  BY <1>1, <1>2, <1>3, <1>5, Zenon
<1> QED
  BY <1>2, <1>4, <1>5, Zenon DEF SlowEntries

LEMMA SlowPut ==
    ASSUME RegistryAssumption, RegistryControl, RegistryControl', SlowEntries,
           NEW t \in Threads, PutSlow(t)
    PROVE  SlowEntries'
<1>1. /\ UNCHANGED <<closed, slowCtr, call, held>> /\ Moves(t)
      /\ pc[t] = "putSlow" /\ pc'[t] = "recheckSlow"
      /\ Segment(call[t].idx) \in 0 .. SlowSegmentCnt - 1
  BY PutControl, Zenon DEF PutSlow
<1>2. \A s : SegmentToClear(s) => SegmentToClear(s)'
  BY <1>1, Zenon DEF SegmentToClear, Moves
<1>3. ASSUME NEW s \in 0 .. SlowSegmentCnt - 1, NEW e \in slow'[s]
      PROVE  e \in slow[s] \/ (e = <<call[t].idx, call[t].target>> /\ s = Segment(call[t].idx))
  BY <1>3, Zenon DEF PutSlow, RegistryControl, TypeOK
<1> SUFFICES ASSUME NEW s \in 0 .. SlowSegmentCnt - 1, NEW e \in slow'[s]
             PROVE  /\ e[1] \in FastCap .. slowCtr' - 1 /\ Segment(e[1]) = s
                    /\ \/ \E u \in Threads :
                             pc'[u] = "recheckSlow" /\ call'[u].idx = e[1] /\ call'[u].target = e[2]
                       \/ \E h \in held' :
                             /\ h.handle = e[1] /\ h.target = e[2]
                             /\ ~h.safe \/ closed' = 0 \/ SegmentToClear(s)'
  BY Zenon DEF SlowEntries
<1>4. CASE e = <<call[t].idx, call[t].target>> /\ s = Segment(call[t].idx)
  <2>1. call[t].idx \in FastCap .. slowCtr - 1
    BY <1>1, Zenon DEF RegistryControl, SlowOwner
  <2> QED
    BY <1>1, <1>4, <2>1, Zenon
<1>5. CASE e \in slow[s]
  <2>1. e[1] \in FastCap .. slowCtr - 1 /\ Segment(e[1]) = s
    BY <1>5, Zenon DEF SlowEntries
  <2>2. CASE \E u \in Threads :
                pc[u] = "recheckSlow" /\ call[u].idx = e[1] /\ call[u].target = e[2]
    BY <1>1, <2>1, <2>2, Zenon DEF Moves
  <2>3. CASE \E h \in held :
                /\ h.handle = e[1] /\ h.target = e[2]
                /\ ~h.safe \/ closed = 0 \/ SegmentToClear(s)
    BY <1>1, <1>2, <2>1, <2>3, Zenon
  <2> QED
    BY <1>5, <2>2, <2>3, Zenon DEF SlowEntries
<1> QED
  BY <1>3, <1>4, <1>5, Zenon

(* Close empties a segment, and passes on to the next. *)
LEMMA SlowCleared ==
    ASSUME RegistryAssumption, RegistryControl, RegistryControl', SlowEntries,
           NEW t \in Threads, ClearSlow(t)
    PROVE  SlowEntries'
<1>1. /\ UNCHANGED <<closed, slowCtr, held>> /\ Moves(t) /\ pc[t] = "clearSlow"
      /\ slow \in [0 .. SlowSegmentCnt - 1 -> SUBSET (Nat \X Targets)]
  BY ClearSlowControl, ZenonT(30) DEF ClearSlow, RegistryControl, TypeOK
<1>2. \/ /\ call[t].idx \in 0 .. SlowSegmentCnt - 1
         /\ pc' = pc /\ call'[t].idx = call[t].idx + 1
         /\ slow' = [slow EXCEPT ![call[t].idx] = {}]
      \/ call[t].idx = SlowSegmentCnt /\ slow' = slow
  BY ClearSlowControl, Zenon
<1> SUFFICES ASSUME NEW s \in 0 .. SlowSegmentCnt - 1, NEW e \in slow'[s]
             PROVE  /\ e[1] \in FastCap .. slowCtr' - 1 /\ Segment(e[1]) = s
                    /\ \/ \E u \in Threads :
                             pc'[u] = "recheckSlow" /\ call'[u].idx = e[1] /\ call'[u].target = e[2]
                       \/ \E h \in held' :
                             /\ h.handle = e[1] /\ h.target = e[2]
                             /\ ~h.safe \/ closed' = 0 \/ SegmentToClear(s)'
  BY Zenon DEF SlowEntries
<1>3. e \in slow[s] /\ s # call[t].idx
  <2>1. SlowSegmentCnt \in Nat /\ s \in Int
    BY SMTT(30) DEF RegistryAssumption
  <2> QED
    BY <1>1, <1>2, <2>1, SMTT(30)
<1>4. SegmentToClear(s) => SegmentToClear(s)'
  <2> SUFFICES ASSUME NEW u \in Threads,
                      pc[u] = "clearFast" \/ (pc[u] = "clearSlow" /\ call[u].idx <= s)
               PROVE  SegmentToClear(s)'
    BY Zenon DEF SegmentToClear
  <2>1. CASE u # t
    BY <1>1, <2>1, Zenon DEF SegmentToClear, Moves
  <2>2. CASE u = t
    <3>1. SlowSegmentCnt \in Nat /\ s \in Int /\ call[t].idx \in Int
      <4>1. SlowSegmentCnt \in Nat /\ TypeOK
        BY Zenon DEF RegistryAssumption, RegistryControl
      <4> QED
        BY <4>1, CallTypes, SMTT(30)
    <3>2. call[t].idx <= s
      BY <1>1, <2>2, Zenon
    <3>3. pc' = pc /\ call'[t].idx = call[t].idx + 1
      BY <1>2, <3>1, <3>2, SMTT(30)
    <3>4. call'[t].idx <= s /\ pc'[t] = "clearSlow"
      BY <1>1, <1>3, <3>1, <3>2, <3>3, SMTT(30)
    <3> QED
      BY <3>4, Zenon DEF SegmentToClear
  <2> QED
    BY <2>1, <2>2, Zenon
<1>5. e[1] \in FastCap .. slowCtr' - 1 /\ Segment(e[1]) = s
  BY <1>1, <1>3, Zenon DEF SlowEntries
<1>6. CASE \E u \in Threads :
              pc[u] = "recheckSlow" /\ call[u].idx = e[1] /\ call[u].target = e[2]
  BY <1>1, <1>5, <1>6, Zenon DEF Moves
<1>7. CASE \E h \in held :
              /\ h.handle = e[1] /\ h.target = e[2]
              /\ ~h.safe \/ closed = 0 \/ SegmentToClear(s)
  BY <1>1, <1>4, <1>5, <1>7, Zenon
<1> QED
  BY <1>3, <1>6, <1>7, Zenon DEF SlowEntries

-----------------------------------------------------------------------------
(* A step that leaves the slots and the stores alone. *)
LEMMA FastKept ==
    ASSUME FastSlots, NEW t \in Threads, Moves(t), UNCHANGED <<fast, buffer>>,
           \A h \in held : h.handle \in Slots => h \in held',
           pc[t] # "recheckFast",
           \A i \in Slots : closed = 0 \/ SlotToClear(i) => closed' = 0 \/ SlotToClear(i)'
    PROVE  FastSlots'
<1>1. \A u \in Threads : Stores(u)' = Stores(u)
  BY Zenon DEF Stores
<1>2. ASSUME NEW u \in Threads, NEW store \in Stores(u)', store[2] # Null
      PROVE  pc'[u] = "recheckFast" /\ call'[u].idx = store[1] /\ call'[u].target = store[2]
  BY <1>1, <1>2, SMTT(30) DEF FastSlots, Moves
<1>3. ASSUME NEW i \in Slots, fast[i] # Null
      PROVE  \/ \E u \in Threads :
                   pc'[u] = "recheckFast" /\ call'[u].idx = i /\ call'[u].target = fast[i]
             \/ \E h \in held' :
                   /\ h.handle = i /\ h.target = fast[i]
                   /\ ~h.safe \/ closed' = 0 \/ SlotToClear(i)'
             \/ \E u \in Threads : <<i, Null>> \in Stores(u)'
  <2>1. CASE \E u \in Threads :
                pc[u] = "recheckFast" /\ call[u].idx = i /\ call[u].target = fast[i]
    BY <2>1, Zenon DEF Moves
  <2>2. CASE \E h \in held :
                /\ h.handle = i /\ h.target = fast[i]
                /\ ~h.safe \/ closed = 0 \/ SlotToClear(i)
    BY <2>2, Zenon
  <2>3. CASE \E u \in Threads : <<i, Null>> \in Stores(u)
    BY <1>1, <2>3, Zenon
  <2> QED
    BY <1>3, <2>1, <2>2, <2>3, Zenon DEF FastSlots
<1> QED
  BY <1>2, <1>3, Zenon DEF FastSlots

(* The handle of a slot is given out: its store is in memory. *)
LEMMA FastGranted ==
    ASSUME RegistryControl, FastSlots, NEW t \in Threads, Moves(t), UNCHANGED <<fast, buffer, closed>>,
           pc[t] = "recheckFast", Drained(t), held' = held \cup {Granted(t)},
           ~(call[t].safe /\ closed = 1)
    PROVE  FastSlots'
<1>1. Stores(t) = {} /\ \A u \in Threads : Stores(u)' = Stores(u)
  BY NoElements, Zenon DEF Stores, Drained
<1>2. ASSUME NEW u \in Threads, NEW store \in Stores(u)', store[2] # Null
      PROVE  pc'[u] = "recheckFast" /\ call'[u].idx = store[1] /\ call'[u].target = store[2]
  <2>1. store \in Stores(u) /\ u # t
    BY <1>1, <1>2, Zenon
  <2>2. pc[u] = "recheckFast" /\ call[u].idx = store[1] /\ call[u].target = store[2]
    BY <1>2, <2>1, Zenon DEF FastSlots
  <2> QED
    BY <2>1, <2>2, Zenon DEF Moves
<1>3. ASSUME NEW i \in Slots, fast[i] # Null
      PROVE  \/ \E u \in Threads :
                   pc'[u] = "recheckFast" /\ call'[u].idx = i /\ call'[u].target = fast[i]
             \/ \E h \in held' :
                   /\ h.handle = i /\ h.target = fast[i]
                   /\ ~h.safe \/ closed' = 0 \/ SlotToClear(i)'
             \/ \E u \in Threads : <<i, Null>> \in Stores(u)'
  <2>1. ASSUME NEW u \in Threads,
               pc[u] = "recheckFast" /\ call[u].idx = i /\ call[u].target = fast[i], u # t
        PROVE  pc'[u] = "recheckFast" /\ call'[u].idx = i /\ call'[u].target = fast[i]
    BY <2>1, Zenon DEF Moves
  <2>2. ASSUME call[t].idx = i /\ call[t].target = fast[i]
        PROVE  \E h \in held' : /\ h.handle = i /\ h.target = fast[i]
                                /\ ~h.safe \/ closed' = 0 \/ SlotToClear(i)'
    <3>1. /\ Granted(t).handle = i /\ Granted(t).target = fast[i]
          /\ Granted(t).safe = call[t].safe /\ Granted(t) \in held'
      BY <2>2, Zenon DEF Granted
    <3>2. ~call[t].safe \/ closed' = 0
      BY Zenon DEF RegistryControl, TypeOK
    <3> QED
      BY <3>1, <3>2, Zenon
  <2>3. CASE \E h \in held :
                /\ h.handle = i /\ h.target = fast[i]
                /\ ~h.safe \/ closed = 0 \/ SlotToClear(i)
    <3>1. SlotToClear(i) => SlotToClear(i)'
      BY Zenon DEF SlotToClear, Moves
    <3> QED
      BY <2>3, <3>1, Zenon
  <2>4. CASE \E u \in Threads : <<i, Null>> \in Stores(u)
    BY <1>1, <2>4, Zenon
  <2>5. CASE \E u \in Threads :
                pc[u] = "recheckFast" /\ call[u].idx = i /\ call[u].target = fast[i]
    BY <2>1, <2>2, <2>5, Zenon
  <2> QED
    BY <1>3, <2>3, <2>4, <2>5, Zenon DEF FastSlots
<1> QED
  BY <1>2, <1>3, Zenon DEF FastSlots

(* A target is on its way to its slot. *)
LEMMA FastStored ==
    ASSUME RegistryAssumption, RegistryControl, FastSlots, NEW t \in Threads, StoreFast(t)
    PROVE  FastSlots'
<1>1. /\ UNCHANGED <<closed, fast, call, held>> /\ Moves(t)
      /\ pc[t] = "storeFast" /\ pc'[t] = "recheckFast"
      /\ <<call[t].idx, call[t].target>> \in Slots \X (Targets \cup {Null})
      /\ Store(t, call[t].idx, call[t].target)
  BY PutControl, Zenon DEF StoreFast
<1>2. /\ Stores(t)' = Stores(t) \cup {<<call[t].idx, call[t].target>>}
      /\ \A u \in Threads : u # t => Stores(u)' = Stores(u)
  BY <1>1, StoreDoes, Zenon DEF RegistryControl
<1>3. ASSUME NEW u \in Threads, NEW store \in Stores(u)', store[2] # Null
      PROVE  pc'[u] = "recheckFast" /\ call'[u].idx = store[1] /\ call'[u].target = store[2]
  <2>1. CASE store \in Stores(u)
    BY <1>1, <1>3, <2>1, Zenon DEF FastSlots, Moves
  <2>2. CASE u = t /\ store = <<call[t].idx, call[t].target>>
    BY <1>1, <2>2, Zenon
  <2> QED
    BY <1>2, <1>3, <2>1, <2>2, Zenon
<1>4. ASSUME NEW i \in Slots, fast[i] # Null
      PROVE  \/ \E u \in Threads :
                   pc'[u] = "recheckFast" /\ call'[u].idx = i /\ call'[u].target = fast[i]
             \/ \E h \in held' :
                   /\ h.handle = i /\ h.target = fast[i]
                   /\ ~h.safe \/ closed' = 0 \/ SlotToClear(i)'
             \/ \E u \in Threads : <<i, Null>> \in Stores(u)'
  <2>1. CASE \E u \in Threads :
                pc[u] = "recheckFast" /\ call[u].idx = i /\ call[u].target = fast[i]
    BY <1>1, <2>1, Zenon DEF Moves
  <2>2. CASE \E h \in held :
                /\ h.handle = i /\ h.target = fast[i]
                /\ ~h.safe \/ closed = 0 \/ SlotToClear(i)
    <3>1. SlotToClear(i) => SlotToClear(i)'
      BY <1>1, Zenon DEF SlotToClear, Moves
    <3> QED
      BY <1>1, <2>2, <3>1, Zenon
  <2>3. CASE \E u \in Threads : <<i, Null>> \in Stores(u)
    BY <1>2, <2>3, Zenon
  <2> QED
    BY <1>4, <2>1, <2>2, <2>3, Zenon DEF FastSlots
<1> QED
  BY <1>1, <1>3, <1>4, ZenonT(60) DEF FastSlots

(* A slot is about to be emptied: whoever stood for it may go. *)
LEMMA FastNulled ==
    ASSUME RegistryAssumption, RegistryControl, FastSlots, NEW t \in Threads, NEW i \in Slots,
           <<i, Null>> \in Slots \X (Targets \cup {Null}), Store(t, i, Null),
           UNCHANGED <<closed, fast>>, Moves(t),
           \A h \in held : h.handle # i => h \in held',
           pc[t] = "recheckFast" => call[t].idx = i /\ Drained(t),
           \A j \in Slots : j # i /\ SlotToClear(j) => SlotToClear(j)'
    PROVE  FastSlots'
<1>1. /\ Stores(t)' = Stores(t) \cup {<<i, Null>>}
      /\ \A u \in Threads : u # t => Stores(u)' = Stores(u)
  BY StoreDoes, Zenon DEF RegistryControl
<1>2. pc[t] = "recheckFast" => Stores(t) = {}
  BY NoElements, Zenon DEF Stores, Drained
<1>3. ASSUME NEW u \in Threads, NEW store \in Stores(u)', store[2] # Null
      PROVE  pc'[u] = "recheckFast" /\ call'[u].idx = store[1] /\ call'[u].target = store[2]
  <2>1. store \in Stores(u)
    <3>1. store # <<i, Null>>
      BY <1>3, SMTT(30)
    <3> QED
      BY <1>1, <1>3, <3>1, Zenon
  <2>2. pc[u] = "recheckFast" /\ call[u].idx = store[1] /\ call[u].target = store[2]
    BY <1>3, <2>1, Zenon DEF FastSlots
  <2> QED
    BY <1>2, <2>1, <2>2, Zenon DEF Moves
<1>4. ASSUME NEW j \in Slots, fast[j] # Null
      PROVE  \/ \E u \in Threads :
                   pc'[u] = "recheckFast" /\ call'[u].idx = j /\ call'[u].target = fast[j]
             \/ \E h \in held' :
                   /\ h.handle = j /\ h.target = fast[j]
                   /\ ~h.safe \/ closed' = 0 \/ SlotToClear(j)'
             \/ \E u \in Threads : <<j, Null>> \in Stores(u)'
  <2>1. CASE j = i
    BY <1>1, <2>1, Zenon
  <2>2. CASE j # i /\ \E u \in Threads :
                pc[u] = "recheckFast" /\ call[u].idx = j /\ call[u].target = fast[j]
    BY <2>2, Zenon DEF Moves
  <2>3. CASE j # i /\ \E h \in held :
                /\ h.handle = j /\ h.target = fast[j]
                /\ ~h.safe \/ closed = 0 \/ SlotToClear(j)
    BY <2>3, Zenon
  <2>4. CASE \E u \in Threads : <<j, Null>> \in Stores(u)
    BY <1>1, <2>4, Zenon
  <2> QED
    BY <1>4, <2>1, <2>2, <2>3, <2>4, Zenon DEF FastSlots
<1> QED
  BY <1>3, <1>4, Zenon DEF FastSlots

(* A store reaches memory: a target whose allocation has not looked at     *)
(* closed again, or nothing.                                               *)
LEMMA FastDrained ==
    ASSUME RegistryAssumption, RegistryControl, FastSlots, NEW t \in Threads, Drain(t)
    PROVE  FastSlots'
<1>1. UNCHANGED <<closed, pc, call, held>>
  BY Zenon DEF Drain
<1>2. PICK store : store = Head(buffer[t])
  BY Zenon
<1>3. /\ store \in Stores(t) /\ store \in Slots \X (Targets \cup {Null})
      /\ Stores(t) = {store} \cup Stores(t)'
      /\ \A u \in Threads : u # t => Stores(u)' = Stores(u)
      /\ fast'[store[1]] = store[2]
      /\ \A i \in Slots : i # store[1] => fast'[i] = fast[i]
  BY <1>2, DrainControl, Zenon DEF Stores
<1>4. ASSUME NEW u \in Threads, NEW old \in Stores(u)', old[2] # Null
      PROVE  pc'[u] = "recheckFast" /\ call'[u].idx = old[1] /\ call'[u].target = old[2]
  BY <1>1, <1>3, <1>4, ZenonT(60) DEF FastSlots
<1>5. ASSUME NEW i \in Slots, fast'[i] # Null
      PROVE  \/ \E u \in Threads :
                   pc'[u] = "recheckFast" /\ call'[u].idx = i /\ call'[u].target = fast'[i]
             \/ \E h \in held' :
                   /\ h.handle = i /\ h.target = fast'[i]
                   /\ ~h.safe \/ closed' = 0 \/ SlotToClear(i)'
             \/ \E u \in Threads : <<i, Null>> \in Stores(u)'
  <2>1. CASE i = store[1]
    BY <1>1, <1>3, <1>5, <2>1, SMTT(30) DEF FastSlots
  <2>2. CASE i # store[1]
    <3>1. fast'[i] = fast[i] /\ fast[i] # Null
      BY <1>3, <1>5, <2>2, Zenon
    <3>2. CASE \E u \in Threads :
                  pc[u] = "recheckFast" /\ call[u].idx = i /\ call[u].target = fast[i]
      BY <1>1, <3>1, <3>2, Zenon
    <3>3. CASE \E h \in held :
                  /\ h.handle = i /\ h.target = fast[i]
                  /\ ~h.safe \/ closed = 0 \/ SlotToClear(i)
      BY <1>1, <3>1, <3>3, Zenon DEF SlotToClear
    <3>4. CASE \E u \in Threads : <<i, Null>> \in Stores(u)
      BY <1>3, <2>2, <3>4, SMTT(30)
    <3> QED
      BY <1>5, <3>1, <3>2, <3>3, <3>4, Zenon DEF FastSlots
  <2> QED
    BY <2>1, <2>2, Zenon
<1> QED
  BY <1>4, <1>5, Zenon DEF FastSlots

-----------------------------------------------------------------------------
(* A step of thread t that leaves memory and the held handles alone, and   *)
(* neither gains nor leaves the second look at closed.                     *)
LEMMA QuietStep ==
    ASSUME RegistryAssumption, RegistryInv, RegistryControl',
           NEW t \in Threads, Moves(t), UNCHANGED <<fast, slow, buffer, held>>,
           fastCtr' >= fastCtr, slowCtr' >= slowCtr,
           pc[t] \notin {"recheckFast", "recheckSlow", "clearFast", "clearSlow"},
           pc'[t] \notin {"recheckFast", "recheckSlow"},
           pc'[t] = "storeFast" => call'[t].idx = fastCtr,
           \/ closed' = closed
           \/ closed' = 1 /\ pc'[t] = "clearFast" /\ call'[t].idx = 0
    PROVE  RegistryInv'
<1>1. RegistryControl /\ closed \in {0, 1} /\ FastCap \in Nat
  BY Zenon DEF RegistryInv, RegistryControl, TypeOK, RegistryAssumption
<1>2. RegistryOpen'
  BY <1>1, OpenKept, Zenon DEF RegistryInv, FastOwner
<1>3. \A s \in 0 .. SlowSegmentCnt - 1 :
          closed = 0 \/ SegmentToClear(s) => closed' = 0 \/ SegmentToClear(s)'
  BY <1>1, Zenon DEF SegmentToClear, Moves
<1>4. \A i \in Slots : closed = 0 \/ SlotToClear(i) => closed' = 0 \/ SlotToClear(i)'
  BY <1>1, SMTT(30) DEF SlotToClear, Moves, Slots
<1>5. SlowEntries'
  BY <1>1, <1>3, SlowKept, Zenon DEF RegistryInv
<1>6. FullFence => FastSlots'
  BY <1>4, FastKept, Zenon DEF RegistryInv
<1> QED
  BY <1>2, <1>5, <1>6, Zenon DEF RegistryInv

LEMMA AllocatePreserves ==
    ASSUME RegistryAssumption, RegistryInv, NEW t \in Threads,
           NEW v \in Targets, NEW critical \in BOOLEAN, NEW safe \in BOOLEAN,
           Allocate(t, v, critical, safe)
    PROVE  RegistryInv'
<1>1. RegistryControl
  BY Zenon DEF RegistryInv
<1>2. RegistryControl' /\ Moves(t) /\ pc[t] = "idle" /\ pc'[t] = "checkClosed"
  BY <1>1, AllocateControl, Zenon
<1>3. UNCHANGED <<closed, fastCtr, fast, slowCtr, slow, buffer, held>>
  BY Zenon DEF Allocate
<1>4. fastCtr' >= fastCtr /\ slowCtr' >= slowCtr
  BY <1>1, <1>3, SMTT(30) DEF RegistryControl, TypeOK
<1> QED
  BY <1>2, <1>3, <1>4, QuietStep, Zenon

LEMMA CheckPreserves ==
    ASSUME RegistryAssumption, RegistryInv, NEW t \in Threads, CheckClosed(t) \/ CheckFast(t)
    PROVE  RegistryInv'
<1>1. RegistryControl
  BY Zenon DEF RegistryInv
<1>2. /\ RegistryControl' /\ Moves(t)
      /\ pc[t] \in {"checkClosed", "checkFast"}
      /\ pc'[t] \in {"idle", "checkFast", "takeFast", "takeSlow"}
      /\ pc'[t] = "takeFast" => fastCtr < FastCap
      /\ UNCHANGED <<closed, fastCtr, fast, slowCtr, slow, buffer, held>>
  BY <1>1, CheckControl, Zenon
<1>3. fastCtr' >= fastCtr /\ slowCtr' >= slowCtr
  BY <1>1, <1>2, SMTT(30) DEF RegistryControl, TypeOK
<1> QED
  BY <1>2, <1>3, QuietStep, Zenon

LEMMA TakePreserves ==
    ASSUME RegistryAssumption, RegistryInv, NEW t \in Threads, TakeFast(t) \/ TakeSlow(t)
    PROVE  RegistryInv'
<1>1. RegistryControl /\ fastCtr \in Nat
  BY Zenon DEF RegistryInv, RegistryControl, TypeOK
<1>2. /\ RegistryControl' /\ Moves(t)
      /\ UNCHANGED <<closed, fast, slow, buffer, held>>
      /\ \/ pc[t] = "takeFast" /\ fastCtr' = fastCtr + 1
         \/ pc[t] = "takeSlow" /\ fastCtr' = fastCtr
      /\ slowCtr' >= slowCtr
      /\ pc'[t] \in {"storeFast", "takeSlow", "putSlow"}
      /\ pc'[t] = "storeFast" => call'[t].idx = fastCtr
  BY <1>1, TakeControl, Zenon
<1>3. fastCtr' >= fastCtr
  BY <1>1, <1>2, SMTT(30)
<1>4. pc[t] \in {"takeFast", "takeSlow"}
  BY <1>2, Zenon
<1> QED
  BY <1>2, <1>3, <1>4, QuietStep, Zenon

LEMMA CloseBeginPreserves ==
    ASSUME RegistryAssumption, RegistryInv, NEW t \in Threads, CloseBegin(t)
    PROVE  RegistryInv'
<1>1. RegistryControl
  BY Zenon DEF RegistryInv
<1>2. /\ RegistryControl' /\ Moves(t)
      /\ \/ UNCHANGED <<closed, pc, call>>
         \/ closed' = 1 /\ pc'[t] = "clearFast" /\ call'[t].idx = 0
  BY <1>1, CloseBeginControl, Zenon
<1>3. UNCHANGED <<fastCtr, fast, slowCtr, slow, buffer, held>> /\ pc[t] = "idle"
  BY Zenon DEF CloseBegin
<1>4. pc'[t] \in {"idle", "clearFast"}
  BY <1>2, <1>3, Zenon
<1>5. fastCtr' >= fastCtr /\ slowCtr' >= slowCtr
  BY <1>1, <1>3, SMTT(30) DEF RegistryControl, TypeOK
<1> QED
  BY <1>2, <1>3, <1>4, <1>5, QuietStep, Zenon

LEMMA StoreFastPreserves ==
    ASSUME RegistryAssumption, RegistryInv, NEW t \in Threads, StoreFast(t)
    PROVE  RegistryInv'
<1>1. RegistryControl /\ RegistryOpen /\ SlowEntries
      /\ FastCap \in Nat /\ slowCtr \in Nat
  BY Zenon DEF RegistryInv, RegistryAssumption, RegistryControl, TypeOK
<1>2. /\ RegistryControl' /\ Moves(t) /\ call' = call
      /\ pc[t] = "storeFast" /\ pc'[t] = "recheckFast" /\ slow' = slow
      /\ call[t].idx \in Slots /\ call[t].idx < fastCtr
      /\ <<call[t].idx, call[t].target>> \in Slots \X (Targets \cup {Null})
      /\ UNCHANGED <<closed, fastCtr, fast, slowCtr, held>>
      /\ Store(t, call[t].idx, call[t].target)
  BY <1>1, PutControl, Zenon DEF StoreFast, RegistryControl, FastOwner
<1>3. RegistryOpen'
  <2>1. \A u \in Threads : u # t /\ pc[u] \in FastOwner => call[u].idx # call[t].idx
    BY <1>1, <1>2, Zenon DEF RegistryControl, HandlesAreUnique, FastOwner
  <2>2. CASE closed = 0
    BY <1>1, <1>2, <2>1, <2>2, OpenStored, Zenon
  <2>3. CASE closed # 0
    BY <1>2, <2>3, Zenon DEF RegistryOpen
  <2> QED
    BY <2>2, <2>3, Zenon
<1>4. SlowEntries'
  <2>1. \A s \in 0 .. SlowSegmentCnt - 1 :
            closed = 0 \/ SegmentToClear(s) => closed' = 0 \/ SegmentToClear(s)'
    BY <1>2, Zenon DEF SegmentToClear, Moves
  <2>2. slowCtr' >= slowCtr
    BY <1>1, <1>2, SMTT(30)
  <2> QED
    BY <1>1, <1>2, <2>1, <2>2, SlowKept, Zenon
<1>5. FullFence => FastSlots'
  BY <1>1, FastStored, Zenon DEF RegistryInv
<1> QED
  BY <1>2, <1>3, <1>4, <1>5, Zenon DEF RegistryInv

LEMMA PutSlowPreserves ==
    ASSUME RegistryAssumption, RegistryInv, NEW t \in Threads, PutSlow(t)
    PROVE  RegistryInv'
<1>1. RegistryControl /\ RegistryOpen /\ SlowEntries
  BY Zenon DEF RegistryInv
<1>2. /\ RegistryControl' /\ Moves(t) /\ call' = call
      /\ pc[t] = "putSlow" /\ pc'[t] = "recheckSlow"
      /\ UNCHANGED <<closed, fastCtr, fast, buffer, held>>
  BY <1>1, PutControl, Zenon DEF PutSlow
<1>3. RegistryOpen'
  BY <1>1, <1>2, OpenPut, Zenon
<1>4. SlowEntries'
  BY <1>1, <1>2, SlowPut, Zenon
<1>5. FullFence => FastSlots'
  <2>1. \A i \in Slots : SlotToClear(i) => SlotToClear(i)'
    BY <1>2, Zenon DEF SlotToClear, Moves
  <2> QED
    BY <1>2, <2>1, FastKept, Zenon DEF RegistryInv
<1> QED
  BY <1>2, <1>3, <1>4, <1>5, Zenon DEF RegistryInv

LEMMA RecheckFastPreserves ==
    ASSUME RegistryAssumption, RegistryInv, NEW t \in Threads, RecheckFast(t)
    PROVE  RegistryInv'
<1>1. RegistryControl /\ RegistryOpen /\ SlowEntries
      /\ FastCap \in Nat /\ slowCtr \in Nat
  BY Zenon DEF RegistryInv, RegistryAssumption, RegistryControl, TypeOK
<1>2. /\ RegistryControl' /\ Moves(t) /\ pc[t] = "recheckFast" /\ pc'[t] = "idle"
      /\ slow' = slow /\ UNCHANGED <<closed, fastCtr, fast, slowCtr>>
      /\ call[t].idx \in Slots /\ <<call[t].idx, Null>> \in Slots \X (Targets \cup {Null})
      /\ FullFence => Drained(t)
  BY <1>1, RecheckControl, Zenon DEF RecheckFast, Fence
<1>3. RegistryOpen'
  BY <1>1, <1>2, OpenGranted, Zenon
<1>4. SlowEntries'
  <2>1. \A s \in 0 .. SlowSegmentCnt - 1 :
            closed = 0 \/ SegmentToClear(s) => closed' = 0 \/ SegmentToClear(s)'
    BY <1>2, Zenon DEF SegmentToClear, Moves
  <2>2. slowCtr' >= slowCtr /\ pc[t] # "recheckSlow"
    BY <1>1, <1>2, SameCount, Zenon
  <2>3. held \subseteq held'
    BY Zenon DEF RecheckFast
  <2> QED
    BY <1>1, <1>2, <2>1, <2>2, <2>3, SlowKept, Zenon
<1>5. ASSUME FullFence PROVE FastSlots'
  <2>1. FastSlots /\ Drained(t)
    BY <1>2, <1>5, Zenon DEF RegistryInv
  <2>2. CASE Store(t, call[t].idx, Null) /\ UNCHANGED held
    <3>1. \A j \in Slots : SlotToClear(j) => SlotToClear(j)'
      BY <1>2, Zenon DEF SlotToClear, Moves
    <3> QED
      BY <1>1, <1>2, <2>1, <2>2, <3>1, FastNulled, Zenon
  <2>3. CASE /\ ~(call[t].safe /\ closed = 1)
             /\ held' = held \cup {Granted(t)} /\ UNCHANGED buffer
    BY <1>1, <1>2, <2>1, <2>3, FastGranted, Zenon
  <2> QED
    BY <2>2, <2>3, Zenon DEF RecheckFast
<1> QED
  BY <1>2, <1>3, <1>4, <1>5, Zenon DEF RegistryInv

LEMMA RecheckSlowPreserves ==
    ASSUME RegistryAssumption, RegistryInv, NEW t \in Threads, RecheckSlow(t)
    PROVE  RegistryInv'
<1>1. RegistryControl /\ RegistryOpen /\ SlowEntries
      /\ FastCap \in Nat /\ slowCtr \in Nat
  BY Zenon DEF RegistryInv, RegistryAssumption, RegistryControl, TypeOK
<1>2. /\ RegistryControl' /\ Moves(t) /\ pc[t] = "recheckSlow" /\ pc'[t] = "idle"
      /\ buffer' = buffer /\ UNCHANGED <<closed, fastCtr, fast, slowCtr>>
      /\ Segment(call[t].idx) \in 0 .. SlowSegmentCnt - 1
      /\ held \subseteq held'
  BY <1>1, RecheckControl, Zenon DEF RecheckSlow
<1>3. RegistryOpen'
  BY <1>1, <1>2, OpenGranted, Zenon
<1>4. SlowEntries'
  <2>1. CASE Remove(call[t].idx)
    <3>1. ASSUME NEW s \in 0 .. SlowSegmentCnt - 1, NEW e \in slow'[s]
          PROVE  e \in slow[s] /\ e[1] # call[t].idx
      <4>1. CASE s = Segment(call[t].idx)
        BY <1>1, <1>2, <2>1, <3>1, <4>1, Zenon DEF Remove, RegistryControl, TypeOK
      <4>2. CASE s # Segment(call[t].idx)
        <5>1. e \in slow[s]
          BY <1>1, <1>2, <2>1, <3>1, <4>2, Zenon DEF Remove, RegistryControl, TypeOK
        <5> QED
          BY <1>1, <4>2, <5>1, Zenon DEF SlowEntries
      <4> QED
        BY <4>1, <4>2, Zenon
    <3> QED
      BY <1>1, <1>2, <3>1, SlowRemoved, Zenon
  <2>2. CASE /\ ~(call[t].safe /\ closed = 1)
             /\ held' = held \cup {Granted(t)} /\ UNCHANGED slow
    <3>1. \A s \in 0 .. SlowSegmentCnt - 1 :
              closed = 0 \/ SegmentToClear(s) => closed' = 0 \/ SegmentToClear(s)'
      BY <1>2, Zenon DEF SegmentToClear, Moves
    <3>2. slowCtr' >= slowCtr
      BY <1>1, <1>2, SMTT(30)
    <3> QED
      BY <1>1, <1>2, <2>2, <3>1, <3>2, SlowKept, Zenon
  <2> QED
    BY <2>1, <2>2, Zenon DEF RecheckSlow
<1>5. FullFence => FastSlots'
  <2>1. \A i \in Slots : SlotToClear(i) => SlotToClear(i)'
    BY <1>2, Zenon DEF SlotToClear, Moves
  <2> QED
    BY <1>2, <2>1, FastKept, Zenon DEF RegistryInv
<1> QED
  BY <1>2, <1>3, <1>4, <1>5, Zenon DEF RegistryInv

LEMMA ReleasePreserves ==
    ASSUME RegistryAssumption, RegistryInv, NEW t \in Threads, NEW g \in held, Release(t, g)
    PROVE  RegistryInv'
<1>1. RegistryControl /\ RegistryOpen /\ SlowEntries
      /\ FastCap \in Nat /\ slowCtr \in Nat /\ g.handle \in Nat
  BY Zenon DEF RegistryInv, RegistryAssumption, RegistryControl, TypeOK
<1>2. /\ UNCHANGED <<closed, fastCtr, fast, slowCtr, pc, call>> /\ pc[t] = "idle"
      /\ held' = held \ {g} /\ Moves(t)
  BY Zenon DEF Release, Moves
<1>3. RegistryControl'
  BY <1>1, ReleaseControl, Zenon
<1>4. RegistryOpen'
  BY <1>1, <1>3, OpenReleased, Zenon
<1>5. \A h \in held : h.handle # g.handle => h \in held'
  BY <1>2, Zenon
<1>6. CASE g.handle < FastCap /\ Store(t, g.handle, Null) /\ UNCHANGED slow
  <2>1. g.handle \in Slots /\ <<g.handle, Null>> \in Slots \X (Targets \cup {Null})
    BY <1>1, <1>6, SMTT(30) DEF Slots
  <2>2. \A s \in 0 .. SlowSegmentCnt - 1 : \A e \in slow'[s] : e \in slow[s] /\ e[1] # g.handle
    <3>1. \A s \in 0 .. SlowSegmentCnt - 1 : \A e \in slow[s] : e[1] \in FastCap .. slowCtr - 1
      BY <1>1, Zenon DEF SlowEntries
    <3>2. g.handle \notin FastCap .. slowCtr - 1
      BY <1>1, <1>6, SMTT(30)
    <3> QED
      BY <1>6, <3>1, <3>2, Zenon
  <2>3. SlowEntries'
    BY <1>1, <1>2, <1>5, <2>2, SlowRemoved, Zenon
  <2>4. \A j \in Slots : SlotToClear(j) => SlotToClear(j)'
    BY <1>2, Zenon DEF SlotToClear
  <2>5. FullFence => FastSlots'
    BY <1>1, <1>2, <1>5, <1>6, <2>1, <2>4, FastNulled, ZenonT(60) DEF RegistryInv
  <2> QED
    BY <1>3, <1>4, <2>3, <2>5, Zenon DEF RegistryInv
<1>7. CASE g.handle >= FastCap /\ Remove(g.handle) /\ UNCHANGED buffer
  <2>1. Segment(g.handle) \in 0 .. SlowSegmentCnt - 1
    BY <1>1, SMTT(30) DEF Segment, RegistryAssumption
  <2>2. ASSUME NEW s \in 0 .. SlowSegmentCnt - 1, NEW e \in slow'[s]
        PROVE  e \in slow[s] /\ e[1] # g.handle
    <3>1. CASE s = Segment(g.handle)
      BY <1>1, <1>7, <2>1, <2>2, <3>1, Zenon DEF Remove, RegistryControl, TypeOK
    <3>2. CASE s # Segment(g.handle)
      <4>1. e \in slow[s]
        BY <1>1, <1>7, <2>1, <2>2, <3>2, Zenon DEF Remove, RegistryControl, TypeOK
      <4> QED
        BY <1>1, <3>2, <4>1, Zenon DEF SlowEntries
    <3> QED
      BY <3>1, <3>2, Zenon
  <2>3. SlowEntries'
    BY <1>1, <1>2, <1>5, <2>2, SlowRemoved, Zenon
  <2>4. \A i \in Slots : SlotToClear(i) => SlotToClear(i)'
    BY <1>2, Zenon DEF SlotToClear
  <2>5. \A h \in held : h.handle \in Slots => h \in held'
    BY <1>1, <1>2, <1>7, SMTT(30) DEF Slots
  <2>6. FullFence => FastSlots'
    BY <1>2, <1>7, <2>4, <2>5, FastKept, Zenon DEF RegistryInv
  <2> QED
    BY <1>3, <1>4, <2>3, <2>6, Zenon DEF RegistryInv
<1> QED
  BY <1>6, <1>7, Zenon DEF Release

LEMMA ClearFastPreserves ==
    ASSUME RegistryAssumption, RegistryInv, NEW t \in Threads, ClearFast(t)
    PROVE  RegistryInv'
<1>1. RegistryControl /\ RegistryOpen /\ SlowEntries
      /\ FastCap \in Nat /\ slowCtr \in Nat
  BY Zenon DEF RegistryInv, RegistryAssumption, RegistryControl, TypeOK
<1>2. /\ RegistryControl' /\ Moves(t) /\ pc[t] = "clearFast" /\ closed = 1
      /\ UNCHANGED <<closed, fastCtr, fast, slowCtr, slow, held>>
  BY <1>1, ClearFastControl, Zenon DEF ClearFast
<1>3. \/ /\ call[t].idx \in Slots /\ pc' = pc /\ call'[t].idx = call[t].idx + 1
         /\ <<call[t].idx, Null>> \in Slots \X (Targets \cup {Null})
         /\ Store(t, call[t].idx, Null)
      \/ call[t].idx = FastCap /\ pc'[t] = "clearSlow" /\ buffer' = buffer /\ call'[t].idx = 0
  BY <1>1, ClearFastControl, Zenon
<1>4. pc'[t] \in {"clearFast", "clearSlow"}
  BY <1>2, <1>3, Zenon
<1>5. RegistryOpen'
  <2>1. closed' # 0
    BY <1>2, SMTT(30)
  <2> QED
    BY <2>1, Zenon DEF RegistryOpen
<1>6. SlowEntries'
  <2>1. \A s \in 0 .. SlowSegmentCnt - 1 : SegmentToClear(s)'
    BY <1>2, <1>3, SMTT(30) DEF SegmentToClear
  <2>2. slowCtr' >= slowCtr /\ pc[t] # "recheckSlow"
    BY <1>1, <1>2, SMTT(30)
  <2> QED
    BY <1>1, <1>2, <2>1, <2>2, SlowKept, Zenon
<1>7. ASSUME FullFence PROVE FastSlots'
  <2>1. FastSlots
    BY <1>7, Zenon DEF RegistryInv
  <2>2. CASE /\ call[t].idx \in Slots /\ pc' = pc /\ call'[t].idx = call[t].idx + 1
             /\ <<call[t].idx, Null>> \in Slots \X (Targets \cup {Null})
             /\ Store(t, call[t].idx, Null)
    <3>1. ASSUME NEW j \in Slots, j # call[t].idx, SlotToClear(j) PROVE SlotToClear(j)'
      <4>1. PICK u \in Threads : pc[u] = "clearFast" /\ call[u].idx <= j
        BY <3>1, Zenon DEF SlotToClear
      <4>2. CASE u # t
        BY <1>2, <4>1, <4>2, Zenon DEF SlotToClear, Moves
      <4>3. CASE u = t
        <5>1. call'[t].idx <= j
          BY <1>1, <2>2, <3>1, <4>1, <4>3, SMTT(30) DEF Slots
        <5> QED
          BY <1>2, <2>2, <5>1, Zenon DEF SlotToClear
      <4> QED
        BY <4>2, <4>3, Zenon
    <3> QED
      BY <1>1, <1>2, <2>1, <2>2, <3>1, FastNulled, Zenon
  <2>3. CASE call[t].idx = FastCap /\ pc'[t] = "clearSlow" /\ buffer' = buffer
    <3>1. ASSUME NEW j \in Slots, SlotToClear(j) PROVE SlotToClear(j)'
      <4>1. PICK u \in Threads : pc[u] = "clearFast" /\ call[u].idx <= j
        BY <3>1, Zenon DEF SlotToClear
      <4>2. u # t
        BY <1>1, <2>3, <4>1, SMTT(30) DEF Slots
      <4> QED
        BY <1>2, <4>1, <4>2, Zenon DEF SlotToClear, Moves
    <3>2. \A i \in Slots : closed = 0 \/ SlotToClear(i) => closed' = 0 \/ SlotToClear(i)'
      BY <1>2, <3>1, Zenon
    <3> QED
      BY <1>2, <2>1, <2>3, <3>2, FastKept, Zenon
  <2> QED
    BY <1>3, <2>2, <2>3, Zenon
<1> QED
  BY <1>2, <1>5, <1>6, <1>7, Zenon DEF RegistryInv

LEMMA ClearSlowPreserves ==
    ASSUME RegistryAssumption, RegistryInv, NEW t \in Threads, ClearSlow(t)
    PROVE  RegistryInv'
<1>1. RegistryControl /\ RegistryOpen /\ SlowEntries
  BY Zenon DEF RegistryInv
<1>2. /\ RegistryControl' /\ Moves(t) /\ pc[t] = "clearSlow" /\ closed = 1
      /\ UNCHANGED <<closed, fastCtr, fast, buffer, held>>
      /\ pc'[t] \in {"idle", "clearSlow"}
  <2>1. pc[t] = "clearSlow" /\ UNCHANGED <<closed, fastCtr, fast, buffer, held>>
    BY Zenon DEF ClearSlow
  <2> QED
    BY <1>1, <2>1, ClearSlowControl, Zenon
<1>3. RegistryOpen'
  <2>1. closed' # 0
    BY <1>2, SMTT(30)
  <2> QED
    BY <2>1, Zenon DEF RegistryOpen
<1>4. SlowEntries'
  BY <1>1, <1>2, SlowCleared, Zenon
<1>5. FullFence => FastSlots'
  <2>1. \A i \in Slots : closed = 0 \/ SlotToClear(i) => closed' = 0 \/ SlotToClear(i)'
    BY <1>2, Zenon DEF SlotToClear, Moves
  <2> QED
    BY <1>2, <2>1, FastKept, Zenon DEF RegistryInv
<1> QED
  BY <1>2, <1>3, <1>4, <1>5, Zenon DEF RegistryInv

LEMMA DrainPreserves ==
    ASSUME RegistryAssumption, RegistryInv, NEW t \in Threads, Drain(t)
    PROVE  RegistryInv'
<1>1. RegistryControl /\ RegistryOpen /\ SlowEntries
      /\ FastCap \in Nat /\ slowCtr \in Nat
  BY Zenon DEF RegistryInv, RegistryAssumption, RegistryControl, TypeOK
<1>2. RegistryControl' /\ UNCHANGED <<closed, fastCtr, slowCtr, slow, pc, call, held>>
  BY <1>1, DrainControl, Zenon DEF Drain
<1>3. RegistryOpen'
  BY <1>1, <1>2, OpenDrained, Zenon
<1>4. SlowEntries'
  BY <1>1, <1>2, Zenon DEF SlowEntries, SegmentToClear
<1>5. FullFence => FastSlots'
  BY <1>1, FastDrained, Zenon DEF RegistryInv
<1> QED
  BY <1>2, <1>3, <1>4, <1>5, Zenon DEF RegistryInv

LEMMA RegistryPreserved ==
    ASSUME RegistryAssumption, RegistryInv, [Next]_vars PROVE RegistryInv'
<1>1. CASE UNCHANGED vars
  <2>1. UNCHANGED <<closed, fastCtr, fast, slowCtr, slow, buffer, pc, call, held, allocs>>
    BY <1>1, Zenon DEF vars
  <2>2. RegistryControl'
    BY <2>1, Zenon DEF RegistryInv, RegistryControl, TypeOK, HandlesAreUnique
  <2>3. RegistryOpen'
    BY <2>1, Zenon DEF RegistryInv, RegistryOpen, Stores
  <2>4. SlowEntries'
    BY <2>1, ZenonT(60) DEF RegistryInv, SlowEntries, SegmentToClear
  <2>5. FullFence => FastSlots'
    BY <2>1, Zenon DEF RegistryInv, FastSlots, SlotToClear, Stores
  <2> QED
    BY <2>2, <2>3, <2>4, <2>5, Zenon DEF RegistryInv
<1>2. ASSUME NEW t \in Threads, Step(t) PROVE RegistryInv'
  BY <1>2, CheckPreserves, TakePreserves, StoreFastPreserves, RecheckFastPreserves,
     PutSlowPreserves, RecheckSlowPreserves, ClearFastPreserves, ClearSlowPreserves,
     DrainPreserves, Zenon DEF Step
<1> QED
  BY <1>1, <1>2, AllocatePreserves, ReleasePreserves, CloseBeginPreserves, Zenon DEF Next

-----------------------------------------------------------------------------
(* Where Memory::Fence is a barrier of the processor (Windows), an object  *)
(* allocated in safe mode is not in the registry once it is closed and     *)
(* every call has returned: Close's clearing or the allocation's second    *)
(* look at closed removed it, however the two met.                         *)
THEOREM NothingSafeIsLeft ==
    ASSUME RegistryAssumption, FullFence
    PROVE  Spec => []LeftoversAreUnsafe
<1>1. Init => RegistryInv
  BY RegistryInitially, Zenon
<1>2. RegistryInv /\ [Next]_vars => RegistryInv'
  BY RegistryPreserved, Zenon
<1>3. RegistryInv => LeftoversAreUnsafe
  BY RegistryInvImplies, Zenon
<1> QED
  BY <1>1, <1>2, <1>3, PTL DEF Spec

-----------------------------------------------------------------------------
(* The facts about finite sets, for the fast counter. *)
INSTANCE FiniteSetTheorems

Taking == {t \in Threads : pc[t] = "takeFast"}

(* Entering costs nothing, since who enters saw the counter below its      *)
(* capacity; leaving trades a thread for a count.                          *)
LEMMA BoundedStep ==
    ASSUME RegistryAssumption, RegistryControl, TypeOK', FastCounterIsBounded, NEW t \in Threads,
           \A u \in Threads : u # t => pc'[u] = pc[u],
           \/ UNCHANGED fastCtr /\ (pc'[t] = "takeFast" => pc[t] = "takeFast" \/ fastCtr < FastCap)
           \/ fastCtr' = fastCtr + 1 /\ pc[t] = "takeFast" /\ pc'[t] # "takeFast"
    PROVE  FastCounterIsBounded'
<1>1. /\ IsFiniteSet(Threads) /\ Taking \subseteq Threads /\ Taking' \subseteq Threads
      /\ FastCap \in Nat /\ fastCtr \in Nat
  BY Zenon DEF RegistryAssumption, Taking, RegistryControl, TypeOK
<1>2. /\ IsFiniteSet(Taking) /\ IsFiniteSet(Taking') /\ Cardinality(Taking) \in Nat
      /\ Cardinality(Taking') \in Nat /\ Cardinality(Taking') <= Cardinality(Threads)
      /\ Cardinality(Threads) \in Nat
  BY <1>1, FS_Subset, FS_CardinalityType, Zenon
<1>3. fastCtr + Cardinality(Taking) <= FastCap + Cardinality(Threads) - 1
  BY Zenon DEF FastCounterIsBounded, Taking
<1>4. SUFFICES fastCtr' + Cardinality(Taking') <= FastCap + Cardinality(Threads) - 1
  BY Zenon DEF FastCounterIsBounded, Taking
<1>5. CASE UNCHANGED fastCtr /\ pc'[t] = "takeFast" /\ fastCtr < FastCap
  BY <1>1, <1>2, <1>5, SMTT(30)
<1>6. CASE UNCHANGED fastCtr /\ (pc'[t] = "takeFast" => pc[t] = "takeFast")
  <2>1. Taking' \subseteq Taking
    BY <1>6, Zenon DEF Taking
  <2>2. Cardinality(Taking') <= Cardinality(Taking)
    BY <1>2, <2>1, FS_Subset, ZenonT(60)
  <2> QED
    BY <1>1, <1>2, <1>3, <1>6, <2>2, SMTT(30)
<1>7. CASE fastCtr' = fastCtr + 1 /\ pc[t] = "takeFast" /\ pc'[t] # "takeFast"
  <2>1. Taking' = Taking \ {t} /\ t \in Taking
    BY <1>7, Zenon DEF Taking
  <2>2. Cardinality(Taking') = Cardinality(Taking) - 1
    BY <1>2, <2>1, FS_RemoveElement, ZenonT(60)
  <2> QED
    BY <1>1, <1>2, <1>3, <1>7, <2>2, SMTT(30)
<1> QED
  BY <1>5, <1>6, <1>7, ZenonT(60)

LEMMA BoundedInitially == RegistryAssumption /\ Init => FastCounterIsBounded
<1> SUFFICES ASSUME RegistryAssumption, Init PROVE FastCounterIsBounded
  BY Zenon
<1>1. {t \in Threads : pc[t] = "takeFast"} = {}
  BY Zenon DEF Init
<1>2. Cardinality({t \in Threads : pc[t] = "takeFast"}) = 0
  BY <1>1, FS_EmptySet, Zenon
<1>3. Cardinality(Threads) \in Nat \ {0}
  BY FS_EmptySet, FS_CardinalityType, Zenon DEF RegistryAssumption
<1> QED
  BY <1>2, <1>3, SMTT(30) DEF FastCounterIsBounded, Init, RegistryAssumption

LEMMA BoundedPreserved ==
    ASSUME RegistryAssumption, RegistryControl, TypeOK', FastCounterIsBounded, [Next]_vars
    PROVE  FastCounterIsBounded'
<1> DEFINE Kept(t) ==
      /\ \A u \in Threads : u # t => pc'[u] = pc[u]
      /\ \/ UNCHANGED fastCtr /\ (pc'[t] = "takeFast" => pc[t] = "takeFast" \/ fastCtr < FastCap)
         \/ fastCtr' = fastCtr + 1 /\ pc[t] = "takeFast" /\ pc'[t] # "takeFast"
<1>1. CASE UNCHANGED <<fastCtr, pc>>
  BY <1>1, Zenon DEF FastCounterIsBounded
<1>2. ASSUME NEW t \in Threads, NEW v \in Targets, NEW critical \in BOOLEAN, NEW safe \in BOOLEAN,
             Allocate(t, v, critical, safe)
      PROVE  Kept(t)
  BY <1>2, AllocateControl, ZenonT(30) DEF Moves, Allocate
<1>3. ASSUME NEW t \in Threads, CloseBegin(t) PROVE UNCHANGED <<fastCtr, pc>> \/ Kept(t)
  BY <1>3, CloseBeginControl, Zenon DEF Moves, CloseBegin
<1>4. ASSUME NEW t \in Threads, CheckClosed(t) \/ CheckFast(t) PROVE Kept(t)
  BY <1>4, CheckControl, Zenon DEF Moves
<1>5. ASSUME NEW t \in Threads, TakeFast(t) \/ TakeSlow(t) PROVE Kept(t)
  BY <1>5, TakeControl, Zenon DEF Moves
<1>6. ASSUME NEW t \in Threads, StoreFast(t) \/ PutSlow(t) PROVE Kept(t)
  BY <1>6, PutControl, Zenon DEF Moves, StoreFast, PutSlow
<1>7. ASSUME NEW t \in Threads, RecheckFast(t) \/ RecheckSlow(t) PROVE Kept(t)
  BY <1>7, RecheckControl, Zenon DEF Moves, RecheckFast, RecheckSlow
<1>8. ASSUME NEW t \in Threads, ClearFast(t) PROVE Kept(t)
  BY <1>8, ClearFastControl, Zenon DEF Moves, ClearFast
<1>9. ASSUME NEW t \in Threads, ClearSlow(t) PROVE Kept(t)
  BY <1>9, ClearSlowControl, Zenon DEF Moves, ClearSlow
<1>10. ASSUME NEW t \in Threads, Kept(t) PROVE FastCounterIsBounded'
  BY <1>10, BoundedStep, Zenon
<1>11. \/ UNCHANGED <<fastCtr, pc>>
       \/ \E t \in Threads : Kept(t)
  <2> HIDE DEF Kept
  <2>1. CASE UNCHANGED vars
    BY <2>1, Zenon DEF vars
  <2>2. ASSUME NEW t \in Threads, Drain(t) \/ \E h \in held : Release(t, h)
        PROVE  UNCHANGED <<fastCtr, pc>>
    BY <2>2, Zenon DEF Drain, Release
  <2> QED
    BY <1>2, <1>3, <1>4, <1>5, <1>6, <1>7, <1>8, <1>9, <2>1, <2>2, ZenonT(60) DEF Next, Step
<1> HIDE DEF Kept
<1> QED
  BY <1>1, <1>10, <1>11, Zenon

(* Allocate0, Release and Close of impl/handle_registry.cpp, called by any *)
(* number of threads and whatever the fence does: no two allocations are   *)
(* given the same handle, the fast counter overshoots its capacity by      *)
(* fewer than there are threads, and while the registry is open a handle   *)
(* that was given out and not released finds its target.                   *)
THEOREM HandlesAreSound ==
    ASSUME RegistryAssumption
    PROVE  Spec => [](TypeOK /\ HandlesFindTheirTargets)
<1>1. Init => RegistryInv
  BY RegistryInitially, Zenon
<1>2. RegistryInv /\ [Next]_vars => RegistryInv'
  BY RegistryPreserved, Zenon
<1>3. RegistryInv => TypeOK /\ HandlesAreUnique /\ HeldIsFound
  BY RegistryInvImplies, Zenon
<1>4. Init => FastCounterIsBounded
  BY BoundedInitially, ZenonT(60)
<1>5. RegistryInv /\ RegistryInv' /\ FastCounterIsBounded /\ [Next]_vars => FastCounterIsBounded'
  BY BoundedPreserved, Zenon DEF RegistryInv, RegistryControl
<1>6. RegistryInv /\ FastCounterIsBounded => TypeOK /\ HandlesFindTheirTargets
  BY <1>3, Zenon DEF HandlesFindTheirTargets
<1> QED
  BY <1>1, <1>2, <1>4, <1>5, <1>6, PTL DEF Spec
=============================================================================
