--------------------------- MODULE HandleRegistry ---------------------------
(***************************************************************************)
(* The registry that gives C++ objects the 64-bit handles by which Java    *)
(* calls them back: impl/handle_registry.{h,cpp}.  Several threads         *)
(* allocate, release and look up handles while one of them closes the      *)
(* registry; none of the four entry points takes a lock over the whole     *)
(* operation, so each is one action per access to shared memory.           *)
(*                                                                         *)
(* Memory.  A plain store goes to the storing thread's buffer and reaches  *)
(* memory later (Drain), in order; an atomic read-modify-write and the     *)
(* mutex of a segment wait for the buffer to drain.  So does Memory::Fence *)
(* when it is a barrier of the processor (FullFence): MemoryBarrier() in   *)
(* os/win/src/common/concurrent_os.cpp:30.  On Linux and macOS it is a     *)
(* barrier of the compiler only (os/linux/src/common/concurrent_os.cpp:47) *)
(* and leaves the buffer alone.  A shared pointer is one word here; its    *)
(* two words are the matter of SharedPtr.                                  *)
(***************************************************************************)
EXTENDS Integers, Sequences, FiniteSets

CONSTANTS
    Threads,        \* the threads of the process, Java's callbacks included
    Targets,        \* the objects that are given handles
    FastCap,        \* IgniteEnvironment: DEFAULT_FAST_PATH_CONTAINERS_CAP
    SlowSegmentCnt, \* IgniteEnvironment: DEFAULT_SLOW_PATH_CONTAINERS_CAP
    FullFence,      \* does Memory::Fence wait for the store buffer?
    MaxAllocs       \* bound on the allocations of a behaviour

VARIABLES
    closed,   \* 0 or 1
    fastCtr,  \* the next free fast slot; runs past FastCap
    fast,     \* the fast slots, as memory holds them
    slowCtr,  \* the next slow handle
    slow,     \* the segments: sets of entries <<handle, target>>
    buffer,   \* the stores to fast each thread has not yet published
    pc, call, \* where each thread is and with what arguments
    held,     \* the allocations that returned a handle and are not released
    allocs    \* number of allocations begun

vars == <<closed, fastCtr, fast, slowCtr, slow, buffer, pc, call, held, allocs>>

Null == "null"
Slots == 0 .. FastCap - 1
Idle == [op |-> "idle", idx |-> -1, target |-> Null, critical |-> FALSE, safe |-> FALSE]
Segment(h) == h % SlowSegmentCnt

(* HandleRegistry::HandleRegistry *)
Init ==
    /\ closed = 0
    /\ fastCtr = 0
    /\ fast = [i \in Slots |-> Null]
    /\ slowCtr = FastCap
    /\ slow = [s \in 0 .. SlowSegmentCnt - 1 |-> {}]
    /\ buffer = [t \in Threads |-> <<>>]
    /\ pc = [t \in Threads |-> "idle"]
    /\ call = [t \in Threads |-> Idle]
    /\ held = {}
    /\ allocs = 0

Goto(t, label) == pc' = [pc EXCEPT ![t] = label]

Drained(t) == buffer[t] = <<>>

(* Memory::Fence *)
Fence(t) == FullFence => Drained(t)

(* The oldest buffered store of a thread reaches memory. *)
Drain(t) ==
    /\ ~Drained(t)
    /\ LET store == Head(buffer[t])
       IN fast' = [fast EXCEPT ![store[1]] = store[2]]
    /\ buffer' = [buffer EXCEPT ![t] = Tail(@)]
    /\ UNCHANGED <<closed, fastCtr, slowCtr, slow, pc, call, held, allocs>>

(* A plain store to a fast slot. *)
Store(t, i, v) == buffer' = [buffer EXCEPT ![t] = Append(@, <<i, v>>)]

(* What a thread reads from a fast slot: its own latest store first. *)
Load(t, i) ==
    LET own == {k \in DOMAIN buffer[t] : buffer[t][k][1] = i}
    IN IF own = {}
       THEN fast[i]
       ELSE buffer[t][CHOOSE k \in own : \A j \in own : j <= k][2]

Return(t) ==
    /\ Goto(t, "idle")
    /\ call' = [call EXCEPT ![t] = Idle]

Begin(t, op, idx) ==
    /\ pc[t] = "idle"
    /\ call' = [call EXCEPT ![t] = [Idle EXCEPT !.op = op, !.idx = idx]]

-----------------------------------------------------------------------------
(* Allocate, AllocateCritical, AllocateSafe and AllocateCriticalSafe: the  *)
(* four public calls of Allocate0.  A target is allocated once.            *)
Allocate(t, v, critical, safe) ==
    /\ pc[t] = "idle"
    /\ allocs < MaxAllocs
    /\ \A h \in held : h.target # v
    /\ \A u \in Threads : call[u].target # v
    /\ call' = [call EXCEPT ![t] =
          [op |-> "alloc", idx |-> -1, target |-> v,
           critical |-> critical, safe |-> safe]]
    /\ allocs' = allocs + 1
    /\ Goto(t, "checkClosed")
    /\ UNCHANGED <<closed, fastCtr, fast, slowCtr, slow, buffer, held>>

(* Allocate0: Memory::Fence(); if (closed == 1) return -1 *)
CheckClosed(t) ==
    /\ pc[t] = "checkClosed"
    /\ Fence(t)
    /\ \/ closed = 1 /\ Return(t)
       \/ /\ closed = 0
          /\ Goto(t, IF call[t].critical THEN "checkFast" ELSE "takeSlow")
          /\ UNCHANGED call
    /\ UNCHANGED <<closed, fastCtr, fast, slowCtr, slow, buffer, held, allocs>>

(* Allocate0: if (fastCtr < fastCap), a plain read of the counter *)
CheckFast(t) ==
    /\ pc[t] = "checkFast"
    /\ Goto(t, IF fastCtr < FastCap THEN "takeFast" ELSE "takeSlow")
    /\ UNCHANGED <<closed, fastCtr, fast, slowCtr, slow, buffer, call, held, allocs>>

(* Allocate0: fastIdx = IncrementAndGet32(&fastCtr) - 1; the second test,  *)
(* if (fastIdx < fastCap), for threads that passed the first together      *)
TakeFast(t) ==
    /\ pc[t] = "takeFast"
    /\ Drained(t)
    /\ fastCtr' = fastCtr + 1
    /\ \/ /\ fastCtr < FastCap
          /\ call' = [call EXCEPT ![t].idx = fastCtr]
          /\ Goto(t, "storeFast")
       \/ /\ fastCtr >= FastCap
          /\ Goto(t, "takeSlow")
          /\ UNCHANGED call
    /\ UNCHANGED <<closed, fast, slowCtr, slow, buffer, held, allocs>>

(* Allocate0: fast[fastIdx] = target *)
StoreFast(t) ==
    /\ pc[t] = "storeFast"
    /\ Store(t, call[t].idx, call[t].target)
    /\ Goto(t, "recheckFast")
    /\ UNCHANGED <<closed, fastCtr, fast, slowCtr, slow, call, held, allocs>>

Granted(t) ==
    [handle |-> call[t].idx, target |-> call[t].target, safe |-> call[t].safe]

RecheckFastNever(t) ==
    /\ pc[t] = "recheckFast"
    /\ Fence(t)
    /\ held' = held \cup {Granted(t)}
    /\ Return(t)
    /\ UNCHANGED <<closed, fastCtr, fast, slowCtr, slow, buffer, allocs>>

(* Allocate0: Memory::Fence(); if (safe && closed == 1) the slot is given  *)
(* back and the caller gets -1, otherwise the caller gets the handle       *)
RecheckFast(t) ==
    /\ pc[t] = "recheckFast"
    /\ Fence(t)
    /\ \/ /\ call[t].safe /\ closed = 1
          /\ Store(t, call[t].idx, Null)
          /\ UNCHANGED held
       \/ /\ ~(call[t].safe /\ closed = 1)
          /\ held' = held \cup {Granted(t)}
          /\ UNCHANGED buffer
    /\ Return(t)
    /\ UNCHANGED <<closed, fastCtr, fast, slowCtr, slow, allocs>>

TakeSlowNoStore(t) ==
    /\ pc[t] = "takeSlow"
    /\ Drained(t)
    /\ call' = [call EXCEPT ![t].idx = slowCtr]
    /\ Goto(t, "putSlow")
    /\ UNCHANGED <<closed, fastCtr, fast, slowCtr, slow, buffer, held, allocs>>

(* Allocate0: slowIdx = IncrementAndGet64(&slowCtr) - 1 *)
TakeSlow(t) ==
    /\ pc[t] = "takeSlow"
    /\ Drained(t)
    /\ slowCtr' = slowCtr + 1
    /\ call' = [call EXCEPT ![t].idx = slowCtr]
    /\ Goto(t, "putSlow")
    /\ UNCHANGED <<closed, fastCtr, fast, slow, buffer, held, allocs>>

(* HandleRegistrySegment::Put, under the segment's mutex *)
PutSlow(t) ==
    /\ pc[t] = "putSlow"
    /\ Drained(t)
    /\ slow' = [slow EXCEPT ![Segment(call[t].idx)] =
                   @ \cup {<<call[t].idx, call[t].target>>}]
    /\ Goto(t, "recheckSlow")
    /\ UNCHANGED <<closed, fastCtr, fast, slowCtr, buffer, call, held, allocs>>

(* HandleRegistrySegment::Remove, under the segment's mutex *)
Remove(h) ==
    slow' = [slow EXCEPT ![Segment(h)] = {e \in @ : e[1] # h}]

(* Allocate0: Memory::Fence(); if (safe && closed == 1) segment->Remove *)
RecheckSlow(t) ==
    /\ pc[t] = "recheckSlow"
    /\ Fence(t)
    /\ \/ /\ call[t].safe /\ closed = 1
          /\ Drained(t)
          /\ Remove(call[t].idx)
          /\ UNCHANGED held
       \/ /\ ~(call[t].safe /\ closed = 1)
          /\ held' = held \cup {Granted(t)}
          /\ UNCHANGED slow
    /\ Return(t)
    /\ UNCHANGED <<closed, fastCtr, fast, slowCtr, buffer, allocs>>

-----------------------------------------------------------------------------
(* Release of a handle the caller holds: the slot is overwritten, or the   *)
(* entry removed under the segment's mutex.  A negative handle returns.    *)
Release(t, h) ==
    /\ pc[t] = "idle"
    /\ h \in held
    /\ held' = held \ {h}
    /\ \/ /\ h.handle < FastCap
          /\ Store(t, h.handle, Null)
          /\ UNCHANGED slow
       \/ /\ h.handle >= FastCap
          /\ Drained(t)
          /\ Remove(h.handle)
          /\ UNCHANGED buffer
    /\ UNCHANGED <<closed, fastCtr, fast, slowCtr, pc, call, allocs>>

(* Get, as an expression: what thread t finds under a handle *)
Get(t, h) ==
    IF h < FastCap
    THEN Load(t, h)
    ELSE LET found == {e \in slow[Segment(h)] : e[1] = h}
         IN IF found = {} THEN Null ELSE (CHOOSE e \in found : TRUE)[2]

(* Close: CompareAndSet32(&closed, 0, 1); a second caller returns at once *)
CloseBegin(t) ==
    /\ pc[t] = "idle"
    /\ Drained(t)
    /\ \/ closed = 1 /\ UNCHANGED <<closed, pc, call>>
       \/ closed = 0 /\ closed' = 1 /\ Begin(t, "close", 0) /\ Goto(t, "clearFast")
    /\ UNCHANGED <<fastCtr, fast, slowCtr, slow, buffer, held, allocs>>

(* Close: the fast slots, one store each *)
ClearFast(t) ==
    /\ pc[t] = "clearFast"
    /\ \/ /\ call[t].idx < FastCap
          /\ Store(t, call[t].idx, Null)
          /\ call' = [call EXCEPT ![t].idx = @ + 1]
          /\ UNCHANGED pc
       \/ /\ call[t].idx = FastCap
          /\ call' = [call EXCEPT ![t].idx = 0]
          /\ Goto(t, "clearSlow")
          /\ UNCHANGED buffer
    /\ UNCHANGED <<closed, fastCtr, fast, slowCtr, slow, held, allocs>>

(* Close: the segments, each under its mutex (HandleRegistrySegment::Clear) *)
ClearSlow(t) ==
    /\ pc[t] = "clearSlow"
    /\ Drained(t)
    /\ \/ /\ call[t].idx < SlowSegmentCnt
          /\ slow' = [slow EXCEPT ![call[t].idx] = {}]
          /\ call' = [call EXCEPT ![t].idx = @ + 1]
          /\ UNCHANGED pc
       \/ /\ call[t].idx = SlowSegmentCnt
          /\ Return(t)
          /\ UNCHANGED slow
    /\ UNCHANGED <<closed, fastCtr, fast, slowCtr, buffer, held, allocs>>

Step(t) ==
    \/ CheckClosed(t) \/ CheckFast(t) \/ TakeFast(t) \/ StoreFast(t)
    \/ RecheckFast(t) \/ TakeSlow(t) \/ PutSlow(t) \/ RecheckSlow(t)
    \/ ClearFast(t) \/ ClearSlow(t) \/ Drain(t)

Next ==
    \E t \in Threads :
        \/ \E v \in Targets, critical, safe \in BOOLEAN : Allocate(t, v, critical, safe)
        \/ \E h \in held : Release(t, h)
        \/ CloseBegin(t)
        \/ Step(t)

Spec == Init /\ [][Next]_vars

-----------------------------------------------------------------------------
AllocLabels == {"checkClosed", "checkFast", "takeFast", "storeFast",
                "recheckFast", "takeSlow", "putSlow", "recheckSlow"}

TypeOK ==
    /\ closed \in {0, 1}
    /\ fastCtr \in Nat
    /\ fast \in [Slots -> Targets \cup {Null}]
    /\ slowCtr \in Nat
    /\ slow \in [0 .. SlowSegmentCnt - 1 -> SUBSET (Nat \X Targets)]
    /\ buffer \in [Threads -> Seq(Slots \X (Targets \cup {Null}))]
    /\ pc \in [Threads -> AllocLabels \cup {"idle", "clearFast", "clearSlow"}]
    /\ call \in [Threads -> [op : {"idle", "alloc", "close"}, idx : Int,
                             target : Targets \cup {Null},
                             critical : BOOLEAN, safe : BOOLEAN]]
    /\ held \subseteq [handle : Nat, target : Targets, safe : BOOLEAN]
    /\ allocs \in 0 .. MaxAllocs

(* No two allocations are given the same handle: the two counters are the  *)
(* only thing that keeps the slots of concurrent callers of Allocate0      *)
(* apart, and slow handles start where the fast ones end.                  *)
HandlesAreUnique ==
    /\ \A g, h \in held : g.handle = h.handle => g = h
    /\ \A t \in Threads : pc[t] \in {"storeFast", "recheckFast", "putSlow", "recheckSlow"} =>
          /\ \A h \in held : h.handle # call[t].idx
          /\ \A u \in Threads \ {t} :
                pc[u] \in {"storeFast", "recheckFast", "putSlow", "recheckSlow"}
                => call[u].idx # call[t].idx

(* The fast counter is incremented by every thread that read it below its  *)
(* capacity, so it runs past the capacity, but by fewer than there are     *)
(* threads: the 32-bit counter of a long-lived registry cannot wrap and    *)
(* hand out the first slots again.                                         *)
FastCounterIsBounded ==
    fastCtr + Cardinality({t \in Threads : pc[t] = "takeFast"})
        <= FastCap + Cardinality(Threads) - 1

(* Before the registry is closed, and wherever the stores have reached     *)
(* memory, a handle that was returned and not released finds its target.   *)
HeldIsFound ==
    (closed = 0 /\ \A t \in Threads : Drained(t)) =>
        \A h \in held, t \in Threads : Get(t, h.handle) = h.target

(* No two allocations are given the same handle, a handle that was         *)
(* returned and not released finds its target while the registry is open,  *)
(* and the fast counter never wraps (Allocate0, Get).                      *)
HandlesFindTheirTargets == HandlesAreUnique /\ HeldIsFound /\ FastCounterIsBounded

Quiet == \A t \in Threads : pc[t] = "idle" /\ Drained(t)

(* Once the registry is closed and every call has returned, an object that *)
(* was allocated in safe mode is no longer in it, refused (-1) or not:     *)
(* either the clearing thread or the allocating thread's second look at    *)
(* "closed" removed it.  What is left is what unsafe allocations that were *)
(* under way during Close put there, and their callers hold its handle.    *)
LeftoversAreUnsafe ==
    (closed = 1 /\ Quiet) =>
        /\ \A i \in Slots : fast[i] # Null =>
              \E h \in held : h.handle = i /\ h.target = fast[i] /\ ~h.safe
        /\ \A s \in DOMAIN slow : \A e \in slow[s] :
              \E h \in held : h.handle = e[1] /\ h.target = e[2] /\ ~h.safe
=============================================================================
