----------------------------- MODULE SharedPtr -----------------------------
(***************************************************************************)
(* Reference counting: SharedPointer, SharedPointerImpl and                *)
(* EnableSharedFromThis of common/concurrent.{h,cpp}, in their most        *)
(* delicate use, the double-checked initialisation of common/lazy.h.       *)
(*                                                                         *)
(* A SharedPointer is two words, ptr (the object) and impl (the counter    *)
(* block).  Copying reads both and then increments; Swap, and with it the  *)
(* assignment, writes both.  Neither is atomic, and Lazy::Get reads the    *)
(* instance without its lock first: that is a data race, so the two words  *)
(* may be written in either order.  Counting itself is atomic.             *)
(***************************************************************************)
EXTENDS Integers, FiniteSets

CONSTANTS
    Callers,  \* callers of Lazy::Get
    MaxGets   \* bound on the calls of Lazy::Get per behaviour

VARIABLES
    instance, \* Lazy::instance, the two words
    lock,     \* Lazy::lock
    refCnt,   \* SharedPointerImpl::refCnt of the one object there may be
    made,     \* how often the init function ran
    deleted,  \* how often the deleter ran
    temps,    \* live temporaries of the thread that initialises
    copy,     \* the pointer each caller got from Get
    self,     \* the pointer each caller got from SharedFromThis
    ppc, gets

ptrVars == <<instance, lock, refCnt, made, deleted, temps, copy, self, ppc, gets>>

(* A word is FALSE for the null pointer, TRUE for the object or its block. *)
NullPointer == [ptr |-> FALSE, impl |-> FALSE]
Unlocked == "free"

PtrInit ==
    /\ instance = NullPointer
    /\ lock = Unlocked
    /\ refCnt = 0
    /\ made = 0
    /\ deleted = 0
    /\ temps = 0
    /\ copy = [t \in Callers |-> NullPointer]
    /\ self = [t \in Callers |-> NullPointer]
    /\ ppc = [t \in Callers |-> "idle"]
    /\ gets = 0

PtrTo(t, label) == ppc' = [ppc EXCEPT ![t] = label]

(* SharedPointer::IsValid and SharedPointer::Get *)
PtrIsValid(p) == p.impl
Points(p) == p.ptr

-----------------------------------------------------------------------------
(* Lazy::Get: the first test of instance.Get(), without the lock *)
Look(t) ==
    /\ ppc[t] = "idle" /\ gets < MaxGets
    /\ gets' = gets + 1
    /\ PtrTo(t, IF Points(instance) THEN "copy" ELSE "lock")
    /\ UNCHANGED <<instance, lock, refCnt, made, deleted, temps, copy, self>>

(* The copy constructor: it counts only when it read a counter block.      *)
(* refCnt > 0 is not tested: a copy of a counted pointer is always counted.*)
CopyOf(p, t) ==
    /\ copy' = [copy EXCEPT ![t] = p]
    /\ refCnt' = IF p.impl THEN refCnt + 1 ELSE refCnt

(* Lazy::Get: return instance, unlocked *)
CopyUnlocked(t) ==
    /\ ppc[t] = "copy"
    /\ CopyOf(instance, t)
    /\ PtrTo(t, "have")
    /\ UNCHANGED <<instance, lock, made, deleted, temps, self, gets>>

(* CsLockGuard *)
Lock(t) ==
    /\ ppc[t] = "lock" /\ lock = Unlocked
    /\ lock' = t
    /\ PtrTo(t, "locked")
    /\ UNCHANGED <<instance, refCnt, made, deleted, temps, copy, self, gets>>

LookAgainNot(t) ==
    /\ ppc[t] = "locked"
    /\ made' = made + 1
    /\ refCnt' = 1
    /\ temps' = 1
    /\ PtrTo(t, "assign")
    /\ UNCHANGED <<lock, instance, deleted, copy, self, gets>>

(* Lazy::Get: the second test, with the lock, and the init function: the   *)
(* temporary that holds the new object counts 1 (SharedPointerImpl)        *)
LookAgain(t) ==
    /\ ppc[t] = "locked"
    /\ \/ /\ Points(instance)
          /\ PtrTo(t, "copyLocked")
          /\ UNCHANGED <<made, refCnt, temps>>
       \/ /\ ~Points(instance)
          /\ made' = made + 1
          /\ refCnt' = 1
          /\ temps' = 1
          /\ PtrTo(t, "assign")
    /\ UNCHANGED <<lock, instance, deleted, copy, self, gets>>

(* operator=: SharedPointer tmp(other), then the first word of Swap *)
Assign(t) ==
    /\ ppc[t] = "assign"
    /\ refCnt' = refCnt + 1
    /\ temps' = temps + 1
    /\ \E word \in {"ptr", "impl"} : instance' = [instance EXCEPT ![word] = TRUE]
    /\ PtrTo(t, "swapped")
    /\ UNCHANGED <<lock, made, deleted, copy, self, gets>>

(* Swap, the second word: tmp now holds the old, null, words *)
Swapped(t) ==
    /\ ppc[t] = "swapped"
    /\ instance' = [ptr |-> TRUE, impl |-> TRUE]
    /\ temps' = temps - 1
    /\ PtrTo(t, "drop")
    /\ UNCHANGED <<lock, refCnt, made, deleted, copy, self, gets>>

(* The temporary goes: ~SharedPointer, Decrement *)
DropTemporary(t) ==
    /\ ppc[t] = "drop"
    /\ refCnt' = refCnt - 1
    /\ temps' = temps - 1
    /\ PtrTo(t, "copyLocked")
    /\ UNCHANGED <<instance, lock, made, deleted, copy, self, gets>>

(* Lazy::Get: return instance, and the guard's destructor *)
CopyLocked(t) ==
    /\ ppc[t] = "copyLocked"
    /\ CopyOf(instance, t)
    /\ lock' = Unlocked
    /\ PtrTo(t, "have")
    /\ UNCHANGED <<instance, made, deleted, temps, self, gets>>

-----------------------------------------------------------------------------
(* ~SharedPointer: if (impl && impl->Decrement()) the deleter runs *)
ReleasePtr(p) ==
    /\ refCnt' = IF p.impl THEN refCnt - 1 ELSE refCnt
    /\ deleted' = IF p.impl /\ refCnt = 1 THEN deleted + 1 ELSE deleted

(* EnableSharedFromThis::SharedFromThis: the new pointer gets the counter  *)
(* block and is counted; its ptr word stays what the default constructor   *)
(* made it, null                                                           *)
SharedFromThis(t) ==
    /\ ppc[t] = "have" /\ copy[t].impl /\ ~self[t].impl
    /\ self' = [self EXCEPT ![t] = [ptr |-> FALSE, impl |-> TRUE]]
    /\ refCnt' = refCnt + 1
    /\ UNCHANGED <<instance, lock, made, deleted, temps, copy, ppc, gets>>

(* A caller is done with what Get returned. *)
Drop(t) ==
    /\ ppc[t] = "have"
    /\ ReleasePtr(copy[t])
    /\ copy' = [copy EXCEPT ![t] = NullPointer]
    /\ PtrTo(t, IF self[t].impl THEN "self" ELSE "idle")
    /\ UNCHANGED <<instance, lock, made, temps, self, gets>>

(* ... and with what SharedFromThis returned, perhaps after the other. *)
DropSelf(t) ==
    /\ ppc[t] = "self"
    /\ ReleasePtr(self[t])
    /\ self' = [self EXCEPT ![t] = NullPointer]
    /\ PtrTo(t, "idle")
    /\ UNCHANGED <<instance, lock, made, temps, copy, gets>>

(* The Lazy itself is destroyed, with IgniteImpl: nobody is inside Get and *)
(* nobody will call it again, but callers may still hold copies.           *)
DestroyLazy ==
    /\ \A t \in Callers : ppc[t] \in {"idle", "have", "self"}
    /\ instance.ptr
    /\ ReleasePtr(instance)
    /\ instance' = NullPointer
    /\ gets' = MaxGets
    /\ UNCHANGED <<lock, made, temps, copy, self, ppc>>

PtrNext ==
    \/ \E t \in Callers :
          \/ Look(t) \/ CopyUnlocked(t) \/ Lock(t) \/ LookAgain(t) \/ Assign(t)
          \/ Swapped(t) \/ DropTemporary(t) \/ CopyLocked(t)
          \/ SharedFromThis(t) \/ Drop(t) \/ DropSelf(t)
    \/ DestroyLazy

PtrSpec == PtrInit /\ [][PtrNext]_ptrVars

-----------------------------------------------------------------------------
PtrLabels == {"idle", "copy", "lock", "locked", "assign", "swapped", "drop",
           "copyLocked", "have", "self"}
Pointer == [ptr : BOOLEAN, impl : BOOLEAN]

PtrTypeOK ==
    /\ instance \in Pointer
    /\ lock \in Callers \cup {Unlocked}
    /\ \A t \in Callers :
          lock = t <=> ppc[t] \in {"locked", "assign", "swapped", "drop", "copyLocked"}
    /\ refCnt \in Int /\ made \in Nat /\ deleted \in Nat /\ temps \in 0 .. 2
    /\ copy \in [Callers -> Pointer] /\ self \in [Callers -> Pointer]
    /\ ppc \in [Callers -> PtrLabels]
    /\ gets \in 0 .. MaxGets

(* The counter counts the pointers that hold its block: the instance, what *)
(* callers hold and the temporaries on the way, however the unlocked       *)
(* copies of Lazy::Get and the assignment interleave.                      *)
CountIsHolders ==
    refCnt = (IF instance.impl THEN 1 ELSE 0)
             + (IF \E t \in Callers : ppc[t] = "swapped" THEN
                   (IF instance.impl THEN 1 ELSE 2)
                ELSE temps)
             + Cardinality({t \in Callers : copy[t].impl})
             + Cardinality({t \in Callers : self[t].impl})

(* The object is deleted once, when the last pointer that counts it goes,  *)
(* and no earlier: a caller whose pointer says IsValid holds a live        *)
(* object, also after the Lazy is gone.                                    *)
GoneWithLast ==
    /\ deleted <= 1
    /\ (made > 0 /\ refCnt = 0) <=> deleted = 1
    /\ deleted = 1 => \A t \in Callers : ~PtrIsValid(copy[t]) /\ ~PtrIsValid(self[t])

(* The init function runs once however many callers find the instance      *)
(* unset together.                                                         *)
MadeOnce == made <= 1

(* Lazy and SharedPointerImpl: the object is made once, the counter counts *)
(* the pointers that hold it, and it is deleted with the last of them.     *)
DeletedWithLast == MadeOnce /\ CountIsHolders /\ GoneWithLast
=============================================================================
