-------------------------------- MODULE Jvm --------------------------------
(***************************************************************************)
(* The Java virtual machine behind the driver (src/jni/java.cpp,           *)
(* src/jni/os/linux/utils.cpp).  There is one per process, made by the     *)
(* first connection that needs it, or found there when the application     *)
(* brought its own.  Connections are opened on any thread, so the whole of *)
(* JniContext::Create runs under JVM_LOCK; every later call attaches its   *)
(* thread first, and a thread that was attached is detached as it ends.    *)
(***************************************************************************)
EXTENDS Naturals

CONSTANTS
    Threads,       \* the application's threads
    NoThread,      \* nobody holds JVM_LOCK
    MaxOpens,      \* bound: the connections a thread opens
    HostMayRun     \* the application may run a JVM of its own

ASSUME JvmAssumption ==
    /\ NoThread \notin Threads
    /\ MaxOpens \in Nat
    /\ HostMayRun \in BOOLEAN

VARIABLES
    vm,        \* the JVM of the process, by who made it
    JVM,       \* the static JVM is set: it points at vm, members and all
    lock,      \* who holds JVM_LOCK
    pc,        \* where each thread is; "IDLE" between calls
    local,     \* the variable jvm of Create is set
    attached,  \* the threads attached to vm
    ours,      \* those that the driver attached
    key,       \* the threads whose attachKey holds an AttachHelper
    ctx,       \* jniContext_ of the thread's connection is valid
    answer,    \* what the thread's last Create returned
    opens      \* the connections it has opened

vars == <<vm, JVM, lock, pc, local, attached, ours, key, ctx, answer, opens>>

Init ==
    /\ vm = "NONE" /\ JVM = FALSE /\ lock = NoThread
    /\ pc = [t \in Threads |-> "IDLE"]
    /\ local = [t \in Threads |-> FALSE]
    /\ attached = {} /\ ours = {} /\ key = {}
    /\ ctx = [t \in Threads |-> FALSE]
    /\ answer = [t \in Threads |-> "NONE"]
    /\ opens = [t \in Threads |-> 0]

Running == vm \in {"HOST", "DRIVER"}

Goto(t, label) == pc' = [pc EXCEPT ![t] = label]

At(t, label) == pc[t] = label

-----------------------------------------------------------------------------
(***************************************************************************)
(* JniContext::Create.                                                     *)
(***************************************************************************)

(* Connection::GetJniContext of a new connection. *)
Open(t) ==
    /\ At(t, "IDLE") /\ opens[t] < MaxOpens
    /\ Goto(t, "ENTER")
    /\ ctx' = [ctx EXCEPT ![t] = FALSE]
    /\ opens' = [opens EXCEPT ![t] = @ + 1]
    /\ UNCHANGED <<vm, JVM, lock, local, attached, ours, key, answer>>

(* Mutant: nothing keeps a second thread out. *)
EnterUnlocked(t) ==
    /\ At(t, "ENTER")
    /\ lock' = t
    /\ local' = [local EXCEPT ![t] = FALSE]
    /\ Goto(t, IF JVM THEN "CONTEXT" ELSE "LOOKUP")
    /\ UNCHANGED <<vm, JVM, attached, ours, key, ctx, answer, opens>>

(* JVM_LOCK.Enter, and whether there is a JVM already. *)
Enter(t) ==
    /\ At(t, "ENTER")
    /\ lock = NoThread
    /\ lock' = t
    /\ local' = [local EXCEPT ![t] = FALSE]
    /\ Goto(t, IF JVM THEN "CONTEXT" ELSE "LOOKUP")
    /\ UNCHANGED <<vm, JVM, attached, ours, key, ctx, answer, opens>>

(* The first half of GetOrCreateJvm: a JVM that exists is taken if GetEnv  *)
(* gives this thread an environment, which it does only when the thread is *)
(* attached.                                                               *)
Lookup(t) ==
    /\ At(t, "LOOKUP")
    /\ local' = IF Running THEN [local EXCEPT ![t] = TRUE] ELSE local
    /\ Goto(t, IF Running /\ t \in attached THEN "INITIALIZE" ELSE "CREATE")
    /\ UNCHANGED <<vm, JVM, lock, attached, ours, key, ctx, answer, opens>>

(* Its second half: JNI_CreateJavaVM, which attaches the thread, fails for *)
(* its options or for memory, and always when there is a JVM or has been.  *)
CreateJavaVM(t) ==
    /\ At(t, "CREATE")
    /\ \/ /\ vm = "NONE"
          /\ vm' = "DRIVER"
          /\ attached' = {t} /\ ours' = {t}
          /\ local' = [local EXCEPT ![t] = TRUE]
          /\ Goto(t, "INITIALIZE")
          /\ UNCHANGED answer
       \/ /\ answer' = [answer EXCEPT ![t] = IF Running THEN "EEXIST" ELSE "ERR"]
          /\ Goto(t, "CONTEXT")
          /\ UNCHANGED <<vm, attached, ours, local>>
    /\ UNCHANGED <<JVM, lock, key, ctx, opens>>

(* JniJavaMembers::Initialize and JniMembers::Initialize look up each      *)
(* class and method; the first that is missing throws.                     *)
Initialize(t) ==
    /\ At(t, "INITIALIZE")
    /\ \E label \in {"PUBLISH", "CATCH"} : Goto(t, label)
    /\ UNCHANGED <<vm, JVM, lock, local, attached, ours, key, ctx, answer, opens>>

(* JVM = JniJvm(jvm, javaMembers, members) *)
Publish(t) ==
    /\ At(t, "PUBLISH")
    /\ JVM' = TRUE
    /\ Goto(t, "CONTEXT")
    /\ UNCHANGED <<vm, lock, local, attached, ours, key, ctx, answer, opens>>

(* The catch clause: the error is read, the classes found are let go and   *)
(* the JVM is destroyed, which waits until this is the last thread         *)
(* attached.                                                               *)
Catch(t) ==
    /\ At(t, "CATCH")
    /\ IF local[t]
       THEN attached \subseteq {t} /\ vm' = "DESTROYED" /\ attached' = {} /\ ours' = {}
       ELSE UNCHANGED <<vm, attached, ours>>
    /\ answer' = [answer EXCEPT ![t] = "EXCEPTION"]
    /\ Goto(t, "LEAVE")
    /\ UNCHANGED <<JVM, lock, local, key, ctx, opens>>

(* Mutant: it tries until there is a JVM. *)
ContextRetries(t) ==
    /\ At(t, "CONTEXT")
    /\ ctx' = [ctx EXCEPT ![t] = JVM]
    /\ answer' = [answer EXCEPT ![t] = IF JVM THEN "CONTEXT" ELSE @]
    /\ Goto(t, IF JVM THEN "LEAVE" ELSE "LOOKUP")
    /\ UNCHANGED <<vm, JVM, lock, local, attached, ours, key, opens>>

(* Mutant: a context is made whether a JVM is published or not. *)
ContextAlways(t) ==
    /\ At(t, "CONTEXT")
    /\ ctx' = [ctx EXCEPT ![t] = TRUE]
    /\ answer' = [answer EXCEPT ![t] = "CONTEXT"]
    /\ Goto(t, "LEAVE")
    /\ UNCHANGED <<vm, JVM, lock, local, attached, ours, key, opens>>

(* new JniContext(&JVM, hnds), if there is a JVM. *)
Context(t) ==
    /\ At(t, "CONTEXT")
    /\ ctx' = [ctx EXCEPT ![t] = JVM]
    /\ answer' = [answer EXCEPT ![t] = IF JVM THEN "CONTEXT" ELSE @]
    /\ Goto(t, "LEAVE")
    /\ UNCHANGED <<vm, JVM, lock, local, attached, ours, key, opens>>

(* JVM_LOCK.Leave.  With a context, DocumentDbConnection::Open follows. *)
Leave(t) ==
    /\ At(t, "LEAVE")
    /\ lock' = NoThread
    /\ Goto(t, IF ctx[t] THEN "CONNECT" ELSE "IDLE")
    /\ UNCHANGED <<vm, JVM, local, attached, ours, key, ctx, answer, opens>>

-----------------------------------------------------------------------------
(***************************************************************************)
(* Attaching and detaching.                                                *)
(***************************************************************************)

(* Mutant: AttachHelper::OnThreadAttach is not called. *)
AttachCurrentThreadUnnoticed(t) ==
    /\ attached' = attached \cup {t}
    /\ ours' = IF t \in attached THEN ours ELSE ours \cup {t}
    /\ UNCHANGED key

(* AttachCurrentThread and AttachHelper::OnThreadAttach, which leaves an   *)
(* AttachHelper in the thread's attachKey.                                 *)
AttachCurrentThread(t) ==
    /\ attached' = attached \cup {t}
    /\ ours' = IF t \in attached THEN ours ELSE ours \cup {t}
    /\ key' = key \cup {t}

(* JniContext::Attach; a thread that is attached already cannot fail.      *)
Attach(t) ==
    \/ AttachCurrentThread(t)
    \/ t \notin attached /\ UNCHANGED <<attached, ours, key>>

(* The first call on the new context. *)
DriverManagerGetConnection(t) ==
    /\ At(t, "CONNECT")
    /\ Attach(t)
    /\ Goto(t, "IDLE")
    /\ UNCHANGED <<vm, JVM, lock, local, ctx, answer, opens>>

(* Every other method of JniContext, Acquire included. *)
Call(t) ==
    /\ At(t, "IDLE") /\ ctx[t]
    /\ Attach(t)
    /\ UNCHANGED <<vm, JVM, lock, pc, local, ctx, answer, opens>>

(* JniContext::Release and Reallocate, which are static: any thread may    *)
(* call them, with or without a connection of its own.                     *)
Release(t) ==
    /\ At(t, "IDLE") /\ JVM
    /\ Attach(t)
    /\ UNCHANGED <<vm, JVM, lock, pc, local, ctx, answer, opens>>

(* JniContext::Detach *)
Detach(t) == IF JVM THEN attached \ {t} ELSE attached

(* A thread ends.  pthread destroys its AttachHelper, if it has one, whose *)
(* destructor detaches it.                                                 *)
Exit(t) ==
    /\ At(t, "IDLE")
    /\ Goto(t, "EXITED")
    /\ attached' = IF t \in key THEN Detach(t) ELSE attached
    /\ key' = key \ {t}
    /\ UNCHANGED <<vm, JVM, lock, local, ours, ctx, answer, opens>>

-----------------------------------------------------------------------------
(***************************************************************************)
(* The application's own use of Java.                                      *)
(***************************************************************************)

HostCreate(t) ==
    /\ HostMayRun /\ At(t, "IDLE") /\ vm = "NONE"
    /\ vm' = "HOST"
    /\ attached' = {t} /\ ours' = {}
    /\ UNCHANGED <<JVM, lock, pc, local, key, ctx, answer, opens>>

HostAttach(t) ==
    /\ vm = "HOST" /\ At(t, "IDLE") /\ t \notin attached
    /\ attached' = attached \cup {t} /\ ours' = ours \ {t}
    /\ UNCHANGED <<vm, JVM, lock, pc, local, key, ctx, answer, opens>>

-----------------------------------------------------------------------------
(* A thread inside Create or the call that follows it. *)
Step(t) ==
    \/ Enter(t) \/ Lookup(t) \/ CreateJavaVM(t) \/ Initialize(t) \/ Publish(t)
    \/ Catch(t) \/ Context(t) \/ Leave(t) \/ DriverManagerGetConnection(t)

Done == (\A t \in Threads : At(t, "EXITED")) /\ UNCHANGED vars

Next ==
    \/ \E t \in Threads :
          Step(t) \/ Open(t) \/ Call(t) \/ Release(t) \/ Exit(t)
          \/ HostCreate(t) \/ HostAttach(t)
    \/ Done

Spec == Init /\ [][Next]_vars

(* The operating system runs every thread; Create waits for JVM_LOCK, and  *)
(* for other threads to detach from a JVM it destroys.                     *)
FairSpec == Spec /\ \A t \in Threads : WF_vars(Step(t))

Labels == {"IDLE", "ENTER", "LOOKUP", "CREATE", "INITIALIZE", "PUBLISH", "CATCH",
           "CONTEXT", "LEAVE", "CONNECT", "EXITED"}

(* The states type-correct code can be in. *)
TypeOK ==
    /\ vm \in {"NONE", "HOST", "DRIVER", "DESTROYED"} /\ JVM \in BOOLEAN
    /\ lock \in Threads \cup {NoThread}
    /\ pc \in [Threads -> Labels]
    /\ local \in [Threads -> BOOLEAN]
    /\ attached \subseteq Threads /\ ours \subseteq Threads /\ key \subseteq Threads
    /\ ctx \in [Threads -> BOOLEAN]
    /\ answer \in [Threads -> {"NONE", "EEXIST", "ERR", "EXCEPTION", "CONTEXT"}]
    /\ opens \in [Threads -> 0..MaxOpens]

(* Where JVM_LOCK is held, and where Create has seen no JVM under it. *)
Inside == {"LOOKUP", "CREATE", "INITIALIZE", "PUBLISH", "CATCH", "CONTEXT", "LEAVE"}

Unpublished == {"LOOKUP", "CREATE", "INITIALIZE", "PUBLISH", "CATCH"}

(* A thread with an environment, its own or that of the JVM it has made.   *)
Owning == {"INITIALIZE", "PUBLISH", "CATCH"}

(* What Create relies on while it holds JVM_LOCK: it alone is inside, and  *)
(* what it saw of the JVM when it came in, or did to it since, still holds *)
(* (java.cpp, Create between JVM_LOCK.Enter and JVM_LOCK.Leave).           *)
CreateIsExclusive ==
    /\ TypeOK
    /\ \A t \in Threads : pc[t] \in Inside <=> lock = t
    /\ \A t \in Threads : pc[t] \in Unpublished => ~JVM
    /\ \A t \in Threads : pc[t] \in Owning => Running /\ local[t]

(* The JVM that the static JVM points at, and every context through it, is *)
(* running: no Create that fails in its own attempt destroys the machine   *)
(* another thread's connections use (JVM_LOCK around the whole of Create). *)
PublishedJvmRuns == JVM \/ (\E t \in Threads : ctx[t]) => JVM /\ Running

(* A thread that the driver attached is not attached any more once it has  *)
(* ended: whichever call attached it has left an AttachHelper in its       *)
(* attachKey (OnThreadAttach, DestroyAttachKey).                           *)
ExitedThreadsAreDetached ==
    \A t \in Threads : At(t, "EXITED") => t \notin attached \cap ours

(* Every Create returns, with a context or with an error; no error path    *)
(* keeps JVM_LOCK.                                                         *)
CreateReturns ==
    \A t \in Threads : At(t, "ENTER") ~> At(t, "IDLE")
=============================================================================
