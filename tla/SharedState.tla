---------------------------- MODULE SharedState ----------------------------
(***************************************************************************)
(* What a Future and its Promise share: common/shared_state.h, with        *)
(* common/promise.h and future.h, which forward to it, and the condition   *)
(* variable of os/*/common/concurrent_os.h.  Threads wait on the future,   *)
(* callbacks complete the promise, one thread cancels, and the promise is  *)
(* destroyed with the task that holds it.                                  *)
(*                                                                         *)
(* Every method but Cancel and the two waits runs from lock to unlock      *)
(* without blocking, so it is one action that needs the mutex to be free.  *)
(* Each thread makes one call.  The condition variable may wake a thread   *)
(* with nobody having notified it, as POSIX and Win32 both allow.          *)
(***************************************************************************)
EXTENDS Integers, FiniteSets

CONSTANTS
    Waiters,        \* threads that call Wait, WaitFor or GetValue
    Completers,     \* callback threads that call SetValue or SetError
    Canceller,      \* the thread that calls Cancel
    Values,         \* the values a promise may be given
    Errors          \* the errors a promise may be given

VARIABLES
    recursive,      \* the build: CRITICAL_SECTION may be entered twice by a
                    \* thread, the default pthread_mutex_t may not
    value, error,   \* at most one of them is ever set
    mutex,          \* the thread inside a critical section, or Free
    waiting,        \* threads asleep on the condition variable
    promise,        \* does the Promise still exist?
    cancelTarget,   \* has SetCancelTarget been called?
    spc, outcome    \* where each thread is, and what its call returned

stateVars == <<recursive, value, error, mutex, waiting, promise, cancelTarget, spc, outcome>>

Actors == Waiters \cup Completers \cup {Canceller}
Free == "free"
NoValue == "no value"
Success == "DOCUMENTDB_SUCCESS"
Broken == "Broken promise"
AlreadySet == "DOCUMENTDB_ERR_FUTURE_STATE"
NoResult == "no result"
Woke == "notified"
TimedOut == "timeout"
Returned == "done"

(* SharedState::SharedState, and the threads about to make their call *)
StateInit ==
    /\ recursive \in BOOLEAN
    /\ value = NoValue
    /\ error = Success
    /\ mutex = Free
    /\ waiting = {}
    /\ promise = TRUE
    /\ cancelTarget = FALSE
    /\ spc = [t \in Actors |-> "idle"]
    /\ outcome = [t \in Actors |-> NoResult]

(* SharedState::IsSet *)
IsSet == value # NoValue \/ error # Success

Finish(t, r) ==
    /\ spc' = [spc EXCEPT ![t] = Returned]
    /\ outcome' = [outcome EXCEPT ![t] = r]

(* ConditionVariable::NotifyAll: pthread_cond_broadcast *)
NotifyAll == waiting' = {}

-----------------------------------------------------------------------------
(* SetValue and its refusal when an outcome is already there *)
SetValue(t, v) ==
    /\ spc[t] = "idle" /\ promise /\ mutex = Free
    /\ \/ IsSet /\ Finish(t, AlreadySet) /\ UNCHANGED <<value, waiting>>
       \/ ~IsSet /\ value' = v /\ NotifyAll /\ Finish(t, Success)
    /\ UNCHANGED <<recursive, error, mutex, promise, cancelTarget>>

SetErrorOver(t, e) ==
    /\ spc[t] = "idle" /\ promise /\ mutex = Free
    /\ error' = e /\ NotifyAll /\ Finish(t, Success)
    /\ UNCHANGED <<recursive, value, mutex, promise, cancelTarget>>

(* SetError *)
SetError(t, e) ==
    /\ spc[t] = "idle" /\ promise /\ mutex = Free
    /\ \/ IsSet /\ Finish(t, AlreadySet) /\ UNCHANGED <<error, waiting>>
       \/ ~IsSet /\ error' = e /\ NotifyAll /\ Finish(t, Success)
    /\ UNCHANGED <<recursive, value, mutex, promise, cancelTarget>>

DropPromiseSilently ==
    /\ promise /\ mutex = Free
    /\ promise' = FALSE
    /\ UNCHANGED <<recursive, value, error, mutex, waiting, cancelTarget, spc, outcome>>

(* Promise::~Promise: a promise that was never kept is broken, so that the *)
(* threads waiting on its future learn that nothing will come.             *)
DropPromise ==
    /\ promise /\ mutex = Free
    /\ promise' = FALSE
    /\ \/ IsSet /\ UNCHANGED <<error, waiting>>
       \/ ~IsSet /\ error' = Broken /\ NotifyAll
    /\ UNCHANGED <<recursive, value, mutex, cancelTarget, spc, outcome>>

-----------------------------------------------------------------------------
(* A call that had to wait: asleep while the thread is in waiting, awake   *)
(* and asking for the mutex again when it no longer is.                    *)
Waits == {"Wait", "WaitFor", "GetValue"}

(* Wait, WaitFor or GetValue up to the point where it sleeps or returns *)
EnterWait(w, kind) ==
    /\ spc[w] = "idle" /\ mutex = Free
    /\ \/ /\ IsSet
          /\ \/ kind = "GetValue" /\ spc' = [spc EXCEPT ![w] = "read"] /\ UNCHANGED outcome
             \/ kind # "GetValue" /\ Finish(w, Woke)
          /\ UNCHANGED waiting
       \/ /\ ~IsSet
          /\ waiting' = waiting \cup {w}
          /\ spc' = [spc EXCEPT ![w] = kind]
          /\ UNCHANGED outcome
    /\ UNCHANGED <<recursive, value, error, mutex, promise, cancelTarget>>

(* The condition variable wakes a thread nobody notified. *)
WakeSpuriously(w) ==
    /\ w \in waiting
    /\ waiting' = waiting \ {w}
    /\ UNCHANGED <<recursive, value, error, mutex, promise, cancelTarget, spc, outcome>>

(* ConditionVariable::WaitFor: the time is up before a notification. *)
TimeOut(w) ==
    /\ w \in waiting
    /\ spc[w] = "WaitFor"
    /\ waiting' = waiting \ {w}
    /\ spc' = [spc EXCEPT ![w] = "late"]
    /\ UNCHANGED <<recursive, value, error, mutex, promise, cancelTarget, outcome>>

(* A thread that left the condition variable has the mutex again: Wait and *)
(* GetValue test IsSet once more, WaitFor returns what woke it.            *)
Resume(w) ==
    /\ w \notin waiting /\ mutex = Free
    /\ \/ /\ spc[w] \in {"Wait", "GetValue"} /\ ~IsSet
          /\ waiting' = waiting \cup {w}
          /\ UNCHANGED <<spc, outcome>>
       \/ /\ spc[w] = "Wait" /\ IsSet
          /\ Finish(w, Woke)
          /\ UNCHANGED waiting
       \/ /\ spc[w] = "GetValue" /\ IsSet
          /\ spc' = [spc EXCEPT ![w] = "read"]
          /\ UNCHANGED <<waiting, outcome>>
       \/ /\ spc[w] = "WaitFor"
          /\ Finish(w, Woke)
          /\ UNCHANGED waiting
       \/ /\ spc[w] = "late"
          /\ Finish(w, TimedOut)
          /\ UNCHANGED waiting
    /\ UNCHANGED <<recursive, value, error, mutex, promise, cancelTarget>>

(* GetValue after its Wait, with the mutex released: the value, or the     *)
(* error thrown                                                            *)
GetValue(w) ==
    /\ spc[w] = "read"
    /\ Finish(w, IF value # NoValue THEN value ELSE error)
    /\ UNCHANGED <<recursive, value, error, mutex, waiting, promise, cancelTarget>>

-----------------------------------------------------------------------------
(* SetCancelTarget, by the thread that submitted the task and will cancel *)
SetCancelTarget ==
    /\ ~cancelTarget /\ spc[Canceller] = "idle" /\ mutex = Free /\ promise
    /\ cancelTarget' = TRUE
    /\ UNCHANGED <<recursive, value, error, mutex, waiting, promise, spc, outcome>>

(* Cancel: the target is called with the mutex held *)
Cancel ==
    /\ spc[Canceller] = "idle" /\ mutex = Free
    /\ \/ ~cancelTarget /\ Finish(Canceller, Success) /\ UNCHANGED mutex
       \/ /\ cancelTarget
          /\ mutex' = Canceller
          /\ spc' = [spc EXCEPT ![Canceller] = "cancelling"]
          /\ UNCHANGED outcome
    /\ UNCHANGED <<recursive, value, error, waiting, promise, cancelTarget>>

(* Java completes the cancelled future on the thread that cancels it: the  *)
(* callback's SetError asks for the mutex this thread already has.         *)
CompleteInline(e) ==
    /\ spc[Canceller] = "cancelling" /\ promise
    /\ \/ /\ ~recursive
          /\ spc' = [spc EXCEPT ![Canceller] = "stuck"]
          /\ UNCHANGED <<error, waiting>>
       \/ /\ recursive
          /\ spc' = [spc EXCEPT ![Canceller] = "called"]
          /\ \/ IsSet /\ UNCHANGED <<error, waiting>>
             \/ ~IsSet /\ error' = e /\ NotifyAll
    /\ UNCHANGED <<recursive, value, mutex, promise, cancelTarget, outcome>>

(* The target's Cancel returns or throws (CancelableImpl::Cancel,          *)
(* ThrowIfNeeded); the guard gives the mutex back either way.              *)
CancelReturn(r) ==
    /\ spc[Canceller] \in {"cancelling", "called"}
    /\ mutex' = Free
    /\ Finish(Canceller, r)
    /\ UNCHANGED <<recursive, value, error, waiting, promise, cancelTarget>>

StateNext ==
    \/ \E t \in Completers, v \in Values : SetValue(t, v)
    \/ \E t \in Completers, e \in Errors : SetError(t, e)
    \/ DropPromise
    \/ \E w \in Waiters, kind \in Waits : EnterWait(w, kind)
    \/ \E w \in Waiters : WakeSpuriously(w) \/ TimeOut(w) \/ Resume(w) \/ GetValue(w)
    \/ SetCancelTarget
    \/ Cancel
    \/ \E e \in Errors : CompleteInline(e)
    \/ \E r \in {Success} \cup Errors : CancelReturn(r)

StateSpec == StateInit /\ [][StateNext]_stateVars

(* A thread that can take the mutex eventually does (strongly: others take *)
(* it in between), a call into Java returns, and the task that holds the   *)
(* promise is released in the end, by ComputeTaskComplete or by Close.     *)
StateFairness ==
    /\ \A w \in Waiters : SF_stateVars(Resume(w)) /\ WF_stateVars(GetValue(w))
    /\ SF_stateVars(DropPromise)
    /\ WF_stateVars(\E r \in {Success} \cup Errors : CancelReturn(r))

StateFairSpec == StateSpec /\ StateFairness

-----------------------------------------------------------------------------
StateTypeOK ==
    /\ value \in Values \cup {NoValue}
    /\ error \in Errors \cup {Success, Broken}
    /\ mutex \in {Free, Canceller}
    /\ mutex = Canceller <=> spc[Canceller] \in {"cancelling", "called", "stuck"}
    /\ \A w \in waiting : w \in Waiters /\ spc[w] \in Waits
    /\ promise \in BOOLEAN /\ cancelTarget \in BOOLEAN

(* A future has one outcome: at most one completion is accepted, every     *)
(* other one is told DOCUMENTDB_ERR_FUTURE_STATE, and every GetValue       *)
(* reports that one, although it reads the outcome after it has let the    *)
(* mutex go.                                                               *)
OneAccepted ==
    /\ value = NoValue \/ error = Success
    /\ \A t, u \in Completers : outcome[t] = Success /\ outcome[u] = Success => t = u
    /\ \A w \in Waiters :
          outcome[w] \notin {NoResult, Woke, TimedOut} => outcome[w] \in {value, error}

(* No wake-up is lost: once the outcome is there nobody is asleep on the   *)
(* condition variable, however the threads' tests of IsSet and the         *)
(* completion interleave.                                                  *)
NoSleeperOnceSet == IsSet => waiting = {}

(* SharedState: one completion is accepted, every GetValue tells it, and   *)
(* nobody sleeps on the condition variable after it.                       *)
OneOutcome == OneAccepted /\ NoSleeperOnceSet

(* Every thread that waits returns, if only with "Broken promise".  The    *)
(* one exception is a build whose mutex is not recursive and a Java that   *)
(* completes the cancelled future on the cancelling thread: that thread    *)
(* then waits for itself, and everyone else for it.                        *)
WaitersReturn == \A w \in Waiters : spc[w] # "idle" ~> (spc[w] = Returned \/ spc[Canceller] = "stuck")
=============================================================================
