------------------------------ MODULE Compute ------------------------------
(***************************************************************************)
(* The compute part of the client the driver inherits: ComputeImpl         *)
(* submits tasks, and Java drives them to their end by callbacks into      *)
(* IgniteEnvironment (src/impl/ignite_environment.cpp), which finds the    *)
(* job and task holders through their registry handles.  A task ends by    *)
(* settling the promise behind the caller's future.                        *)
(*                                                                         *)
(* HandleRegistry and SharedState are taken at their word here (their own  *)
(* modules examine them): the registry is a function from handles to       *)
(* holders, a promise is settled once, and a task that leaves the registry *)
(* unsettled breaks its promise.  A job's answer is "ok" or "err".         *)
(*                                                                         *)
(* Java is external.  It runs every job of a task once, tells each result, *)
(* then reduces and completes the task; a cancelled or failed task it      *)
(* completes without reducing; a future it answers once.                   *)
(***************************************************************************)
EXTENDS Integers, Sequences, FiniteSets

CONSTANTS
    Tasks,       \* the tasks the application submits
    RemoteNodes, \* nodes other than this one
    Foreign      \* jobs other nodes send here

ASSUME ComputeAssumption == IsFiniteSet(RemoteNodes)

Kinds == {"unicast", "broadcast", "affinity", "java"}
Answers == {"ok", "err"}
Local == "local"
Nodes == RemoteNodes \cup {Local}
NoHandle == -1

(* What a shared state holds: nothing, an error, or values. *)
Unsettled == <<"unsettled">>
BrokenPromise == <<"broken promise">>
Failed == <<"error">>
Succeeded(values) == <<"value", values>>
NothingCollected == [values |-> <<>>, err |-> FALSE]

VARIABLES
    nextHandle, \* HandleRegistry::slowCtr
    registry,   \* what the handles in use stand for
    taskKind,       \* how each task was submitted, or "none"
    jobOf,      \* ComputeTaskHolder::handle, the job's handle
    taskOf,     \* the task's own handle
    jobResult,  \* ComputeJobHolderImpl::res of the task's job on this node
    res,        \* the holder's collected result
    future,     \* what the future behind the promise holds
    java,       \* Java's side of each task: nodes to run, results, ended
    told,       \* history: the answers the task was given
    lost,       \* history: callbacks that found no holder
    foreign,    \* the handles of jobs other nodes sent here
    stopped

holders == <<jobResult, res, future>>
computeVars == <<nextHandle, registry, taskKind, jobOf, taskOf, jobResult, res, future,
                 java, told, lost, foreign, stopped>>

NotRun == [run |-> {}, done |-> {}, reduced |-> FALSE, ended |-> TRUE]

(* IgniteEnvironment::IgniteEnvironment *)
ComputeInit ==
    /\ nextHandle = 0
    /\ registry = <<>>
    /\ taskKind = [t \in Tasks |-> "none"]
    /\ jobOf = [t \in Tasks |-> NoHandle]
    /\ taskOf = [t \in Tasks |-> NoHandle]
    /\ jobResult = [t \in Tasks |-> "default"]
    /\ res = [t \in Tasks |-> NothingCollected]
    /\ future = [t \in Tasks |-> Unsettled]
    /\ java = [t \in Tasks |-> NotRun]
    /\ told = [t \in Tasks |-> <<>>]
    /\ lost = {}
    /\ foreign = [f \in Foreign |-> NoHandle]
    /\ stopped = FALSE

Registered(h) == h \in DOMAIN registry
Without(hs) == [h \in DOMAIN registry \ hs |-> registry[h]]

(* Promise::~Promise of a task that leaves the registry *)
Settle(f, t) == IF f[t] = Unsettled THEN [f EXCEPT ![t] = BrokenPromise] ELSE f

-----------------------------------------------------------------------------
(* Submission.  PerformTask (CallAsync, RunAsync, BroadcastAsync) and      *)
(* PerformAffinityTask register the job and then the task, PerformJava-    *)
(* TaskAsync the task alone; then Java is told.                            *)
JavaSide(k) ==
    CASE k = "unicast"   -> {{n} : n \in Nodes}
      [] k = "broadcast" -> {Nodes}
      [] k = "affinity"  -> {{n} : n \in Nodes}
      [] k = "java"      -> {{}}

RegisterJob(t) == [h \in {nextHandle} |-> <<"job", t>>]

RegisterTask(t, h) == [x \in {h} |-> <<"task", t>>]

Union(f, g) == [x \in DOMAIN f \cup DOMAIN g |-> IF x \in DOMAIN g THEN g[x] ELSE f[x]]

Register(t, k) ==
    LET withJob == k # "java"
        h == IF withJob THEN nextHandle + 1 ELSE nextHandle
    IN /\ registry' = Union(Union(registry, IF withJob THEN RegisterJob(t) ELSE <<>>),
                            RegisterTask(t, h))
       /\ jobOf' = [jobOf EXCEPT ![t] = IF withJob THEN nextHandle ELSE NoHandle]
       /\ taskOf' = [taskOf EXCEPT ![t] = h]
       /\ nextHandle' = h + 1

(* InStreamOutObject succeeds: the caller gets the future *)
Submit(t, k) ==
    /\ ~stopped /\ taskKind[t] = "none"
    /\ taskKind' = [taskKind EXCEPT ![t] = k]
    /\ Register(t, k)
    /\ \E run \in JavaSide(k) :
          java' = [java EXCEPT ![t] =
                      [run |-> run, done |-> {}, reduced |-> FALSE, ended |-> FALSE]]
    /\ UNCHANGED <<jobResult, res, future, told, lost, foreign, stopped>>

(* InStreamOutObject fails: ThrowIfNeeded throws, there is no future, and  *)
(* both handles stay registered                                            *)
SubmitFails(t, k) ==
    /\ ~stopped /\ taskKind[t] = "none"
    /\ taskKind' = [taskKind EXCEPT ![t] = "failed"]
    /\ Register(t, k)
    /\ UNCHANGED <<jobResult, res, future, java, told, lost, foreign, stopped>>

-----------------------------------------------------------------------------
(* Results: the holders' ProcessResult, JobResultLocal, JobResultRemote.   *)
CollectMultipleClears(r, a) ==
    [values |-> IF a = "err" THEN r.values ELSE Append(r.values, a), err |-> a = "err"]

CollectMultiple(r, a) ==
    IF a = "err" THEN [r EXCEPT !.err = TRUE]
                 ELSE [r EXCEPT !.values = Append(@, a)]

CollectSingle(a) == [values |-> IF a = "err" THEN <<>> ELSE <<a>>, err |-> a = "err"]

Collect(r, k, a) == IF k = "broadcast" THEN CollectMultiple(r, a) ELSE CollectSingle(a)

(* A callback whose holder is missing raises "... is not registred".       *)
Miss(what) ==
    /\ lost' = lost \cup {what}
    /\ UNCHANGED holders

JobDone(t, n) == java' = [java EXCEPT ![t].done = @ \cup {n}]

Tell(t, a) == told' = [told EXCEPT ![t] = Append(@, a)]

(* COMPUTE_JOB_EXECUTE_LOCAL: ComputeJobExecuteLocal, and the three        *)
(* catches of ComputeJobHolderImpl::ExecuteLocal                           *)
ComputeJobExecuteLocal(t, a) ==
    /\ taskKind[t] \in {"unicast", "broadcast"} /\ ~java[t].ended /\ ~stopped
    /\ Local \in java[t].run \ java[t].done
    /\ jobResult[t] = "default"
    /\ IF Registered(jobOf[t])
       THEN /\ jobResult' = [jobResult EXCEPT ![t] = a]
            /\ UNCHANGED <<res, future, lost>>
       ELSE Miss("job")
    /\ UNCHANGED <<nextHandle, registry, taskKind, jobOf, taskOf, java, told, foreign, stopped>>

(* COMPUTE_TASK_LOCAL_JOB_RESULT: ComputeTaskLocalJobResult *)
ComputeTaskLocalJobResult(t) ==
    /\ taskKind[t] \in {"unicast", "broadcast"} /\ ~java[t].ended /\ ~stopped
    /\ Local \in java[t].run \ java[t].done /\ jobResult[t] # "default"
    /\ IF Registered(taskOf[t]) /\ Registered(jobOf[t])
       THEN /\ res' = [res EXCEPT ![t] = Collect(@, taskKind[t], jobResult[t])]
            /\ UNCHANGED <<jobResult, future, lost>>
       ELSE Miss("task or job")
    /\ Tell(t, jobResult[t])
    /\ JobDone(t, Local)
    /\ UNCHANGED <<nextHandle, registry, taskKind, jobOf, taskOf, foreign, stopped>>

(* COMPUTE_TASK_JOB_RESULT: ComputeTaskJobResult, ComputeJobResult::Read *)
ComputeTaskJobResult(t, n, a) ==
    /\ taskKind[t] \in {"unicast", "broadcast"} /\ ~java[t].ended /\ ~stopped
    /\ n \in (java[t].run \ java[t].done) \ {Local}
    /\ IF Registered(taskOf[t])
       THEN /\ res' = [res EXCEPT ![t] = Collect(@, taskKind[t], a)]
            /\ UNCHANGED <<jobResult, future, lost>>
       ELSE Miss("task")
    /\ Tell(t, a)
    /\ JobDone(t, n)
    /\ UNCHANGED <<nextHandle, registry, taskKind, jobOf, taskOf, foreign, stopped>>

(* SetPromise, and Reduce of MultipleJobComputeTaskHolder *)
Reduced(t, r) == IF r.err THEN Failed ELSE Succeeded(r.values)

(* COMPUTE_TASK_REDUCE: ComputeTaskReduce *)
ComputeTaskReduce(t) ==
    /\ taskKind[t] \in {"unicast", "broadcast"} /\ ~java[t].ended /\ ~java[t].reduced
    /\ java[t].run = java[t].done /\ ~stopped
    /\ java' = [java EXCEPT ![t].reduced = TRUE]
    /\ IF Registered(taskOf[t])
       THEN /\ future' = [future EXCEPT ![t] = Reduced(t, res[t])]
            /\ UNCHANGED <<jobResult, res, lost>>
       ELSE Miss("task")
    /\ UNCHANGED <<nextHandle, registry, taskKind, jobOf, taskOf, told, foreign, stopped>>

(* COMPUTE_TASK_COMPLETE: ComputeTaskComplete releases the job and then    *)
(* the task, reduced or not                                                *)
ComputeTaskComplete(t) ==
    /\ taskKind[t] \in {"unicast", "broadcast"} /\ ~java[t].ended /\ ~stopped
    /\ java' = [java EXCEPT ![t].ended = TRUE]
    /\ IF Registered(taskOf[t])
       THEN /\ registry' = Without({jobOf[t], taskOf[t]})
            /\ future' = Settle(future, t)
       ELSE UNCHANGED <<registry, future>>
    /\ UNCHANGED <<nextHandle, taskKind, jobOf, taskOf, jobResult, res, told, lost, foreign, stopped>>

-----------------------------------------------------------------------------
OnComputeFuncExecuteBoth(t, a) ==
    /\ taskKind[t] = "affinity" /\ ~java[t].ended /\ ~stopped
    /\ java[t].run = {Local} /\ java[t].done = {}
    /\ JobDone(t, Local)
    /\ registry' = Without({jobOf[t], taskOf[t]})
    /\ jobResult' = [jobResult EXCEPT ![t] = a]
    /\ future' = Settle(future, t)
    /\ UNCHANGED <<nextHandle, taskKind, jobOf, taskOf, res, told, lost, foreign, stopped>>

(* COMPUTE_OUT_FUNC_EXECUTE, COMPUTE_ACTION_EXECUTE of a local affinity    *)
(* job: OnComputeFuncExecute releases the handle and runs the job          *)
OnComputeFuncExecute(t, a) ==
    /\ taskKind[t] = "affinity" /\ ~java[t].ended /\ ~stopped
    /\ java[t].run = {Local} /\ java[t].done = {}
    /\ JobDone(t, Local)
    /\ registry' = Without({jobOf[t]})
    /\ IF Registered(jobOf[t])
       THEN /\ jobResult' = [jobResult EXCEPT ![t] = a]
            /\ UNCHANGED <<res, future, lost>>
       ELSE Miss("job")
    /\ UNCHANGED <<nextHandle, taskKind, jobOf, taskOf, told, foreign, stopped>>

(* The answer Java gives a future: that of the local job when it ran here. *)
FutureAnswers(t) ==
    IF taskKind[t] = "affinity" /\ java[t].run = {Local}
    THEN {jobResult[t]} \cap Answers
    ELSE Answers

(* FUTURE_*_RESULT, FUTURE_NULL_RESULT and FUTURE_ERROR: the task is       *)
(* looked up, released, given the answer and reduced.  The lookup is not   *)
(* checked: a missing task would be a call through a null pointer.         *)
OnFuture(t, a) ==
    /\ taskKind[t] \in {"affinity", "java"} /\ ~java[t].ended /\ ~stopped
    /\ a \in FutureAnswers(t)
    /\ java' = [java EXCEPT ![t].ended = TRUE]
    /\ Tell(t, a)
    /\ registry' = Without({taskOf[t]})
    /\ IF Registered(taskOf[t])
       THEN /\ res' = [res EXCEPT ![t] = Collect(@, taskKind[t], a)]
            /\ future' = [future EXCEPT ![t] = Reduced(t, res'[t])]
            /\ UNCHANGED <<jobResult, lost>>
       ELSE Miss("null task")
    /\ UNCHANGED <<nextHandle, taskKind, jobOf, taskOf, foreign, stopped>>

(* The same when the answer cannot be read (ReadObject, or a primitive for *)
(* a future that is none: PrimitiveFutureResult): the exception leaves     *)
(* after Release and before Reduce.                                        *)
OnFutureUnreadable(t) ==
    /\ taskKind[t] \in {"affinity", "java"} /\ ~java[t].ended /\ ~stopped
    /\ java' = [java EXCEPT ![t].ended = TRUE]
    /\ registry' = Without({taskOf[t]})
    /\ future' = Settle(future, t)
    /\ UNCHANGED <<nextHandle, taskKind, jobOf, taskOf, jobResult, res, told, lost, foreign, stopped>>

-----------------------------------------------------------------------------
(* Jobs other nodes send: COMPUTE_JOB_CREATE (bindings.h ComputeJobCreate, *)
(* through InvokeCallback), COMPUTE_JOB_EXECUTE, COMPUTE_JOB_DESTROY       *)
ComputeJobCreate(f) ==
    /\ ~stopped /\ foreign[f] = NoHandle
    /\ foreign' = [foreign EXCEPT ![f] = nextHandle]
    /\ registry' = Union(registry, [h \in {nextHandle} |-> <<"foreign", f>>])
    /\ nextHandle' = nextHandle + 1
    /\ UNCHANGED <<taskKind, jobOf, taskOf, jobResult, res, future, java, told, lost, stopped>>

ComputeJobExecute(f) ==
    /\ ~stopped /\ foreign[f] >= 0
    /\ lost' = IF Registered(foreign[f]) THEN lost ELSE lost \cup {"foreign job"}
    /\ UNCHANGED <<nextHandle, registry, taskKind, jobOf, taskOf, jobResult, res,
                   future, java, told, foreign, stopped>>

ComputeJobDestroy(f) ==
    /\ ~stopped /\ foreign[f] >= 0
    /\ registry' = Without({foreign[f]})
    /\ foreign' = [foreign EXCEPT ![f] = -2]
    /\ UNCHANGED <<nextHandle, taskKind, jobOf, taskOf, jobResult, res, future,
                   java, told, lost, stopped>>

(* OnComputeFuncExecute for a function another node sends: InvokeCallback  *)
(* makes the job, which is looked up, released and run at once             *)
OnForeignFuncExecute(f) ==
    /\ ~stopped /\ foreign[f] = NoHandle
    /\ foreign' = [foreign EXCEPT ![f] = -2]
    /\ nextHandle' = nextHandle + 1
    /\ UNCHANGED <<registry, taskKind, jobOf, taskOf, jobResult, res, future,
                   java, told, lost, stopped>>

(* ON_STOP: delete env.  ~IgniteEnvironment destroys the registry, Close   *)
(* clears it, and every task still in it breaks its promise.               *)
OnStop ==
    /\ ~stopped /\ stopped' = TRUE
    /\ registry' = <<>>
    /\ future' = [t \in Tasks |->
                     IF taskOf[t] \in DOMAIN registry /\ future[t] = Unsettled
                     THEN BrokenPromise ELSE future[t]]
    /\ UNCHANGED <<nextHandle, taskKind, jobOf, taskOf, jobResult, res, java, told, lost, foreign>>

(* What Java does with a task that meets no trouble. *)
JavaStep(t) ==
    \/ \E a \in Answers : ComputeJobExecuteLocal(t, a)
    \/ ComputeTaskLocalJobResult(t)
    \/ \E n \in RemoteNodes, a \in Answers : ComputeTaskJobResult(t, n, a)
    \/ ComputeTaskReduce(t)
    \/ java[t].reduced /\ ComputeTaskComplete(t)
    \/ \E a \in Answers : OnComputeFuncExecute(t, a)
    \/ \E a \in Answers : OnFuture(t, a)

ComputeNext ==
    \/ \E t \in Tasks, k \in Kinds : Submit(t, k) \/ SubmitFails(t, k)
    \/ \E t \in Tasks : JavaStep(t) \/ ComputeTaskComplete(t) \/ OnFutureUnreadable(t)
    \/ \E f \in Foreign :
          \/ ComputeJobCreate(f) \/ ComputeJobExecute(f) \/ ComputeJobDestroy(f)
          \/ OnForeignFuncExecute(f)
    \/ OnStop

ComputeSpec == ComputeInit /\ [][ComputeNext]_computeVars

(* Java goes on with the tasks it was given until the node stops; nothing  *)
(* obliges it to cancel one or to send an unreadable answer.               *)
ComputeFairSpec == ComputeSpec /\ \A t \in Tasks : WF_computeVars(JavaStep(t))

-----------------------------------------------------------------------------
Submitted(t) == taskKind[t] \in Kinds

ComputeTypeOK ==
    /\ nextHandle \in Nat
    /\ DOMAIN registry \subseteq 0 .. nextHandle - 1
    /\ \A h \in DOMAIN registry :
          \/ \E t \in Tasks : registry[h] = <<"job", t>> /\ jobOf[t] = h
          \/ \E t \in Tasks : registry[h] = <<"task", t>> /\ taskOf[t] = h
          \/ \E f \in Foreign : registry[h] = <<"foreign", f>> /\ foreign[f] = h
    /\ taskKind \in [Tasks -> Kinds \cup {"none", "failed"}]
    /\ \A t \in Tasks : res[t].err \in BOOLEAN /\ jobResult[t] \in Answers \cup {"default"}
    /\ stopped \in BOOLEAN

(* When Java is done with a task the registry holds none of its handles,   *)
(* with two exceptions that stay until the node stops: the job of an       *)
(* affinity task that ran on another node, and both handles of a           *)
(* submission Java refused.                                                *)
OnlyKnownHandlesRemain ==
    \A t \in Tasks : Submitted(t) /\ java[t].ended =>
        /\ ~Registered(taskOf[t])
        /\ Registered(jobOf[t]) =>
              taskKind[t] = "affinity" /\ (java[t].run # {Local} \/ java[t].done = {})

(* Every callback finds its holder: no handle is released while Java still *)
(* has a use for it, so neither the "not registred" errors nor the calls   *)
(* through an unchecked pointer of OnFuture* happen; and a task that is    *)
(* over leaves only the known handles behind.                              *)
CallbacksFindTheirHolder == ComputeTypeOK /\ lost = {} /\ OnlyKnownHandlesRemain

(* A task that is out of the registry has settled its future: whoever      *)
(* waits is not left waiting for a holder that no longer exists.           *)
ReleasedIsSettled ==
    \A t \in Tasks : Submitted(t) /\ ~Registered(taskOf[t]) => future[t] # Unsettled

ErrorTold(t) == \E i \in DOMAIN told[t] : told[t][i] = "err"

(* The future tells what the jobs answered, an error if any answer was     *)
(* one, otherwise exactly the values, one for every job; and the future of *)
(* a task that is out of the registry is settled.                          *)
FutureTellsTheAnswers ==
    /\ ReleasedIsSettled
    /\ \A t \in Tasks : future[t] \notin {Unsettled, BrokenPromise} =>
          IF ErrorTold(t) THEN future[t] = Failed
          ELSE future[t] = Succeeded(told[t]) /\ Len(told[t]) >= Cardinality(java[t].run)

(* Every submitted task settles its future in the end. *)
TasksSettle == \A t \in Tasks : Submitted(t) ~> future[t] # Unsettled
=============================================================================
