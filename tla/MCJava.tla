------------------------------- MODULE MCJava -------------------------------
(***************************************************************************)
(* What goes through JNI, for TLC: the life of the JVM, with an            *)
(* application that has one of its own and without, the mapping of a       *)
(* query, the compute tasks that Java runs and calls back for, and the     *)
(* futures its answers complete.  A behaviour is about one of them, its    *)
(* part; the others rest.                                                  *)
(***************************************************************************)
EXTENDS Jvm, Mapping, SharedState, Compute

CONSTANTS t1, t2, w1, w2, c1, c2, x, v, e, n1, f1

VARIABLE part

allVars == <<part, vars, mappingVars, stateVars, computeVars>>

TwoThreads == {t1, t2}
TwoWaiters == {w1, w2}
TwoCompleters == {c1, c2}
OneValue == {v}
OneError == {e}

(* The application has no JVM. *)
Alone == INSTANCE Jvm WITH HostMayRun <- FALSE

OneNode == {n1}
OneJob == {f1}

MCInit ==
    /\ part \in {"jvm", "jvm alone", "mapping", "state", "compute"}
    /\ Init /\ MappingInit /\ StateInit /\ ComputeInit
    /\ part # "state" => ~recursive
    /\ part # "mapping" => request = "FETCH" /\ \A o \in DOMAIN object : object[o] = <<>>

OfAlone(action) ==
    /\ part = "jvm alone" /\ action
    /\ UNCHANGED <<part, mappingVars, stateVars, computeVars>>
OfMapping(action) ==
    /\ part = "mapping" /\ action
    /\ UNCHANGED <<part, vars, stateVars, computeVars>>
OfState(action) ==
    /\ part = "state" /\ action
    /\ UNCHANGED <<part, vars, mappingVars, computeVars>>
OfCompute(action) ==
    /\ part = "compute" /\ action
    /\ UNCHANGED <<part, vars, mappingVars, stateVars>>

(* Bound: the job from elsewhere and the second task are not both there. *)
MCNext ==
    \/ part = "jvm" /\ Next /\ UNCHANGED <<part, mappingVars, stateVars, computeVars>>
    \/ OfAlone(Alone!Next)
    \/ OfMapping(MappingNext)
    \/ OfState(StateNext)
    \/ OfCompute(ComputeNext /\ (taskKind'[t2] = "none" \/ foreign'[f1] = -1))

(* The fairness of Jvm, Mapping, SharedState and Compute. *)
MCSpec ==
    /\ MCInit /\ [][MCNext]_allVars
    /\ \A t \in Threads : WF_allVars(OfAlone(Alone!Step(t)))
    /\ WF_allVars(OfMapping(MappingNext))
    /\ \A w \in {w1, w2} :
          SF_allVars(OfState(Resume(w))) /\ WF_allVars(OfState(GetValue(w)))
    /\ SF_allVars(OfState(DropPromise))
    /\ WF_allVars(OfState(\E r \in {"DOCUMENTDB_SUCCESS", e} : CancelReturn(r)))
    /\ \A t \in {t1, t2} : WF_allVars(OfCompute(JavaStep(t)))

-----------------------------------------------------------------------------
(* Calls end: every Create returns when no thread of the application's own *)
(* can keep a JVM from being destroyed, no error path keeps JVM_LOCK, and  *)
(* every mapping comes to an answer (JniContext::Create, GetMqlQueryContext).*)
CallsEnd ==
    /\ part = "jvm alone" => Alone!CreateReturns
    /\ part = "mapping" => RequestEnds

(* Nobody waits for ever: every submitted task settles its future, and     *)
(* every thread that waits on one returns, but for a cancellation that     *)
(* completes the future on its own thread under a plain mutex.             *)
FuturesSettle == WaitersReturn /\ TasksSettle
=============================================================================
