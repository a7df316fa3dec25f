--------------------------- MODULE ComputeProofs ----------------------------
(***************************************************************************)
(* Compute, for any tasks, any finite set of nodes and any foreign jobs.   *)
(***************************************************************************)
EXTENDS Compute, TLAPS

(* The tasks whose jobs Java reports one by one. *)
Reported == {"unicast", "broadcast"}

TaskTypes ==
    /\ taskKind \in [Tasks -> Kinds \cup {"none", "failed"}]
    /\ jobOf \in [Tasks -> Int] /\ taskOf \in [Tasks -> Int] /\ foreign \in [Foreign -> Int]
    /\ jobResult \in [Tasks -> Answers \cup {"default"}]
    /\ res \in [Tasks -> [values : Seq(Answers), err : BOOLEAN]]
    /\ future = [t \in Tasks |-> future[t]]
    /\ java \in [Tasks -> [run : SUBSET Nodes, done : SUBSET Nodes, reduced : BOOLEAN,
                           ended : BOOLEAN]]
    /\ told \in [Tasks -> Seq(Answers)]
    /\ stopped \in BOOLEAN

RegistrySound ==
    /\ nextHandle \in Nat
    /\ DOMAIN registry \subseteq 0 .. nextHandle - 1
    /\ \A h \in DOMAIN registry :
          \/ \E t \in Tasks : registry[h] = <<"job", t>> /\ jobOf[t] = h
          \/ \E t \in Tasks : registry[h] = <<"task", t>> /\ taskOf[t] = h
          \/ \E f \in Foreign : registry[h] = <<"foreign", f>> /\ foreign[f] = h

(* A handle is given out once. *)
HandlesAreOnes ==
    /\ \A t \in Tasks : jobOf[t] < nextHandle /\ taskOf[t] < nextHandle
    /\ \A f \in Foreign : foreign[f] < nextHandle
    /\ \A t, u \in Tasks : jobOf[t] = taskOf[u] => jobOf[t] < 0
    /\ \A t, u \in Tasks : t # u /\ jobOf[t] = jobOf[u] => jobOf[t] < 0
    /\ \A t, u \in Tasks : t # u /\ taskOf[t] = taskOf[u] => taskOf[t] < 0
    /\ \A t \in Tasks, f \in Foreign : foreign[f] \in {jobOf[t], taskOf[t]} => foreign[f] < 0
    /\ \A f, g \in Foreign : f # g /\ foreign[f] = foreign[g] => foreign[f] < 0

ForeignIsRegistered == ~stopped => \A f \in Foreign : foreign[f] >= 0 => Registered(foreign[f])

(* The handles of a task: what Java has a use for is registered, what is   *)
(* released is settled.                                                    *)
Kept(t) ==
    /\ taskKind[t] = "none" => jobOf[t] = NoHandle /\ taskOf[t] = NoHandle
    /\ taskKind[t] = "java" => jobOf[t] = NoHandle
    /\ ~stopped /\ Submitted(t) /\ ~java[t].ended =>
          /\ Registered(taskOf[t])
          /\ taskKind[t] \in Reported \/ (taskKind[t] = "affinity" /\ java[t].done = {}) =>
                Registered(jobOf[t])
    /\ taskKind[t] = "affinity" /\ java[t].run = {Local} /\ java[t].done # {} =>
          ~Registered(jobOf[t])
    /\ Submitted(t) /\ java[t].ended =>
          /\ ~Registered(taskOf[t])
          /\ Registered(jobOf[t]) => taskKind[t] = "affinity"
    /\ Submitted(t) /\ ~Registered(taskOf[t]) => future[t] # Unsettled

(* What was collected of the answers a task was given. *)
Collected(t) ==
    IF ErrorTold(t) THEN res[t].err = TRUE ELSE res[t].err = FALSE /\ res[t].values = told[t]

Progress(t) ==
    /\ java[t].done \subseteq java[t].run
    /\ taskKind[t] \in {"none", "failed"} =>
          told[t] = <<>> /\ java[t] = NotRun /\ future[t] \in {Unsettled, BrokenPromise}
    /\ taskKind[t] \in Reported => Len(told[t]) = Cardinality(java[t].done)
    /\ taskKind[t] \in {"unicast", "affinity"} => \E n \in Nodes : java[t].run = {n}
    /\ taskKind[t] = "java" => java[t].run = {}
    /\ taskKind[t] \in {"affinity", "java"} /\ ~java[t].ended => told[t] = <<>>

(* A future that is settled for good is that of a task that is over. *)
SettledIsOver(t) ==
    future[t] \notin {Unsettled, BrokenPromise} =>
        /\ taskKind[t] \in Reported => java[t].run = java[t].done
        /\ taskKind[t] \in {"affinity", "java"} => java[t].ended
        /\ IF ErrorTold(t) THEN future[t] = Failed
           ELSE future[t] = Succeeded(told[t]) /\ Len(told[t]) >= Cardinality(java[t].run)

Answered(t) == Collected(t) /\ Progress(t) /\ SettledIsOver(t)

ComputeInv ==
    /\ TaskTypes /\ RegistrySound /\ HandlesAreOnes /\ ForeignIsRegistered /\ lost = {}
    /\ \A t \in Tasks : Kept(t) /\ Answered(t)

(* What the proofs use of the sizes of sets of nodes; shown last, from the *)
(* library's theorems on finite sets.                                      *)
NodesAreCounted ==
    /\ Cardinality({}) = 0
    /\ \A n \in Nodes : Cardinality({n}) = 1
    /\ \A S \in SUBSET Nodes : \A n \in Nodes \ S :
          Cardinality(S \cup {n}) = Cardinality(S) + 1

JavaTypes == [run : SUBSET Nodes, done : SUBSET Nodes, reduced : BOOLEAN, ended : BOOLEAN]

LEMMA NotRunFields ==
    NotRun \in JavaTypes /\ NotRun.run = {} /\ NotRun.done = {} /\ NotRun.ended = TRUE
BY Zenon DEF NotRun, JavaTypes

LEMMA JavaFields ==
    ASSUME NEW run \in SUBSET Nodes, NEW done \in SUBSET Nodes, NEW reduced \in BOOLEAN,
           NEW ended \in BOOLEAN
    PROVE  LET r == [run |-> run, done |-> done, reduced |-> reduced, ended |-> ended]
           IN  r \in JavaTypes /\ r.run = run /\ r.done = done /\ r.ended = ended
BY Zenon DEF JavaTypes

-----------------------------------------------------------------------------
(* What a step on one task leaves alone of another. *)
LEMMA KeptOther ==
    ASSUME NEW u \in Tasks, Kept(u), stopped' = stopped,
           taskKind'[u] = taskKind[u], jobOf'[u] = jobOf[u], taskOf'[u] = taskOf[u],
           java'[u] = java[u], future'[u] = future[u],
           Registered(taskOf[u])' <=> Registered(taskOf[u]),
           Registered(jobOf[u])' <=> Registered(jobOf[u])
    PROVE  Kept(u)'
BY Zenon DEF Kept, Submitted

LEMMA AnsweredOther ==
    ASSUME NEW u \in Tasks, Answered(u),
           taskKind'[u] = taskKind[u], res'[u] = res[u], told'[u] = told[u], java'[u] = java[u],
           future'[u] \in {future[u], BrokenPromise}
    PROVE  Answered(u)'
<1>1. Collected(u)' /\ (ErrorTold(u)' <=> ErrorTold(u))
  BY Zenon DEF Answered, Collected, ErrorTold
<1>2. Progress(u)'
  BY Zenon DEF Answered, Progress
<1>3. SettledIsOver(u)'
  BY <1>1, Zenon DEF Answered, SettledIsOver
<1> QED
  BY <1>1, <1>2, <1>3, Zenon DEF Answered

(* Some of the handles of one task are released. *)
LEMMA TaskReleased ==
    ASSUME ComputeInv, NEW t \in Tasks, NEW hs \in SUBSET {jobOf[t], taskOf[t]},
           registry' = Without(hs), UNCHANGED <<nextHandle, jobOf, taskOf, foreign, stopped>>
    PROVE  /\ RegistrySound' /\ HandlesAreOnes' /\ ForeignIsRegistered'
           /\ \A u \in Tasks \ {t} : /\ Registered(taskOf[u])' <=> Registered(taskOf[u])
                                     /\ Registered(jobOf[u])' <=> Registered(jobOf[u])
           /\ Registered(taskOf[t])' <=> Registered(taskOf[t]) /\ taskOf[t] \notin hs
           /\ Registered(jobOf[t])' <=> Registered(jobOf[t]) /\ jobOf[t] \notin hs
<1>1. DOMAIN registry' = DOMAIN registry \ hs /\ \A h \in DOMAIN registry' : registry'[h] = registry[h]
  BY Zenon DEF Without
<1>2. RegistrySound'
  BY <1>1, SMTT(30) DEF ComputeInv, RegistrySound
<1>3. HandlesAreOnes'
  BY Zenon DEF ComputeInv, HandlesAreOnes
<1>4. \A h \in DOMAIN registry : h \in Int /\ ~(h < 0)
  BY SMTT(30) DEF ComputeInv, RegistrySound
<1>5. ForeignIsRegistered'
  <2> SUFFICES ASSUME ~stopped, NEW f \in Foreign, foreign[f] >= 0 PROVE foreign[f] \in DOMAIN registry'
    BY Zenon DEF ForeignIsRegistered, Registered
  <2>1. foreign[f] \in DOMAIN registry
    BY Zenon DEF ComputeInv, ForeignIsRegistered, Registered
  <2>2. foreign[f] \notin hs
    BY <1>4, <2>1, Zenon DEF ComputeInv, HandlesAreOnes
  <2> QED
    BY <1>1, <2>1, <2>2, Zenon
<1>6. ASSUME NEW u \in Tasks \ {t}
      PROVE  /\ Registered(taskOf[u])' <=> Registered(taskOf[u])
             /\ Registered(jobOf[u])' <=> Registered(jobOf[u])
  <2>1. taskOf[u] \in DOMAIN registry => taskOf[u] \notin hs
    BY <1>4, Zenon DEF ComputeInv, HandlesAreOnes
  <2>2. jobOf[u] \in DOMAIN registry => jobOf[u] \notin hs
    BY <1>4, Zenon DEF ComputeInv, HandlesAreOnes
  <2> QED
    BY <1>1, <2>1, <2>2, Zenon DEF Registered
<1> QED
  BY <1>1, <1>2, <1>3, <1>5, <1>6, Zenon DEF Registered

(* Nothing is registered or released. *)
LEMMA RegistryKept ==
    ASSUME ComputeInv, UNCHANGED <<registry, nextHandle, jobOf, taskOf, foreign, stopped>>
    PROVE  /\ RegistrySound' /\ HandlesAreOnes' /\ ForeignIsRegistered'
           /\ \A u \in Tasks : /\ Registered(taskOf[u])' <=> Registered(taskOf[u])
                               /\ Registered(jobOf[u])' <=> Registered(jobOf[u])
BY Zenon DEF ComputeInv, RegistrySound, HandlesAreOnes, ForeignIsRegistered, Registered

LEMMA ComputeInitially == ComputeInit => ComputeInv
<1> SUFFICES ASSUME ComputeInit PROVE ComputeInv
  BY Zenon
<1>1. TaskTypes
  <2>1. NothingCollected \in [values : Seq(Answers), err : BOOLEAN]
    BY SMTT(30) DEF NothingCollected
  <2>2. NotRun \in JavaTypes
    BY NotRunFields, Zenon
  <2>3. <<>> \in Seq(Answers) /\ NoHandle \in Int
    BY SMTT(30) DEF NoHandle
  <2> QED
    BY <2>1, <2>2, <2>3, Zenon DEF ComputeInit, TaskTypes, JavaTypes
<1>2. RegistrySound /\ HandlesAreOnes /\ ForeignIsRegistered
  BY SMTT(30) DEF ComputeInit, RegistrySound, HandlesAreOnes, ForeignIsRegistered, NoHandle
<1>3. ASSUME NEW t \in Tasks PROVE Kept(t) /\ Answered(t)
  <2>1. Kept(t)
    BY Zenon DEF ComputeInit, Kept, Submitted, Kinds, Reported
  <2>2. Collected(t)
    BY SMTT(30) DEF ComputeInit, Collected, ErrorTold, NothingCollected
  <2>3. Progress(t) /\ SettledIsOver(t)
    BY Zenon DEF ComputeInit, Progress, SettledIsOver, NotRun, Reported
  <2> QED
    BY <2>1, <2>2, <2>3, Zenon DEF Answered
<1> QED
  BY <1>1, <1>2, <1>3, Zenon DEF ComputeInv, ComputeInit

-----------------------------------------------------------------------------
(***************************************************************************)
(* Submission.                                                             *)
(***************************************************************************)

LEMMA Submission ==
    ASSUME ComputeInv, NodesAreCounted, NEW t \in Tasks, NEW k \in Kinds, NEW now \in Kinds \cup {"failed"},
           NEW side, ~stopped, taskKind[t] = "none",
           now \in {k, "failed"},
           taskKind' = [taskKind EXCEPT ![t] = now], Register(t, k),
           java' = [java EXCEPT ![t] = side],
           now = "failed" => side = NotRun,
           now # "failed" => \E run \in JavaSide(k) :
              side = [run |-> run, done |-> {}, reduced |-> FALSE, ended |-> FALSE],
           UNCHANGED <<jobResult, res, future, told, lost, foreign, stopped>>
    PROVE  ComputeInv'
<1> DEFINE withJob == k # "java"
           h == IF withJob THEN nextHandle + 1 ELSE nextHandle
<1>1. /\ jobOf[t] = NoHandle /\ taskOf[t] = NoHandle /\ told[t] = <<>> /\ nextHandle \in Nat
      /\ future[t] \in {Unsettled, BrokenPromise} /\ Collected(t)
  BY Zenon DEF ComputeInv, Kept, Answered, Progress, RegistrySound
<1>2. /\ DOMAIN registry' = DOMAIN registry \cup {h} \cup (IF withJob THEN {nextHandle} ELSE {})
      /\ \A x \in DOMAIN registry \ {h, nextHandle} : registry'[x] = registry[x]
      /\ registry'[h] = <<"task", t>> /\ (withJob => registry'[nextHandle] = <<"job", t>>)
      /\ h \in Nat /\ nextHandle' = h + 1 /\ h >= nextHandle
  BY <1>1, SMTT(30) DEF Register, Union, RegisterJob, RegisterTask
<1>3. /\ jobOf' = [jobOf EXCEPT ![t] = IF withJob THEN nextHandle ELSE NoHandle]
      /\ taskOf' = [taskOf EXCEPT ![t] = h]
  BY Zenon DEF Register
<1>4. \A x \in DOMAIN registry : x \in Int /\ x >= 0 /\ x < nextHandle
  BY SMTT(30) DEF ComputeInv, RegistrySound
<1>5. \A u \in Tasks : jobOf[u] \in Int /\ taskOf[u] \in Int /\ jobOf[u] < nextHandle /\ taskOf[u] < nextHandle
  BY Zenon DEF ComputeInv, TaskTypes, HandlesAreOnes
<1>6. \A f \in Foreign : foreign[f] \in Int /\ foreign[f] < nextHandle
  BY Zenon DEF ComputeInv, TaskTypes, HandlesAreOnes
<1>7. /\ jobOf'[t] = (IF withJob THEN nextHandle ELSE NoHandle) /\ taskOf'[t] = h
      /\ \A u \in Tasks \ {t} : jobOf'[u] = jobOf[u] /\ taskOf'[u] = taskOf[u]
      /\ jobOf' \in [Tasks -> Int] /\ taskOf' \in [Tasks -> Int]
  BY <1>1, <1>2, <1>3, SMTT(30) DEF ComputeInv, TaskTypes, NoHandle
<1>8. (IF withJob THEN h = nextHandle + 1 ELSE h = nextHandle) /\ NoHandle < 0 /\ NoHandle \in Int
  BY SMTT(30) DEF NoHandle
<1>9. /\ side \in JavaTypes
      /\ now = "failed" => side = NotRun
      /\ now # "failed" => /\ side.run \in JavaSide(k) /\ side.done = {} /\ side.ended = FALSE
  <2>1. CASE now = "failed"
    <3>1. side = NotRun
      BY <2>1, Zenon
    <3> QED
      BY <2>1, <3>1, NotRunFields, Zenon
  <2>2. CASE now # "failed"
    <3>1. PICK run \in JavaSide(k) :
              side = [run |-> run, done |-> {}, reduced |-> FALSE, ended |-> FALSE]
      BY <2>2, Zenon
    <3>2. run \in SUBSET Nodes
      BY <3>1, Zenon DEF JavaSide, Kinds
    <3> QED
      BY <2>2, <3>1, <3>2, JavaFields, Zenon
  <2> QED
    BY <2>1, <2>2, Zenon
<1>10. TaskTypes'
  BY <1>7, <1>9, Zenon DEF ComputeInv, TaskTypes, JavaTypes
<1> HIDE DEF h, withJob
<1>11. RegistrySound'
  <2>1. \A x \in DOMAIN registry' :
           \/ \E u \in Tasks : registry'[x] = <<"job", u>> /\ jobOf'[u] = x
           \/ \E u \in Tasks : registry'[x] = <<"task", u>> /\ taskOf'[u] = x
           \/ \E f \in Foreign : registry'[x] = <<"foreign", f>> /\ foreign[f] = x
    <3> SUFFICES ASSUME NEW x \in DOMAIN registry'
                 PROVE  \/ \E u \in Tasks : registry'[x] = <<"job", u>> /\ jobOf'[u] = x
                        \/ \E u \in Tasks : registry'[x] = <<"task", u>> /\ taskOf'[u] = x
                        \/ \E f \in Foreign : registry'[x] = <<"foreign", f>> /\ foreign[f] = x
      BY ZenonT(30)
    <3>1. CASE x = h
      BY <1>2, <1>7, <3>1, Zenon
    <3>2. CASE x = nextHandle /\ withJob
      BY <1>2, <1>7, <3>2, Zenon
    <3>3. CASE x \in DOMAIN registry
      <4>1. x \notin {h, nextHandle} /\ registry'[x] = registry[x]
        BY <1>1, <1>2, <1>4, <3>3, SMTT(30)
      <4>2. x # NoHandle
        BY <1>4, <3>3, SMTT(30) DEF NoHandle
      <4>3. ASSUME NEW u \in Tasks, jobOf[u] = x \/ taskOf[u] = x
            PROVE  jobOf'[u] = jobOf[u] /\ taskOf'[u] = taskOf[u]
        BY <1>1, <1>7, <4>2, <4>3, Zenon
      <4>4. CASE \E u \in Tasks : registry[x] = <<"job", u>> /\ jobOf[u] = x
        BY <4>1, <4>3, <4>4, Zenon
      <4>5. CASE \E u \in Tasks : registry[x] = <<"task", u>> /\ taskOf[u] = x
        BY <4>1, <4>3, <4>5, Zenon
      <4>6. CASE \E f \in Foreign : registry[x] = <<"foreign", f>> /\ foreign[f] = x
        BY <4>1, <4>6, ZenonT(30)
      <4> QED
        BY <3>3, <4>4, <4>5, <4>6, Zenon DEF ComputeInv, RegistrySound
    <3> QED
      BY <1>2, <3>1, <3>2, <3>3, Zenon
  <2>2. nextHandle' \in Nat /\ DOMAIN registry' \subseteq 0 .. nextHandle' - 1
    BY <1>1, <1>2, <1>4, SMTT(30)
  <2> QED
    BY <2>1, <2>2, Zenon DEF RegistrySound
<1>12. HandlesAreOnes'
  <2>1. \A u \in Tasks : jobOf'[u] < nextHandle' /\ taskOf'[u] < nextHandle'
    <3>1. ASSUME NEW u \in Tasks \ {t} PROVE jobOf'[u] < h + 1 /\ taskOf'[u] < h + 1
      BY <1>1, <1>2, <1>5, <1>7, SMTT(90)
    <3>2. jobOf'[t] < h + 1 /\ taskOf'[t] < h + 1
      BY <1>1, <1>2, <1>7, <1>8, SMTT(30)
    <3> QED
      BY <1>2, <3>1, <3>2, ZenonT(60)
  <2>2. \A f \in Foreign : foreign'[f] < nextHandle'
    BY <1>1, <1>2, <1>6, SMTT(30)
  <2>3. \A u, v \in Tasks : jobOf'[u] = taskOf'[v] => jobOf'[u] < 0
    BY <1>1, <1>2, <1>5, <1>7, <1>8, SMTT(30) DEF ComputeInv, HandlesAreOnes
  <2>4. \A u, v \in Tasks : u # v /\ jobOf'[u] = jobOf'[v] => jobOf'[u] < 0
    BY <1>1, <1>2, <1>5, <1>7, <1>8, SMTT(30) DEF ComputeInv, HandlesAreOnes
  <2>5. \A u, v \in Tasks : u # v /\ taskOf'[u] = taskOf'[v] => taskOf'[u] < 0
    BY <1>1, <1>2, <1>5, <1>7, <1>8, SMTT(30) DEF ComputeInv, HandlesAreOnes
  <2>6. \A u \in Tasks, f \in Foreign : foreign'[f] \in {jobOf'[u], taskOf'[u]} => foreign'[f] < 0
    <3>1. ASSUME NEW u \in Tasks \ {t}, NEW f \in Foreign, foreign[f] \in {jobOf'[u], taskOf'[u]}
          PROVE  foreign[f] < 0
      BY <1>7, <3>1, Zenon DEF ComputeInv, HandlesAreOnes
    <3>2. ASSUME NEW f \in Foreign, foreign[f] \in {jobOf'[t], taskOf'[t]} PROVE foreign[f] < 0
      BY <1>1, <1>2, <1>6, <1>7, <1>8, <3>2, SMTT(30)
    <3> QED
      BY <3>1, <3>2, Zenon
  <2>7. \A f, g \in Foreign : f # g /\ foreign'[f] = foreign'[g] => foreign'[f] < 0
    BY Zenon DEF ComputeInv, HandlesAreOnes
  <2> QED
    BY <2>1, <2>2, <2>3, <2>4, <2>5, <2>6, <2>7, Zenon DEF HandlesAreOnes
<1>13. ForeignIsRegistered'
  BY <1>2, Zenon DEF ComputeInv, ForeignIsRegistered, Registered
<1>14. ASSUME NEW u \in Tasks \ {t} PROVE Kept(u)' /\ Answered(u)'
  <2>1. (taskOf[u] \in DOMAIN registry' <=> taskOf[u] \in DOMAIN registry)
        /\ (jobOf[u] \in DOMAIN registry' <=> jobOf[u] \in DOMAIN registry)
    BY <1>1, <1>2, <1>5, SMTT(30)
  <2>2. taskKind'[u] = taskKind[u] /\ java'[u] = java[u]
    BY Zenon DEF ComputeInv, TaskTypes
  <2> QED
    BY <1>7, <2>1, <2>2, KeptOther, AnsweredOther, Zenon DEF ComputeInv, Registered
<1>15. taskKind'[t] = now /\ java'[t] = side
  BY Zenon DEF ComputeInv, TaskTypes
<1>16. Kept(t)'
  <2>1. taskOf'[t] \in DOMAIN registry' /\ (withJob => jobOf'[t] \in DOMAIN registry')
    BY <1>2, <1>7, Zenon
  <2>2. now # "failed" => side.ended = FALSE /\ side.done = {}
    BY <1>9, Zenon
  <2>3. k = "java" => jobOf'[t] = NoHandle
    BY <1>7, Zenon DEF withJob
  <2> QED
    BY <1>15, <2>1, <2>2, <2>3, ZenonT(30) DEF Kept, Submitted, Registered, Kinds, withJob, Reported
<1>17. Answered(t)'
  <2>1. Collected(t)'
    BY <1>1, Zenon DEF Collected, ErrorTold
  <2>2. future'[t] \in {Unsettled, BrokenPromise} /\ told'[t] = <<>>
    BY <1>1, Zenon
  <2>3. ASSUME now = "failed" PROVE Progress(t)'
    <3>1. taskKind'[t] = "failed" /\ java'[t] = NotRun
      BY <1>9, <1>15, <2>3, Zenon
    <3> QED
      BY <2>2, <3>1, NotRunFields, ZenonT(30) DEF Progress, Reported
  <2>4. ASSUME now # "failed" PROVE Progress(t)'
    <3>1. taskKind'[t] = k /\ java'[t].run \in JavaSide(k) /\ java'[t].done = {}
      BY <1>9, <1>15, <2>4, Zenon
    <3>2. /\ k \in {"unicast", "affinity"} => \E n \in Nodes : java'[t].run = {n}
          /\ k = "java" => java'[t].run = {}
      BY <3>1, SMTT(30) DEF JavaSide
    <3>3. Len(told'[t]) = Cardinality({})
      BY <2>2, Zenon DEF NodesAreCounted
    <3>4. k \notin {"none", "failed"}
      BY Zenon DEF Kinds
    <3> QED
      BY <2>2, <3>1, <3>2, <3>3, <3>4, ZenonT(30) DEF Progress
  <2>5. Progress(t)'
    BY <2>3, <2>4, Zenon
  <2> QED
    BY <2>1, <2>2, <2>5, Zenon DEF Answered, SettledIsOver
<1> QED
  BY <1>10, <1>11, <1>12, <1>13, <1>14, <1>16, <1>17, Zenon DEF ComputeInv

LEMMA Submissions ==
    ASSUME ComputeInv, NodesAreCounted, NEW t \in Tasks, NEW k \in Kinds, Submit(t, k) \/ SubmitFails(t, k)
    PROVE  ComputeInv'
<1>1. CASE Submit(t, k)
  <2>1. PICK run \in JavaSide(k) :
           java' = [java EXCEPT ![t] = [run |-> run, done |-> {}, reduced |-> FALSE, ended |-> FALSE]]
    BY <1>1, Zenon DEF Submit
  <2>2. k # "failed"
    BY Zenon DEF Kinds
  <2> QED
    BY <1>1, <2>1, <2>2, Submission, Zenon DEF Submit
<1>2. CASE SubmitFails(t, k)
  <2>1. java' = [java EXCEPT ![t] = NotRun]
    BY <1>2, Zenon DEF SubmitFails, ComputeInv, TaskTypes, Answered, Progress
  <2> QED
    BY <1>2, <2>1, Submission, Zenon DEF SubmitFails
<1> QED
  BY <1>1, <1>2, Zenon

-----------------------------------------------------------------------------
(***************************************************************************)
(* Results.                                                                *)
(***************************************************************************)

(* ProcessResult collects what the task is told. *)
LEMMA Collecting ==
    ASSUME TaskTypes, NEW t \in Tasks, Collected(t), NEW a \in Answers,
           taskKind[t] # "broadcast" => told[t] = <<>>,
           told' = [told EXCEPT ![t] = Append(@, a)],
           res' = [res EXCEPT ![t] = Collect(@, taskKind[t], a)]
    PROVE  /\ Collected(t)'
           /\ told' \in [Tasks -> Seq(Answers)]
           /\ res' \in [Tasks -> [values : Seq(Answers), err : BOOLEAN]]
           /\ Len(told'[t]) = Len(told[t]) + 1 /\ Len(told[t]) \in Nat
<1>1. told[t] \in Seq(Answers) /\ res[t] \in [values : Seq(Answers), err : BOOLEAN]
  BY Zenon DEF TaskTypes
<1>2. told'[t] = Append(told[t], a) /\ res'[t] = Collect(res[t], taskKind[t], a)
  BY Zenon DEF TaskTypes
<1>3. Len(told[t]) \in Nat /\ Len(told'[t]) = Len(told[t]) + 1 /\ told'[t] \in Seq(Answers)
      /\ DOMAIN told[t] = 1 .. Len(told[t]) /\ DOMAIN told'[t] = 1 .. Len(told[t]) + 1
      /\ told'[t][Len(told[t]) + 1] = a
      /\ \A i \in 1 .. Len(told[t]) : told'[t][i] = told[t][i]
  BY <1>1, <1>2, SMTT(30)
<1>4. ErrorTold(t)' <=> ErrorTold(t) \/ a = "err"
  <2>1. CASE a = "err"
    BY <1>3, <2>1, SMTT(30) DEF ErrorTold
  <2>2. CASE a # "err"
    BY <1>3, <2>2, SMTT(30) DEF ErrorTold
  <2> QED
    BY <2>1, <2>2, Zenon
<1>5. res[t].values \in Seq(Answers) /\ res[t].err \in BOOLEAN
      /\ res[t] = [values |-> res[t].values, err |-> res[t].err]
  BY <1>1, Zenon
<1> DEFINE R == [values : Seq(Answers), err : BOOLEAN]
<1>6. CASE taskKind[t] = "broadcast"
  <2>1. res'[t] = CollectMultiple(res[t], a)
    BY <1>2, <1>6, Zenon DEF Collect
  <2>2. CASE a = "err"
    <3>1. res'[t] = [res[t] EXCEPT !.err = TRUE]
      BY <2>1, <2>2, Zenon DEF CollectMultiple
    <3>2. res'[t] \in R /\ res'[t].err = TRUE
      BY <1>1, <3>1, ZenonT(60)
    <3>3. Collected(t)'
      BY <1>4, <2>2, <3>2, Zenon DEF Collected
    <3> QED
      BY <1>3, <3>2, <3>3, Zenon DEF TaskTypes
  <2>3. CASE a # "err"
    <3>1. res'[t] = [res[t] EXCEPT !.values = Append(res[t].values, a)]
      BY <2>1, <2>3, Zenon DEF CollectMultiple
    <3>2. Append(res[t].values, a) \in Seq(Answers)
      BY <1>5, SMTT(30)
    <3>3. res'[t] \in R /\ res'[t].err = res[t].err /\ res'[t].values = Append(res[t].values, a)
      BY <1>1, <3>1, <3>2, ZenonT(60)
    <3>4. Collected(t)'
      BY <1>2, <1>4, <2>3, <3>3, Zenon DEF Collected
    <3> QED
      BY <1>3, <3>3, <3>4, Zenon DEF TaskTypes
  <2> QED
    BY <2>2, <2>3, Zenon
<1>7. CASE taskKind[t] # "broadcast"
  <2>1. told[t] = <<>> /\ ~ErrorTold(t)
    BY <1>7, SMTT(30) DEF ErrorTold
  <2>2. told'[t] = <<a>>
    BY <1>2, <2>1, SMTT(30)
  <2>3. CASE a = "err"
    <3>1. (a = "err") = TRUE
      BY <2>3, Zenon
    <3>2. res'[t] = [values |-> <<>>, err |-> TRUE]
      BY <1>2, <1>7, <2>3, <3>1, Zenon DEF Collect, CollectSingle
    <3>3. <<>> \in Seq(Answers) /\ res'[t].err = TRUE
      BY <3>2, SMTT(30)
    <3>6. [values |-> <<>>, err |-> TRUE] \in R
      BY SMTT(30)
    <3>5. res'[t] \in R
      BY <3>2, <3>6, ZenonT(30)
    <3>4. Collected(t)'
      BY <1>4, <2>3, <3>3, Zenon DEF Collected
    <3> QED
      BY <1>3, <3>3, <3>4, <3>5, Zenon DEF TaskTypes
  <2>4. CASE a # "err"
    <3>1. (a = "err") = FALSE
      BY <2>4, Zenon
    <3>2. res'[t] = [values |-> <<a>>, err |-> FALSE]
      BY <1>2, <1>7, <2>4, <3>1, Zenon DEF Collect, CollectSingle
    <3>3. <<a>> \in Seq(Answers) /\ res'[t].err = FALSE /\ res'[t].values = <<a>>
      BY <3>2, SMTT(30)
    <3>5. res'[t] \in R
      BY <3>2, <3>3, ZenonT(30)
    <3>4. Collected(t)'
      BY <1>4, <2>1, <2>2, <2>4, <3>3, Zenon DEF Collected
    <3> QED
      BY <1>3, <3>3, <3>4, <3>5, Zenon DEF TaskTypes
  <2> QED
    BY <2>3, <2>4, Zenon
<1> QED
  BY <1>6, <1>7, Zenon

LEMMA ExecuteLocalKeeps ==
    ASSUME ComputeInv, NEW t \in Tasks, NEW a \in Answers, ComputeJobExecuteLocal(t, a)
    PROVE  ComputeInv'
<1>1. Registered(jobOf[t])
  BY Zenon DEF ComputeJobExecuteLocal, ComputeInv, Kept, Submitted, Kinds, Reported
<1>2. /\ jobResult' = [jobResult EXCEPT ![t] = a]
      /\ UNCHANGED <<nextHandle, registry, taskKind, jobOf, taskOf, res, future, java, told, lost,
                     foreign, stopped>>
  BY <1>1, Zenon DEF ComputeJobExecuteLocal
<1>3. TaskTypes'
  BY <1>2, Zenon DEF ComputeInv, TaskTypes
<1>4. /\ RegistrySound' /\ HandlesAreOnes' /\ ForeignIsRegistered'
      /\ \A u \in Tasks : /\ Registered(taskOf[u])' <=> Registered(taskOf[u])
                          /\ Registered(jobOf[u])' <=> Registered(jobOf[u])
  BY <1>2, RegistryKept, Zenon
<1>5. \A u \in Tasks : Kept(u)' /\ Answered(u)'
  BY <1>2, <1>4, KeptOther, AnsweredOther, Zenon DEF ComputeInv
<1> QED
  BY <1>2, <1>3, <1>4, <1>5, Zenon DEF ComputeInv

(* A task is told the result of a job. *)
LEMMA Reporting ==
    ASSUME ComputeInv, NodesAreCounted,
           NEW t \in Tasks, NEW n \in java[t].run \ java[t].done, NEW a \in Answers,
           taskKind[t] \in Reported, ~java[t].ended, ~stopped,
           res' = [res EXCEPT ![t] = Collect(@, taskKind[t], a)], Tell(t, a), JobDone(t, n),
           UNCHANGED <<nextHandle, registry, taskKind, jobOf, taskOf, jobResult, future, lost,
                       foreign, stopped>>
    PROVE  ComputeInv'
<1>1. java[t] \in JavaTypes /\ TaskTypes /\ Collected(t) /\ Progress(t) /\ SettledIsOver(t) /\ Kept(t)
  BY Zenon DEF ComputeInv, TaskTypes, JavaTypes, Answered
<1>2. /\ java' \in [Tasks -> JavaTypes]
      /\ java'[t].run = java[t].run /\ java'[t].done = java[t].done \cup {n}
      /\ java'[t].ended = java[t].ended
      /\ \A u \in Tasks \ {t} : java'[u] = java[u]
  BY <1>1, ZenonT(60) DEF JobDone, TaskTypes, JavaTypes
<1>3. told' = [told EXCEPT ![t] = Append(@, a)]
  BY Zenon DEF Tell
<1>4. Cardinality(java'[t].done) = Cardinality(java[t].done) + 1
  <2>1. java[t].done \in SUBSET Nodes /\ n \in Nodes \ java[t].done
    BY <1>1, Zenon DEF JavaTypes
  <2> QED
    BY <1>2, <2>1, Zenon DEF NodesAreCounted
<1>5. taskKind[t] # "broadcast" => told[t] = <<>>
  <2> SUFFICES ASSUME taskKind[t] = "unicast" PROVE told[t] = <<>>
    BY Zenon DEF Reported
  <2>1. java[t].done = {}
    BY <1>1, ZenonT(30) DEF Progress
  <2>2. Len(told[t]) = 0 /\ told[t] \in Seq(Answers)
    BY <1>1, <2>1, Zenon DEF Progress, Reported, TaskTypes, NodesAreCounted
  <2> QED
    BY <2>2, SMTT(30)
<1>6. /\ Collected(t)'
      /\ told' \in [Tasks -> Seq(Answers)]
      /\ res' \in [Tasks -> [values : Seq(Answers), err : BOOLEAN]]
      /\ Len(told'[t]) = Len(told[t]) + 1 /\ Len(told[t]) \in Nat
  BY <1>1, <1>3, <1>5, Collecting, ZenonT(30)
<1>7. TaskTypes'
  BY <1>2, <1>6, Zenon DEF ComputeInv, TaskTypes, JavaTypes
<1>8. /\ RegistrySound' /\ HandlesAreOnes' /\ ForeignIsRegistered'
      /\ \A u \in Tasks : /\ Registered(taskOf[u])' <=> Registered(taskOf[u])
                          /\ Registered(jobOf[u])' <=> Registered(jobOf[u])
  BY RegistryKept, Zenon
<1>9. ASSUME NEW u \in Tasks \ {t} PROVE Kept(u)' /\ Answered(u)'
  <2>1. told'[u] = told[u] /\ res'[u] = res[u]
    BY <1>3, Zenon DEF ComputeInv, TaskTypes
  <2> QED
    BY <1>2, <1>8, <2>1, KeptOther, AnsweredOther, ZenonT(30) DEF ComputeInv
<1>10. Kept(t)'
  BY <1>1, <1>2, <1>8, Zenon DEF Kept, Submitted, Reported
<1>11. Progress(t)'
  <2>1. Len(told'[t]) = Cardinality(java'[t].done)
    BY <1>1, <1>4, <1>6, Zenon DEF Progress
  <2> QED
    BY <1>1, <1>2, <2>1, Zenon DEF Progress, Reported
<1>12. SettledIsOver(t)'
  BY <1>1, Zenon DEF SettledIsOver
<1> QED
  BY <1>6, <1>7, <1>8, <1>9, <1>10, <1>11, <1>12, ZenonT(30) DEF ComputeInv, Answered

LEMMA ResultsKeep ==
    ASSUME ComputeInv, NodesAreCounted, NEW t \in Tasks,
           \/ ComputeTaskLocalJobResult(t)
           \/ \E n \in RemoteNodes, a \in Answers : ComputeTaskJobResult(t, n, a)
    PROVE  ComputeInv'
<1>1. CASE ComputeTaskLocalJobResult(t)
  <2>1. taskKind[t] \in Reported /\ ~java[t].ended /\ ~stopped /\ Local \in java[t].run \ java[t].done
    BY <1>1, Zenon DEF ComputeTaskLocalJobResult, Reported
  <2>2. Registered(taskOf[t]) /\ Registered(jobOf[t])
    BY <2>1, Zenon DEF ComputeInv, Kept, Submitted, Kinds, Reported
  <2>3. jobResult[t] \in Answers
    BY <1>1, Zenon DEF ComputeTaskLocalJobResult, ComputeInv, TaskTypes
  <2> QED
    BY <1>1, <2>1, <2>2, <2>3, Reporting, Zenon DEF ComputeTaskLocalJobResult
<1>2. ASSUME NEW n \in RemoteNodes, NEW a \in Answers, ComputeTaskJobResult(t, n, a)
      PROVE  ComputeInv'
  <2>1. taskKind[t] \in Reported /\ ~java[t].ended /\ ~stopped /\ n \in java[t].run \ java[t].done
    BY <1>2, Zenon DEF ComputeTaskJobResult, Reported
  <2>2. Registered(taskOf[t])
    BY <2>1, Zenon DEF ComputeInv, Kept, Submitted, Kinds, Reported
  <2> QED
    BY <1>2, <2>1, <2>2, Reporting, Zenon DEF ComputeTaskJobResult
<1> QED
  BY <1>1, <1>2, Zenon

(* What a collected result settles the future with. *)
LEMMA ReducedTells ==
    ASSUME NEW t \in Tasks, Collected(t)
    PROVE  IF ErrorTold(t) THEN Reduced(t, res[t]) = Failed
           ELSE Reduced(t, res[t]) = Succeeded(told[t])
BY Zenon DEF Collected, Reduced

LEMMA ReduceKeeps ==
    ASSUME ComputeInv, NEW t \in Tasks, ComputeTaskReduce(t)
    PROVE  ComputeInv'
<1>1. /\ taskKind[t] \in Reported /\ java[t].ended = FALSE /\ ~stopped /\ java[t].run = java[t].done
      /\ java[t] \in JavaTypes /\ Kept(t) /\ Collected(t) /\ Progress(t)
  BY Zenon DEF ComputeTaskReduce, Reported, ComputeInv, TaskTypes, JavaTypes, Answered
<1>2. Registered(taskOf[t]) /\ Submitted(t)
  BY <1>1, Zenon DEF Kept, Submitted, Kinds, Reported
<1>3. /\ future' = [future EXCEPT ![t] = Reduced(t, res[t])]
      /\ UNCHANGED <<nextHandle, registry, taskKind, jobOf, taskOf, jobResult, res, told, lost,
                     foreign, stopped>>
      /\ java' = [java EXCEPT ![t].reduced = TRUE]
  BY <1>2, Zenon DEF ComputeTaskReduce
<1>4. /\ java' \in [Tasks -> JavaTypes]
      /\ java'[t].run = java[t].run /\ java'[t].done = java[t].done
      /\ java'[t].ended = java[t].ended
      /\ \A u \in Tasks \ {t} : java'[u] = java[u]
  BY <1>1, <1>3, Zenon DEF ComputeInv, TaskTypes, JavaTypes
<1>5. future'[t] = Reduced(t, res[t]) /\ \A u \in Tasks \ {t} : future'[u] = future[u]
  BY <1>3, Zenon DEF ComputeInv, TaskTypes
<1>6. TaskTypes'
  BY <1>3, <1>4, ZenonT(30) DEF ComputeInv, TaskTypes, JavaTypes
<1>7. /\ RegistrySound' /\ HandlesAreOnes' /\ ForeignIsRegistered'
      /\ \A u \in Tasks : /\ Registered(taskOf[u])' <=> Registered(taskOf[u])
                          /\ Registered(jobOf[u])' <=> Registered(jobOf[u])
  BY <1>3, RegistryKept, Zenon
<1>8. \A u \in Tasks \ {t} : Kept(u)' /\ Answered(u)'
  BY <1>3, <1>4, <1>5, <1>7, KeptOther, AnsweredOther, Zenon DEF ComputeInv
<1>9. Kept(t)'
  BY <1>1, <1>2, <1>3, <1>4, <1>7, Zenon DEF Kept, Submitted, Reported
<1>10. Collected(t)' /\ (ErrorTold(t)' <=> ErrorTold(t))
  BY <1>1, <1>3, Zenon DEF Collected, ErrorTold
<1>11. Progress(t)'
  BY <1>1, <1>3, <1>4, Zenon DEF Progress, Reported
<1>12. SettledIsOver(t)'
  <2>1. Len(told[t]) \in Nat /\ Len(told[t]) = Cardinality(java[t].run)
    BY <1>1, SMTT(30) DEF Progress, ComputeInv, TaskTypes
  <2>2. Len(told[t]) >= Cardinality(java[t].run)
    BY <2>1, SMTT(30)
  <2>3. taskKind[t] \notin {"affinity", "java"}
    BY <1>1, Zenon DEF Reported
  <2>4. IF ErrorTold(t) THEN future'[t] = Failed ELSE future'[t] = Succeeded(told[t])
    BY <1>1, <1>5, ReducedTells, Zenon
  <2> QED
    BY <1>1, <1>3, <1>4, <1>10, <2>2, <2>3, <2>4, Zenon DEF SettledIsOver
<1> QED
  BY <1>3, <1>6, <1>7, <1>8, <1>9, <1>10, <1>11, <1>12, Zenon DEF ComputeInv, Answered

-----------------------------------------------------------------------------
(***************************************************************************)
(* The ends of a task.                                                     *)
(***************************************************************************)

LEMMA SettleSettles ==
    ASSUME TaskTypes, NEW t \in Tasks, future' = Settle(future, t)
    PROVE  /\ future' = [u \in Tasks |-> future'[u]]
           /\ future'[t] # Unsettled /\ future'[t] \in {future[t], BrokenPromise}
           /\ \A u \in Tasks \ {t} : future'[u] = future[u]
BY Zenon DEF TaskTypes, Settle, Unsettled, BrokenPromise

(* A task ends without an answer: its handles go, its promise is settled.  *)
LEMMA EndsUnanswered ==
    ASSUME ComputeInv, NEW t \in Tasks, NEW hs, ~stopped, Submitted(t), java[t].ended = FALSE,
           \/ taskKind[t] \in Reported /\ hs = {jobOf[t], taskOf[t]}
           \/ taskKind[t] \in {"affinity", "java"} /\ hs = {taskOf[t]},
           registry' = Without(hs), future' = Settle(future, t),
           java' = [java EXCEPT ![t].ended = TRUE],
           UNCHANGED <<nextHandle, taskKind, jobOf, taskOf, jobResult, res, told, lost, foreign,
                       stopped>>
    PROVE  ComputeInv'
<1>1. java[t] \in JavaTypes /\ TaskTypes /\ Kept(t) /\ Collected(t) /\ Progress(t) /\ SettledIsOver(t)
  BY Zenon DEF ComputeInv, TaskTypes, JavaTypes, Answered
<1>2. /\ java' \in [Tasks -> JavaTypes]
      /\ java'[t].run = java[t].run /\ java'[t].done = java[t].done /\ java'[t].ended = TRUE
      /\ \A u \in Tasks \ {t} : java'[u] = java[u]
  BY <1>1, Zenon DEF TaskTypes, JavaTypes
<1>3. /\ future' = [u \in Tasks |-> future'[u]]
      /\ future'[t] # Unsettled /\ future'[t] \in {future[t], BrokenPromise}
      /\ \A u \in Tasks \ {t} : future'[u] = future[u]
  BY <1>1, SettleSettles, Zenon
<1>4. TaskTypes'
  BY <1>2, <1>3, Zenon DEF ComputeInv, TaskTypes, JavaTypes
<1>5. hs \in SUBSET {jobOf[t], taskOf[t]}
  BY Zenon
<1>6. /\ RegistrySound' /\ HandlesAreOnes' /\ ForeignIsRegistered'
      /\ \A u \in Tasks \ {t} : /\ Registered(taskOf[u])' <=> Registered(taskOf[u])
                                /\ Registered(jobOf[u])' <=> Registered(jobOf[u])
      /\ Registered(taskOf[t])' <=> Registered(taskOf[t]) /\ taskOf[t] \notin hs
      /\ Registered(jobOf[t])' <=> Registered(jobOf[t]) /\ jobOf[t] \notin hs
  BY <1>5, TaskReleased, Zenon
<1>7. \A u \in Tasks \ {t} : Kept(u)' /\ Answered(u)'
  BY <1>2, <1>3, <1>6, KeptOther, AnsweredOther, Zenon DEF ComputeInv
<1>8. ~Registered(taskOf[t])'
  BY <1>6, Zenon
<1>9. Registered(jobOf[t])' => Registered(jobOf[t]) /\ taskKind[t] \in {"affinity", "java"}
  BY <1>6, Zenon
<1>10. taskKind[t] = "java" => ~Registered(jobOf[t])
  <2>1. \A h \in DOMAIN registry : h # NoHandle
    BY SMTT(30) DEF ComputeInv, RegistrySound, NoHandle
  <2> QED
    BY <1>1, <2>1, Zenon DEF Kept, Registered
<1>11. Kept(t)'
  BY <1>1, <1>2, <1>3, <1>8, <1>9, <1>10, Zenon DEF Kept, Submitted, Kinds
<1>12. Collected(t)' /\ (ErrorTold(t)' <=> ErrorTold(t))
  BY <1>1, Zenon DEF Collected, ErrorTold
<1>13. Progress(t)'
  BY <1>1, <1>2, Zenon DEF Progress, Submitted, Kinds
<1>14. SettledIsOver(t)'
  BY <1>1, <1>2, <1>3, <1>12, Zenon DEF SettledIsOver
<1> QED
  BY <1>4, <1>6, <1>7, <1>11, <1>12, <1>13, <1>14, Zenon DEF ComputeInv, Answered

LEMMA CompleteKeeps ==
    ASSUME ComputeInv, NEW t \in Tasks, ComputeTaskComplete(t) \/ OnFutureUnreadable(t)
    PROVE  ComputeInv'
<1>1. CASE ComputeTaskComplete(t)
  <2>1. /\ taskKind[t] \in Reported /\ java[t].ended = FALSE /\ ~stopped /\ Submitted(t)
    BY <1>1, Zenon DEF ComputeTaskComplete, Reported, Submitted, Kinds, ComputeInv, TaskTypes
  <2>2. Registered(taskOf[t])
    BY <2>1, Zenon DEF ComputeInv, Kept
  <2> QED
    BY <1>1, <2>1, <2>2, EndsUnanswered, Zenon DEF ComputeTaskComplete
<1>2. CASE OnFutureUnreadable(t)
  <2>1. /\ taskKind[t] \in {"affinity", "java"} /\ java[t].ended = FALSE /\ ~stopped /\ Submitted(t)
    BY <1>2, Zenon DEF OnFutureUnreadable, Submitted, Kinds, ComputeInv, TaskTypes
  <2> QED
    BY <1>2, <2>1, EndsUnanswered, ZenonT(30) DEF OnFutureUnreadable
<1> QED
  BY <1>1, <1>2, Zenon

(* OnComputeFuncExecute releases the job's handle alone. *)
LEMMA FuncExecuteKeeps ==
    ASSUME ComputeInv, NEW t \in Tasks, NEW a \in Answers, OnComputeFuncExecute(t, a)
    PROVE  ComputeInv'
<1>1. /\ taskKind[t] = "affinity" /\ java[t].ended = FALSE /\ ~stopped /\ Submitted(t)
      /\ java[t].run = {Local} /\ java[t].done = {} /\ java[t] \in JavaTypes
      /\ Kept(t) /\ Collected(t) /\ Progress(t) /\ SettledIsOver(t)
  BY Zenon DEF OnComputeFuncExecute, Submitted, Kinds, ComputeInv, TaskTypes, JavaTypes, Answered
<1>2. Registered(jobOf[t]) /\ Registered(taskOf[t])
  BY <1>1, Zenon DEF Kept
<1>3. /\ jobResult' = [jobResult EXCEPT ![t] = a]
      /\ registry' = Without({jobOf[t]})
      /\ java' = [java EXCEPT ![t].done = @ \cup {Local}]
      /\ UNCHANGED <<nextHandle, taskKind, jobOf, taskOf, res, future, told, lost, foreign, stopped>>
  BY <1>2, Zenon DEF OnComputeFuncExecute, JobDone
<1>4. /\ java' \in [Tasks -> JavaTypes]
      /\ java'[t].run = {Local} /\ java'[t].done = {Local} /\ java'[t].ended = FALSE
      /\ \A u \in Tasks \ {t} : java'[u] = java[u]
  BY <1>1, <1>3, Zenon DEF ComputeInv, TaskTypes, JavaTypes
<1>5. TaskTypes'
  BY <1>3, <1>4, Zenon DEF ComputeInv, TaskTypes, JavaTypes
<1>6. /\ RegistrySound' /\ HandlesAreOnes' /\ ForeignIsRegistered'
      /\ \A u \in Tasks \ {t} : /\ Registered(taskOf[u])' <=> Registered(taskOf[u])
                                /\ Registered(jobOf[u])' <=> Registered(jobOf[u])
      /\ Registered(taskOf[t])' <=> Registered(taskOf[t]) /\ taskOf[t] \notin {jobOf[t]}
      /\ Registered(jobOf[t])' <=> Registered(jobOf[t]) /\ jobOf[t] \notin {jobOf[t]}
  BY <1>3, TaskReleased, Zenon
<1>7. \A u \in Tasks \ {t} : Kept(u)' /\ Answered(u)'
  BY <1>3, <1>4, <1>6, KeptOther, AnsweredOther, Zenon DEF ComputeInv
<1>8. Registered(taskOf[t])' /\ ~Registered(jobOf[t])'
  <2>1. \A h \in DOMAIN registry : h \in Int /\ ~(h < 0)
    BY SMTT(30) DEF ComputeInv, RegistrySound
  <2>2. taskOf[t] # jobOf[t]
    BY <1>2, <2>1, Zenon DEF ComputeInv, HandlesAreOnes, Registered
  <2> QED
    BY <1>2, <1>6, <2>2, Zenon
<1>9. Kept(t)'
  BY <1>1, <1>3, <1>4, <1>8, Zenon DEF Kept, Submitted, Reported
<1>10. Collected(t)' /\ (ErrorTold(t)' <=> ErrorTold(t))
  BY <1>1, <1>3, Zenon DEF Collected, ErrorTold
<1>11. Progress(t)'
  BY <1>1, <1>3, <1>4, Zenon DEF Progress, Reported
<1>12. SettledIsOver(t)'
  BY <1>1, <1>3, Zenon DEF SettledIsOver, Reported
<1> QED
  BY <1>3, <1>5, <1>6, <1>7, <1>9, <1>10, <1>11, <1>12, Zenon DEF ComputeInv, Answered

(* A future is answered: released, given the answer and reduced. *)
LEMMA FutureKeeps ==
    ASSUME ComputeInv, NodesAreCounted, NEW t \in Tasks, NEW a \in Answers, OnFuture(t, a)
    PROVE  ComputeInv'
<1>1. /\ taskKind[t] \in {"affinity", "java"} /\ java[t].ended = FALSE /\ ~stopped /\ Submitted(t)
      /\ java[t] \in JavaTypes /\ TaskTypes
      /\ Kept(t) /\ Collected(t) /\ Progress(t)
  BY Zenon DEF OnFuture, Submitted, Kinds, ComputeInv, TaskTypes, JavaTypes, Answered
<1>2. Registered(taskOf[t]) /\ told[t] = <<>>
  BY <1>1, Zenon DEF Kept, Progress
<1>3. /\ res' = [res EXCEPT ![t] = Collect(@, taskKind[t], a)]
      /\ future' = [future EXCEPT ![t] = Reduced(t, res'[t])]
      /\ told' = [told EXCEPT ![t] = Append(@, a)]
      /\ registry' = Without({taskOf[t]})
      /\ java' = [java EXCEPT ![t].ended = TRUE]
      /\ UNCHANGED <<nextHandle, taskKind, jobOf, taskOf, jobResult, lost, foreign, stopped>>
  BY <1>2, Zenon DEF OnFuture, Tell
<1>4. /\ java' \in [Tasks -> JavaTypes]
      /\ java'[t].run = java[t].run /\ java'[t].done = java[t].done /\ java'[t].ended = TRUE
      /\ \A u \in Tasks \ {t} : java'[u] = java[u]
  BY <1>1, <1>3, Zenon DEF TaskTypes, JavaTypes
<1>5. /\ Collected(t)'
      /\ told' \in [Tasks -> Seq(Answers)]
      /\ res' \in [Tasks -> [values : Seq(Answers), err : BOOLEAN]]
      /\ Len(told'[t]) = Len(told[t]) + 1 /\ Len(told[t]) \in Nat
  BY <1>1, <1>2, <1>3, Collecting, Zenon
<1>6. future'[t] = Reduced(t, res'[t]) /\ \A u \in Tasks \ {t} : future'[u] = future[u]
  BY <1>1, <1>3, Zenon DEF TaskTypes
<1>7. TaskTypes'
  BY <1>1, <1>3, <1>4, <1>5, ZenonT(60) DEF TaskTypes, JavaTypes
<1>8. /\ RegistrySound' /\ HandlesAreOnes' /\ ForeignIsRegistered'
      /\ \A u \in Tasks \ {t} : /\ Registered(taskOf[u])' <=> Registered(taskOf[u])
                                /\ Registered(jobOf[u])' <=> Registered(jobOf[u])
      /\ Registered(taskOf[t])' <=> Registered(taskOf[t]) /\ taskOf[t] \notin {taskOf[t]}
      /\ Registered(jobOf[t])' <=> Registered(jobOf[t]) /\ jobOf[t] \notin {taskOf[t]}
  BY <1>3, TaskReleased, Zenon
<1>9. ASSUME NEW u \in Tasks \ {t} PROVE Kept(u)' /\ Answered(u)'
  <2>1. told'[u] = told[u] /\ res'[u] = res[u]
    BY <1>1, <1>3, Zenon DEF TaskTypes
  <2> QED
    BY <1>3, <1>4, <1>6, <1>8, <2>1, KeptOther, AnsweredOther, Zenon DEF ComputeInv
<1>10. IF ErrorTold(t)' THEN future'[t] = Failed ELSE future'[t] = Succeeded(told'[t])
  BY <1>5, <1>6, Zenon DEF Collected, Reduced
<1>11. taskKind[t] = "java" => ~Registered(jobOf[t])
  <2>1. \A h \in DOMAIN registry : h # NoHandle
    BY SMTT(30) DEF ComputeInv, RegistrySound, NoHandle
  <2> QED
    BY <1>1, <2>1, ZenonT(30) DEF Kept, Registered
<1>12. Kept(t)'
  <2>3. Failed # Unsettled /\ Succeeded(told'[t]) # Unsettled
    BY Zenon DEF Failed, Succeeded, Unsettled
  <2>1. future'[t] # Unsettled
    BY <1>10, <2>3, ZenonT(30)
  <2>2. Registered(jobOf[t])' => Registered(jobOf[t])
    BY <1>8, Zenon
  <2> QED
    BY <1>1, <1>3, <1>4, <1>8, <1>11, <2>1, <2>2, Zenon DEF Kept, Submitted
<1>13. Progress(t)'
  BY <1>1, <1>3, <1>4, Zenon DEF Progress, Reported
<1>14. SettledIsOver(t)'
  <2>1. Len(told'[t]) >= Cardinality(java'[t].run)
    <3>1. Len(told'[t]) = 1
      BY <1>2, <1>5, SMTT(30)
    <3>2. CASE taskKind[t] = "affinity"
      <4>1. PICK n \in Nodes : java[t].run = {n}
        BY <1>1, <3>2, Zenon DEF Progress
      <4>2. Cardinality({n}) = 1
        BY Zenon DEF NodesAreCounted
      <4> QED
        BY <1>4, <3>1, <4>1, <4>2, SMTT(30)
    <3>3. CASE taskKind[t] = "java"
      <4>1. Cardinality({}) = 0
        BY Zenon DEF NodesAreCounted
      <4>2. java'[t].run = {}
        BY <1>1, <1>4, <3>3, Zenon DEF Progress
      <4> QED
        BY <3>1, <4>1, <4>2, SMTT(30)
    <3> QED
      BY <1>1, <3>2, <3>3, Zenon
  <2>2. taskKind'[t] \notin Reported /\ java'[t].ended
    BY <1>1, <1>3, <1>4, Zenon DEF Reported
  <2> QED
    BY <1>10, <2>1, <2>2, ZenonT(30) DEF SettledIsOver
<1> QED
  BY <1>3, <1>5, <1>7, <1>8, <1>9, <1>12, <1>13, <1>14, Zenon DEF ComputeInv, Answered

-----------------------------------------------------------------------------
(***************************************************************************)
(* Jobs of other nodes, and the end of the node.                           *)
(***************************************************************************)

(* No task is touched while its handles stay as they are. *)
LEMMA TasksUntouched ==
    ASSUME ComputeInv,
           UNCHANGED <<taskKind, jobOf, taskOf, res, future, java, told, stopped>>,
           \A u \in Tasks : /\ Registered(taskOf[u])' <=> Registered(taskOf[u])
                            /\ Registered(jobOf[u])' <=> Registered(jobOf[u])
    PROVE  \A u \in Tasks : Kept(u)' /\ Answered(u)'
BY KeptOther, AnsweredOther, ZenonT(30) DEF ComputeInv

LEMMA JobCreateKeeps ==
    ASSUME ComputeInv, NEW f \in Foreign, ComputeJobCreate(f)
    PROVE  ComputeInv'
<1>1. /\ foreign[f] = NoHandle /\ nextHandle \in Nat /\ nextHandle' = nextHandle + 1
      /\ foreign' = [foreign EXCEPT ![f] = nextHandle]
      /\ foreign'[f] = nextHandle /\ \A g \in Foreign \ {f} : foreign'[g] = foreign[g]
      /\ UNCHANGED <<taskKind, jobOf, taskOf, jobResult, res, future, java, told, lost, stopped>>
  BY Zenon DEF ComputeJobCreate, ComputeInv, RegistrySound, TaskTypes
<1>2. /\ DOMAIN registry' = DOMAIN registry \cup {nextHandle}
      /\ registry'[nextHandle] = <<"foreign", f>>
      /\ \A x \in DOMAIN registry \ {nextHandle} : registry'[x] = registry[x]
  BY Zenon DEF ComputeJobCreate, Union
<1>3. TaskTypes'
  BY <1>1, SMTT(30) DEF ComputeInv, TaskTypes
<1>4. \A x \in DOMAIN registry : x \in Int /\ x >= 0 /\ x < nextHandle
  BY SMTT(30) DEF ComputeInv, RegistrySound
<1>5. \A u \in Tasks : jobOf[u] \in Int /\ taskOf[u] \in Int /\ jobOf[u] < nextHandle /\ taskOf[u] < nextHandle
  BY Zenon DEF ComputeInv, TaskTypes, HandlesAreOnes
<1>6. \A g \in Foreign : foreign[g] \in Int /\ foreign[g] < nextHandle
  BY Zenon DEF ComputeInv, TaskTypes, HandlesAreOnes
<1>7. RegistrySound'
  <2>1. \A x \in DOMAIN registry' :
           \/ \E u \in Tasks : registry'[x] = <<"job", u>> /\ jobOf'[u] = x
           \/ \E u \in Tasks : registry'[x] = <<"task", u>> /\ taskOf'[u] = x
           \/ \E g \in Foreign : registry'[x] = <<"foreign", g>> /\ foreign'[g] = x
    <3> SUFFICES ASSUME NEW x \in DOMAIN registry'
                 PROVE  \/ \E u \in Tasks : registry'[x] = <<"job", u>> /\ jobOf[u] = x
                        \/ \E u \in Tasks : registry'[x] = <<"task", u>> /\ taskOf[u] = x
                        \/ \E g \in Foreign : registry'[x] = <<"foreign", g>> /\ foreign'[g] = x
      BY <1>1, Zenon
    <3>1. CASE x = nextHandle
      BY <1>1, <1>2, <3>1, ZenonT(30)
    <3>2. CASE x # nextHandle
      <4>1. x \in DOMAIN registry /\ registry'[x] = registry[x] /\ x # NoHandle
        BY <1>2, <1>4, <3>2, SMTT(30) DEF NoHandle
      <4>2. CASE \E g \in Foreign : registry[x] = <<"foreign", g>> /\ foreign[g] = x
        BY <1>1, <4>1, <4>2, Zenon
      <4> QED
        BY <4>1, <4>2, ZenonT(60) DEF ComputeInv, RegistrySound
    <3> QED
      BY <3>1, <3>2, Zenon
  <2> QED
    BY <1>1, <1>2, <1>4, <2>1, SMTT(30) DEF RegistrySound
<1>8. HandlesAreOnes'
  <2>1. \A u \in Tasks : jobOf'[u] < nextHandle' /\ taskOf'[u] < nextHandle'
    BY <1>1, <1>5, SMTT(30)
  <2>2. \A g \in Foreign : foreign'[g] < nextHandle'
    BY <1>1, <1>6, SMTT(30)
  <2>3. \A u \in Tasks, g \in Foreign : foreign'[g] \in {jobOf'[u], taskOf'[u]} => foreign'[g] < 0
    BY <1>1, <1>5, SMTT(30) DEF ComputeInv, HandlesAreOnes
  <2>4. \A g, k \in Foreign : g # k /\ foreign'[g] = foreign'[k] => foreign'[g] < 0
    BY <1>1, <1>6, SMTT(30) DEF ComputeInv, HandlesAreOnes
  <2> QED
    BY <1>1, <2>1, <2>2, <2>3, <2>4, ZenonT(30) DEF ComputeInv, HandlesAreOnes
<1>9. ForeignIsRegistered'
  BY <1>1, <1>2, ZenonT(30) DEF ComputeInv, ForeignIsRegistered, Registered
<1>10. \A u \in Tasks : /\ Registered(taskOf[u])' <=> Registered(taskOf[u])
                        /\ Registered(jobOf[u])' <=> Registered(jobOf[u])
  BY <1>1, <1>2, <1>5, SMTT(30) DEF Registered
<1>11. \A u \in Tasks : Kept(u)' /\ Answered(u)'
  BY <1>1, <1>10, TasksUntouched, Zenon
<1> QED
  BY <1>1, <1>3, <1>7, <1>8, <1>9, <1>11, Zenon DEF ComputeInv

LEMMA JobExecuteKeeps ==
    ASSUME ComputeInv, NEW f \in Foreign, ComputeJobExecute(f)
    PROVE  ComputeInv'
<1>1. Registered(foreign[f])
  BY Zenon DEF ComputeJobExecute, ComputeInv, ForeignIsRegistered
<1>2. UNCHANGED computeVars
  BY <1>1, Zenon DEF ComputeJobExecute, computeVars
<1>3. TaskTypes' /\ lost' = {}
  BY <1>2, Zenon DEF ComputeInv, TaskTypes, computeVars
<1> QED
  BY <1>2, <1>3, RegistryKept, TasksUntouched, Zenon DEF ComputeInv, computeVars

LEMMA JobDestroyKeeps ==
    ASSUME ComputeInv, NEW f \in Foreign, ComputeJobDestroy(f)
    PROVE  ComputeInv'
<1>1. /\ foreign[f] >= 0 /\ foreign' = [foreign EXCEPT ![f] = -2]
      /\ foreign'[f] = -2 /\ \A g \in Foreign \ {f} : foreign'[g] = foreign[g]
      /\ UNCHANGED <<nextHandle, taskKind, jobOf, taskOf, jobResult, res, future, java, told, lost,
                     stopped>>
  BY Zenon DEF ComputeJobDestroy, ComputeInv, TaskTypes
<1>2. DOMAIN registry' = DOMAIN registry \ {foreign[f]}
      /\ \A x \in DOMAIN registry' : registry'[x] = registry[x]
  BY Zenon DEF ComputeJobDestroy, Without
<1>3. TaskTypes'
  BY <1>1, SMTT(30) DEF ComputeInv, TaskTypes
<1>4. \A u \in Tasks : jobOf[u] \in Int /\ taskOf[u] \in Int /\ foreign[f] \notin {jobOf[u], taskOf[u]}
  BY <1>1, SMTT(30) DEF ComputeInv, TaskTypes, HandlesAreOnes
<1>5. RegistrySound'
  <2>1. ASSUME NEW x \in DOMAIN registry'
        PROVE  \/ \E u \in Tasks : registry'[x] = <<"job", u>> /\ jobOf'[u] = x
               \/ \E u \in Tasks : registry'[x] = <<"task", u>> /\ taskOf'[u] = x
               \/ \E g \in Foreign : registry'[x] = <<"foreign", g>> /\ foreign'[g] = x
    BY <1>1, <1>2, SMTT(30) DEF ComputeInv, RegistrySound
  <2> QED
    BY <1>1, <1>2, <2>1, ZenonT(30) DEF ComputeInv, RegistrySound
<1>6. HandlesAreOnes'
  <2>1. -2 \in Int /\ -2 < 0 /\ nextHandle \in Nat
    BY SMTT(30) DEF ComputeInv, RegistrySound
  <2>2. \A g \in Foreign : foreign'[g] < nextHandle'
    BY <1>1, <2>1, SMTT(30) DEF ComputeInv, HandlesAreOnes, TaskTypes
  <2>3. \A u \in Tasks, g \in Foreign : foreign'[g] \in {jobOf'[u], taskOf'[u]} => foreign'[g] < 0
    BY <1>1, <2>1, Zenon DEF ComputeInv, HandlesAreOnes
  <2>4. \A g, k \in Foreign : g # k /\ foreign'[g] = foreign'[k] => foreign'[g] < 0
    BY <1>1, <2>1, SMTT(30) DEF ComputeInv, HandlesAreOnes
  <2> QED
    BY <1>1, <2>2, <2>3, <2>4, Zenon DEF ComputeInv, HandlesAreOnes
<1>7. ForeignIsRegistered'
  <2> SUFFICES ASSUME ~stopped, NEW g \in Foreign, foreign'[g] >= 0 PROVE foreign'[g] \in DOMAIN registry'
    BY <1>1, Zenon DEF ForeignIsRegistered, Registered
  <2>1. g # f
    BY <1>1, SMTT(30)
  <2>2. foreign'[g] = foreign[g] /\ foreign[g] # foreign[f] /\ foreign[g] \in DOMAIN registry
    BY <1>1, <2>1, SMTT(30) DEF ComputeInv, HandlesAreOnes, ForeignIsRegistered, Registered, TaskTypes
  <2> QED
    BY <1>2, <2>2, Zenon
<1>8. \A u \in Tasks : /\ Registered(taskOf[u])' <=> Registered(taskOf[u])
                       /\ Registered(jobOf[u])' <=> Registered(jobOf[u])
  BY <1>1, <1>2, <1>4, Zenon DEF Registered
<1>9. \A u \in Tasks : Kept(u)' /\ Answered(u)'
  BY <1>1, <1>8, TasksUntouched, ZenonT(30)
<1> QED
  BY <1>1, <1>3, <1>5, <1>6, <1>7, <1>9, Zenon DEF ComputeInv

LEMMA ForeignFuncKeeps ==
    ASSUME ComputeInv, NEW f \in Foreign, OnForeignFuncExecute(f)
    PROVE  ComputeInv'
<1>1. /\ foreign[f] = -1 /\ foreign' = [foreign EXCEPT ![f] = -2]
      /\ foreign'[f] = -2 /\ \A g \in Foreign \ {f} : foreign'[g] = foreign[g]
      /\ nextHandle \in Nat /\ nextHandle' = nextHandle + 1
      /\ UNCHANGED <<registry, taskKind, jobOf, taskOf, jobResult, res, future, java, told, lost,
                     stopped>>
  BY Zenon DEF OnForeignFuncExecute, ComputeInv, TaskTypes, RegistrySound, NoHandle
<1>2. TaskTypes'
  BY <1>1, SMTT(30) DEF ComputeInv, TaskTypes
<1>3. RegistrySound'
  <2>1. \A h \in DOMAIN registry : h # -1
    BY SMTT(30) DEF ComputeInv, RegistrySound
  <2>2. ASSUME NEW x \in DOMAIN registry
        PROVE  \/ \E u \in Tasks : registry[x] = <<"job", u>> /\ jobOf[u] = x
               \/ \E u \in Tasks : registry[x] = <<"task", u>> /\ taskOf[u] = x
               \/ \E g \in Foreign : registry[x] = <<"foreign", g>> /\ foreign'[g] = x
    BY <1>1, <2>1, SMTT(30) DEF ComputeInv, RegistrySound
  <2> QED
    BY <1>1, <2>2, SMTT(30) DEF ComputeInv, RegistrySound
<1>4. HandlesAreOnes'
  <2>1. -2 \in Int /\ -2 < 0
    BY SMTT(30)
  <2>2. \A g \in Foreign : foreign'[g] < nextHandle'
    BY <1>1, <2>1, SMTT(30) DEF ComputeInv, HandlesAreOnes, TaskTypes
  <2>3. \A u \in Tasks, g \in Foreign : foreign'[g] \in {jobOf'[u], taskOf'[u]} => foreign'[g] < 0
    BY <1>1, <2>1, ZenonT(60) DEF ComputeInv, HandlesAreOnes
  <2>4. \A g, k \in Foreign : g # k /\ foreign'[g] = foreign'[k] => foreign'[g] < 0
    BY <1>1, <2>1, SMTT(30) DEF ComputeInv, HandlesAreOnes
  <2>5. \A u \in Tasks : jobOf'[u] < nextHandle' /\ taskOf'[u] < nextHandle'
    BY <1>1, SMTT(30) DEF ComputeInv, HandlesAreOnes, TaskTypes
  <2> QED
    BY <1>1, <2>2, <2>3, <2>4, <2>5, Zenon DEF ComputeInv, HandlesAreOnes
<1>5. ForeignIsRegistered'
  BY <1>1, SMTT(30) DEF ComputeInv, ForeignIsRegistered, Registered
<1>6. \A u \in Tasks : Kept(u)' /\ Answered(u)'
  BY <1>1, TasksUntouched, ZenonT(30) DEF Registered
<1> QED
  BY <1>1, <1>2, <1>3, <1>4, <1>5, <1>6, Zenon DEF ComputeInv

LEMMA StopKeeps == ComputeInv /\ OnStop => ComputeInv'
<1> SUFFICES ASSUME ComputeInv, OnStop PROVE ComputeInv'
  BY Zenon
<1>1. /\ stopped' = TRUE /\ DOMAIN registry' = {}
      /\ \A u \in Tasks : future'[u] = IF Registered(taskOf[u]) /\ future[u] = Unsettled
                                       THEN BrokenPromise ELSE future[u]
      /\ UNCHANGED <<nextHandle, taskKind, jobOf, taskOf, jobResult, res, java, told, lost, foreign>>
  BY SMTT(30) DEF OnStop, Registered
<1>2. TaskTypes'
  BY <1>1, Zenon DEF OnStop, ComputeInv, TaskTypes
<1>3. RegistrySound' /\ HandlesAreOnes' /\ ForeignIsRegistered'
  BY <1>1, Zenon DEF ComputeInv, RegistrySound, HandlesAreOnes, ForeignIsRegistered
<1>4. ASSUME NEW u \in Tasks PROVE Kept(u)' /\ Answered(u)'
  <2>1. future'[u] \in {future[u], BrokenPromise}
    BY <1>1, ZenonT(30)
  <2>2. Answered(u)'
    BY <1>1, <2>1, AnsweredOther, Zenon DEF ComputeInv
  <2>3. Submitted(u) => future'[u] # Unsettled
    <3>1. BrokenPromise # Unsettled
      BY Zenon DEF BrokenPromise, Unsettled
    <3>2. Submitted(u) /\ ~Registered(taskOf[u]) => future[u] # Unsettled
      BY Zenon DEF ComputeInv, Kept
    <3> QED
      BY <1>1, <3>1, <3>2, Zenon
  <2>4. Kept(u)'
    BY <1>1, <2>3, Zenon DEF ComputeInv, Kept, Submitted, Registered
  <2> QED
    BY <2>2, <2>4, Zenon
<1> QED
  BY <1>1, <1>2, <1>3, <1>4, Zenon DEF ComputeInv

-----------------------------------------------------------------------------
LEMMA ComputePreserved ==
    ASSUME ComputeInv, NodesAreCounted, [ComputeNext]_computeVars
    PROVE  ComputeInv'
<1>1. ASSUME NEW t \in Tasks, NEW k \in Kinds, Submit(t, k) \/ SubmitFails(t, k) PROVE ComputeInv'
  BY <1>1, Submissions, Zenon
<1>2. ASSUME NEW t \in Tasks, JavaStep(t) PROVE ComputeInv'
  BY <1>2, ExecuteLocalKeeps, ResultsKeep, ReduceKeeps, CompleteKeeps, FuncExecuteKeeps, FutureKeeps,
     Zenon DEF JavaStep
<1>3. ASSUME NEW t \in Tasks, ComputeTaskComplete(t) \/ OnFutureUnreadable(t) PROVE ComputeInv'
  BY <1>3, CompleteKeeps, Zenon
<1>4. ASSUME NEW f \in Foreign,
             \/ ComputeJobCreate(f) \/ ComputeJobExecute(f) \/ ComputeJobDestroy(f)
             \/ OnForeignFuncExecute(f)
      PROVE  ComputeInv'
  BY <1>4, JobCreateKeeps, JobExecuteKeeps, JobDestroyKeeps, ForeignFuncKeeps, Zenon
<1>5. CASE OnStop
  BY <1>5, StopKeeps, Zenon
<1>6. CASE UNCHANGED computeVars
  <2>1. TaskTypes' /\ lost' = {}
    BY <1>6, Zenon DEF ComputeInv, TaskTypes, computeVars
  <2> QED
    BY <1>6, <2>1, RegistryKept, TasksUntouched, ZenonT(30) DEF ComputeInv, computeVars
<1> QED
  BY <1>1, <1>2, <1>3, <1>4, <1>5, <1>6, Zenon DEF ComputeNext

INSTANCE FiniteSetTheorems

LEMMA NodesCounted == NodesAreCounted
<1>1. IsFiniteSet(Nodes)
  BY ComputeAssumption, FS_AddElement, Zenon DEF Nodes
<1>2. ASSUME NEW S \in SUBSET Nodes, NEW n \in Nodes \ S
      PROVE  Cardinality(S \cup {n}) = Cardinality(S) + 1
  <2>1. IsFiniteSet(S)
    BY <1>1, FS_Subset, Zenon
  <2> QED
    BY <1>2, <2>1, FS_AddElement, Zenon
<1> QED
  BY <1>2, FS_EmptySet, FS_Singleton, Zenon DEF NodesAreCounted

LEMMA ComputeAlways == ComputeSpec => []ComputeInv
<1>1. ComputeInv /\ [ComputeNext]_computeVars => ComputeInv'
  BY ComputePreserved, NodesCounted, Zenon
<1> QED
  BY ComputeInitially, <1>1, PTL DEF ComputeSpec

(* Every callback of Java finds the holder its handle stands for: no       *)
(* release (ComputeTaskComplete, OnComputeFuncExecute, OnFuture) takes a   *)
(* handle Java still has a use for, however tasks, jobs of other nodes and *)
(* the stop of the node interleave, and a task that is over leaves none    *)
(* but the known handles behind.                                           *)
THEOREM CallbacksFound == ComputeSpec => []CallbacksFindTheirHolder
<1>1. ComputeInv => CallbacksFindTheirHolder
  <2> SUFFICES ASSUME ComputeInv PROVE CallbacksFindTheirHolder
    BY Zenon
  <2>1. ComputeTypeOK /\ lost = {}
    BY Zenon DEF ComputeInv, RegistrySound, TaskTypes, ComputeTypeOK
  <2>2. OnlyKnownHandlesRemain
    BY ZenonT(30) DEF ComputeInv, Kept, OnlyKnownHandlesRemain
  <2> QED
    BY <2>1, <2>2, Zenon DEF CallbacksFindTheirHolder
<1> QED
  BY <1>1, ComputeAlways, PTL

(* A settled future tells what the jobs answered: an error if one answer   *)
(* was an error, otherwise exactly the values, one for every job; and the  *)
(* future of a task that left the registry is settled.                     *)
THEOREM AnswersTold == ComputeSpec => []FutureTellsTheAnswers
<1>1. ComputeInv => FutureTellsTheAnswers
  <2> SUFFICES ASSUME ComputeInv PROVE FutureTellsTheAnswers
    BY Zenon
  <2>1. ReleasedIsSettled
    BY Zenon DEF ComputeInv, Kept, ReleasedIsSettled
  <2>2. \A t \in Tasks : SettledIsOver(t)
    BY Zenon DEF ComputeInv, Answered
  <2> QED
    BY <2>1, <2>2, Zenon DEF SettledIsOver, FutureTellsTheAnswers
<1> QED
  BY <1>1, ComputeAlways, PTL

=============================================================================
