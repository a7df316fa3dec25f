----------------------------- MODULE JavaProofs -----------------------------
(***************************************************************************)
(* Proofs about what the driver and the library below it hold of Java: Jvm, *)
(* for every set of threads and every number of connections; Mapping, for  *)
(* aggregations of any number of stages and columns; QueryCursor, for any  *)
(* rows; ContinuousQuery, for any listeners and filters.                   *)
(***************************************************************************)
EXTENDS Jvm, Mapping, QueryCursor, ContinuousQuery, TLAPS

(* The static JVM and what was made from it. *)
JvmInv ==
    /\ CreateIsExclusive
    /\ JVM => Running
    /\ \A t \in Threads : ctx[t] => JVM
    /\ \A t \in Threads : pc[t] = "CONNECT" => ctx[t]

(* JniContext::Create is exclusive at the start. *)
LEMMA JvmInitially == Init => JvmInv
<1> SUFFICES ASSUME Init PROVE JvmInv
  BY Zenon
<1>1. TypeOK
  <2>1. 0 \in 0..MaxOpens
    BY JvmAssumption, SMTT(30)
  <2> QED
    BY <2>1, Zenon DEF Init, TypeOK, Labels
<1>2. JVM = FALSE /\ \A t \in Threads : pc[t] = "IDLE" /\ ctx[t] = FALSE /\ lock # t
  BY JvmAssumption, Zenon DEF Init
<1> QED
  BY <1>1, <1>2, Zenon DEF JvmInv, CreateIsExclusive, Inside, Unpublished, Owning

(* Every step of every thread preserves it: what one thread does under     *)
(* JVM_LOCK is all that changes the JVM while another waits.               *)
LEMMA JvmPreserved == JvmInv /\ [Next]_vars => JvmInv'
<1> SUFFICES ASSUME JvmInv, [Next]_vars PROVE JvmInv'
  BY Zenon
<1> USE JvmAssumption DEF JvmInv, CreateIsExclusive, TypeOK, Inside, Unpublished,
                          Owning, Running, Labels, At, Goto
<1>1. ASSUME NEW t \in Threads, Open(t) PROVE JvmInv'
  <2>1. TypeOK'
    BY <1>1, SMTT(30) DEF Open
  <2>2. pc' = [pc EXCEPT ![t] = "ENTER"] /\ ctx' = [ctx EXCEPT ![t] = FALSE]
        /\ UNCHANGED <<vm, JVM, lock, local>> /\ pc[t] = "IDLE"
    BY <1>1, Zenon DEF Open
  <2> QED
    BY <2>1, <2>2, SMTT(30)
<1>2. ASSUME NEW t \in Threads, Enter(t) PROVE JvmInv'
  BY <1>2, Zenon DEF Enter
<1>3. ASSUME NEW t \in Threads, Lookup(t) PROVE JvmInv'
  <2>1. CASE Running
    BY <1>3, <2>1, Zenon DEF Lookup
  <2>2. CASE ~Running
    BY <1>3, <2>2, Zenon DEF Lookup
  <2> QED
    BY <2>1, <2>2, Zenon
<1>4. ASSUME NEW t \in Threads, CreateJavaVM(t) PROVE JvmInv'
  <2>1. CASE pc'[t] = "INITIALIZE"
    BY <1>4, <2>1, ZenonT(60) DEF CreateJavaVM
  <2>2. CASE pc'[t] # "INITIALIZE"
    BY <1>4, <2>2, SMTT(30) DEF CreateJavaVM
  <2> QED
    BY <2>1, <2>2, Zenon
<1>5. ASSUME NEW t \in Threads, Initialize(t) PROVE JvmInv'
  BY <1>5, SMTT(30) DEF Initialize
<1>6. ASSUME NEW t \in Threads, Publish(t) PROVE JvmInv'
  BY <1>6, Zenon DEF Publish
<1>7. ASSUME NEW t \in Threads, Catch(t) PROVE JvmInv'
  BY <1>7, ZenonT(60) DEF Catch
<1>8. ASSUME NEW t \in Threads, Context(t) PROVE JvmInv'
  BY <1>8, Zenon DEF Context
<1>9. ASSUME NEW t \in Threads, Leave(t) PROVE JvmInv'
  BY <1>9, Zenon DEF Leave
<1>10. ASSUME NEW t \in Threads,
              DriverManagerGetConnection(t) \/ Call(t) \/ Release(t) PROVE JvmInv'
  <2>1. attached' \subseteq Threads /\ ours' \subseteq Threads /\ key' \subseteq Threads
    BY <1>10, Zenon DEF DriverManagerGetConnection, Call, Release, Attach, AttachCurrentThread
  <2>2. UNCHANGED <<vm, JVM, lock, local, ctx, answer, opens>>
        /\ pc' \in {pc, [pc EXCEPT ![t] = "IDLE"]} /\ pc[t] \in {"IDLE", "CONNECT"}
    BY <1>10, Zenon DEF DriverManagerGetConnection, Call, Release
  <2> QED
    BY <2>1, <2>2, SMTT(30)
<1>11. ASSUME NEW t \in Threads, Exit(t) PROVE JvmInv'
  BY <1>11, Zenon DEF Exit, Detach
<1>12. ASSUME NEW t \in Threads, HostCreate(t) \/ HostAttach(t) PROVE JvmInv'
  BY <1>12, SMTT(30) DEF HostCreate, HostAttach
<1>13. CASE UNCHANGED vars
  BY <1>13, Zenon DEF vars
<1> QED
  BY <1>1, <1>2, <1>3, <1>4, <1>5, <1>6, <1>7, <1>8, <1>9, <1>10, <1>11, <1>12, <1>13, Zenon
     DEF Next, Step, Done

(* JniContext::Create is exclusive: whatever threads open connections, and *)
(* whether or not the application runs a JVM, the holder of JVM_LOCK alone *)
(* is between its Enter and its Leave.                                     *)
THEOREM CreateExclusive == Spec => []CreateIsExclusive
<1>1. JvmInv => CreateIsExclusive
  BY Zenon DEF JvmInv
<1> QED
  BY JvmInitially, JvmPreserved, <1>1, PTL DEF Spec

(* No connection is left with a JVM that another's failed Create has       *)
(* destroyed.                                                              *)
THEOREM JvmRuns == Spec => []PublishedJvmRuns
<1>1. JvmInv => PublishedJvmRuns
  BY Zenon DEF JvmInv, PublishedJvmRuns
<1> QED
  BY JvmInitially, JvmPreserved, <1>1, PTL DEF Spec

-----------------------------------------------------------------------------
(* A thread the driver attached will be detached when it ends: it has its  *)
(* AttachHelper, or is still on its way to the first call that gives it    *)
(* one.                                                                    *)
DetachInv ==
    \A t \in attached \cap ours :
       /\ pc[t] # "EXITED"
       /\ \/ t \in key /\ JVM
          \/ pc[t] \in Owning
          \/ pc[t] = "CONTEXT" /\ JVM
          \/ pc[t] \in {"LEAVE", "CONNECT"} /\ ctx[t] /\ JVM

(* Nobody is attached at the start. *)
LEMMA DetachInitially == Init => DetachInv
BY Zenon DEF Init, DetachInv

(* Every call that attaches its thread also sets its attachKey, and the    *)
(* thread that creates the JVM goes on to make such a call.                *)
LEMMA DetachPreserved == JvmInv /\ DetachInv /\ [Next]_vars => DetachInv'
<1> SUFFICES ASSUME JvmInv, DetachInv, [Next]_vars PROVE DetachInv'
  BY Zenon
<1> USE JvmAssumption DEF JvmInv, CreateIsExclusive, TypeOK, Inside, Unpublished,
                          Owning, Labels, At, Goto, DetachInv
<1>1. ASSUME NEW t \in Threads, Open(t) PROVE DetachInv'
  BY <1>1, ZenonT(60) DEF Open
<1>2. ASSUME NEW t \in Threads, Enter(t) PROVE DetachInv'
  BY <1>2, Zenon DEF Enter
<1>3. ASSUME NEW t \in Threads, Lookup(t) PROVE DetachInv'
  BY <1>3, Zenon DEF Lookup
<1>4. ASSUME NEW t \in Threads, CreateJavaVM(t) PROVE DetachInv'
  BY <1>4, SMTT(30) DEF CreateJavaVM
<1>5. ASSUME NEW t \in Threads, Initialize(t) PROVE DetachInv'
  BY <1>5, SMTT(30) DEF Initialize
<1>6. ASSUME NEW t \in Threads, Publish(t) PROVE DetachInv'
  BY <1>6, Zenon DEF Publish
<1>7. ASSUME NEW t \in Threads, Catch(t) PROVE DetachInv'
  BY <1>7, Zenon DEF Catch
<1>8. ASSUME NEW t \in Threads, Context(t) PROVE DetachInv'
  BY <1>8, Zenon DEF Context
<1>9. ASSUME NEW t \in Threads, Leave(t) PROVE DetachInv'
  BY <1>9, SMTT(30) DEF Leave
<1>10. ASSUME NEW t \in Threads,
              DriverManagerGetConnection(t) \/ Call(t) \/ Release(t) PROVE DetachInv'
  <2>1. UNCHANGED <<JVM, ctx>> /\ pc' \in {pc, [pc EXCEPT ![t] = "IDLE"]}
        /\ pc[t] \in {"IDLE", "CONNECT"} /\ Attach(t)
    BY <1>10, Zenon DEF DriverManagerGetConnection, Call, Release
  <2>2. CASE UNCHANGED <<attached, ours, key>> /\ t \notin attached
    BY <2>1, <2>2, SMTT(30)
  <2>3. CASE AttachCurrentThread(t)
    <3>1. JVM
      BY <1>10, Zenon DEF DriverManagerGetConnection, Call, Release
    <3> QED
      BY <2>1, <2>3, <3>1, SMTT(30) DEF AttachCurrentThread
  <2> QED
    BY <2>1, <2>2, <2>3, Zenon DEF Attach
<1>11. ASSUME NEW t \in Threads, Exit(t) PROVE DetachInv'
  BY <1>11, SMTT(30) DEF Exit, Detach
<1>12. ASSUME NEW t \in Threads, HostCreate(t) \/ HostAttach(t) PROVE DetachInv'
  BY <1>12, ZenonT(60) DEF HostCreate, HostAttach
<1>13. CASE UNCHANGED vars
  BY <1>13, Zenon DEF vars
<1> QED
  BY <1>1, <1>2, <1>3, <1>4, <1>5, <1>6, <1>7, <1>8, <1>9, <1>10, <1>11, <1>12, <1>13, Zenon
     DEF Next, Step, Done

(* No thread ends attached to the JVM by the driver. *)
THEOREM ThreadsDetach == Spec => []ExitedThreadsAreDetached
<1>1. DetachInv => ExitedThreadsAreDetached
  BY Zenon DEF DetachInv, ExitedThreadsAreDetached, At
<1> QED
  BY JvmInitially, JvmPreserved, DetachInitially, DetachPreserved, <1>1, PTL DEF Spec

-----------------------------------------------------------------------------
(* The first n elements of any of Java's lists. *)
FirstOf(n) == [i \in 1..n |-> i]

SizeIn(list) == IF list = "stages" THEN NumStages ELSE NumColumns

(* What is read of a list is a beginning of it, and nothing is read of a   *)
(* list before the ones that come first are whole.                         *)
Filled(c) ==
    /\ c \in [Lists -> Seq(Nat)]
    /\ \A list \in Lists :
          c[list] = FirstOf(Len(c[list])) /\ Len(c[list]) <= SizeIn(list)
    /\ Len(c["paths"]) > 0 => Len(c["stages"]) = NumStages
    /\ Len(c["columns"]) > 0 => Len(c["paths"]) = NumColumns

IsWhole(list) == Len(Read(list)) = SizeIn(list)

IsEmpty(list) == Len(Read(list)) = 0

(* The lists before one, which are whole while it is read, and the ones    *)
(* after it, which are empty.                                              *)
Before == [stages |-> {}, paths |-> {"stages"}, columns |-> {"stages", "paths"}]

Behind == [stages |-> {"paths", "columns"}, paths |-> {"columns"}, columns |-> {}]

AskFor == [stages |-> "STAGES", paths |-> "PATHS", columns |-> "COLUMNS"]

(* The lists while one of them is read. *)
Reading(list) ==
    /\ context # None /\ errInfo = "SUCCESS"
    /\ \A other \in Before[list] : IsWhole(other)
    /\ \A other \in Behind[list] : IsEmpty(other)

(* Before the context is there. *)
Preparing == {"PROPERTIES", "METADATA", "SERVICE", "QUERY", "COLLECTION"}

Lasting == {"USE", "ERROR", "DONE"}

(* The element the loop is at is the one after those it has read, and      *)
(* errInfo tells of every failure that leaves a list incomplete, except in *)
(* LOST, from where nothing is returned.                                   *)
MapInv ==
    /\ object = [o \in Objects |-> object[o]]
    /\ \/ context = None
       \/ context = Some(Head(context)) /\ Filled(Head(context))
    /\ mapped \in {None, context}
    /\ mpc \notin Lasting => mapped = None /\ manswer = "NONE"
    /\ mpc \in Preparing => errInfo = "SUCCESS" /\ context = None
    /\ \A list \in Lists :
          /\ mpc \in {AskFor[list], SizeOf[list]} => Reading(list) /\ IsEmpty(list)
          /\ mpc \in {GetOf[list], ValueOf[list]} => Reading(list) /\ size = SizeIn(list)
          /\ mpc = ValueOf[list] =>
                /\ Len(Read(list)) < size
                /\ object["element"] \in {None, Some(Len(Read(list)) + 1)}
    /\ mpc = "RETURN" =>
          /\ context # None
          /\ errInfo = "SUCCESS" => \A list \in Lists : IsWhole(list)
    /\ mpc = "FAILED" => errInfo # "SUCCESS"
    /\ mpc = "USE" /\ mapped # None => \A list \in Lists : IsWhole(list)
    /\ mpc = "DONE" /\ mapped # None /\ manswer # "ERROR" => \A list \in Lists : IsWhole(list)
-----------------------------------------------------------------------------
LEMMA FirstIsSeq ==
    ASSUME NEW n \in Nat
    PROVE  /\ FirstOf(n) \in Seq(Nat)
           /\ Len(FirstOf(n)) = n
           /\ Append(FirstOf(n), n + 1) = FirstOf(n + 1)
<1>1. FirstOf(n) \in Seq(Nat) /\ Len(FirstOf(n)) = n
  BY SMTT(30) DEF FirstOf
<1>2. FirstOf(n + 1) \in Seq(Nat) /\ Len(FirstOf(n + 1)) = n + 1
  BY SMTT(30) DEF FirstOf
<1>3. Append(FirstOf(n), n + 1) \in Seq(Nat)
      /\ Len(Append(FirstOf(n), n + 1)) = n + 1
  BY <1>1, SMTT(30)
<1>4. \A i \in 1..(n + 1) : Append(FirstOf(n), n + 1)[i] = FirstOf(n + 1)[i]
  BY <1>1, SMTT(30) DEF FirstOf
<1> QED
  BY <1>1, <1>2, <1>3, <1>4, SMTT(30)

(* Source holds the whole lists. *)
LEMMA SourceIsWhole ==
    ASSUME NumStages \in Nat, NumColumns \in Nat
    PROVE  /\ \A list \in Lists : Source[list] = FirstOf(SizeIn(list))
                                  /\ SizeIn(list) \in Nat
                                  /\ Len(Source[list]) = SizeIn(list)
           /\ \A c : Filled(c) /\ (\A list \in Lists : Len(c[list]) = SizeIn(list))
                        => c = Source
<1>1. \A list \in Lists : Source[list] = FirstOf(SizeIn(list)) /\ SizeIn(list) \in Nat
  BY SMTT(30) DEF Source, SizeIn, Lists, FirstOf
<1>2. \A list \in Lists : Len(Source[list]) = SizeIn(list)
  BY <1>1, FirstIsSeq, Zenon
<1>3. Source = [list \in Lists |-> Source[list]]
  BY Zenon DEF Source, Lists
<1>4. ASSUME NEW c, Filled(c), \A list \in Lists : Len(c[list]) = SizeIn(list)
      PROVE  c = Source
  <2>1. c = [list \in Lists |-> c[list]]
    BY <1>4, Zenon DEF Filled
  <2>2. \A list \in Lists : c[list] = Source[list]
    BY <1>1, <1>4, Zenon DEF Filled
  <2> QED
    BY <1>3, <2>1, <2>2, Zenon
<1> QED
  BY <1>1, <1>2, <1>4, Zenon

(* The properties follow from the invariant. *)
LEMMA MapInvImplies ==
    ASSUME NumStages \in Nat, NumColumns \in Nat, MapInv
    PROVE  UsedContextIsWhole
<1>1. ASSUME context # None PROVE Filled(Head(context)) /\ context = Some(Head(context))
  BY <1>1, Zenon DEF MapInv
<1>2. UsedIsWhole
  <2> SUFFICES ASSUME mapped # None, mpc \in {"USE", "DONE"}, manswer # "ERROR"
               PROVE  Head(mapped) = Source
    BY Zenon DEF UsedIsWhole
  <2>1. mapped = context /\ context # None
    BY Zenon DEF MapInv
  <2>2. \A list \in Lists : IsWhole(list)
    BY Zenon DEF MapInv
  <2> QED
    BY <1>1, <2>1, <2>2, SourceIsWhole, Zenon DEF IsWhole, Read
<1>3. ListsReadInOrder
  <2> SUFFICES ASSUME context # None PROVE ListsReadInOrder
    BY Zenon DEF ListsReadInOrder
  <2> DEFINE c == Head(context)
  <2>1. Filled(c)
    BY <1>1, Zenon
  <2>2. ASSUME NEW list \in Lists
        PROVE  /\ Len(c[list]) <= Len(Source[list])
               /\ c[list] = SubSeq(Source[list], 1, Len(c[list]))
    <3>1. Len(c[list]) \in Nat /\ Len(c[list]) <= SizeIn(list)
          /\ c[list] = FirstOf(Len(c[list]))
      BY <2>1, SMTT(30) DEF Filled
    <3>2. Source[list] = FirstOf(SizeIn(list)) /\ SizeIn(list) \in Nat
          /\ Len(Source[list]) = SizeIn(list)
      BY SourceIsWhole, Zenon
    <3>3. SubSeq(FirstOf(SizeIn(list)), 1, Len(c[list])) = FirstOf(Len(c[list]))
      BY <3>1, <3>2, FirstIsSeq, SMTT(30) DEF FirstOf
    <3> QED
      BY <3>1, <3>2, <3>3, Zenon
  <2>3. \A list \in Lists : Len(c[list]) = SizeIn(list) => c[list] = Source[list]
    BY <2>1, SourceIsWhole, Zenon DEF Filled
  <2>4. Len(c["paths"]) > 0 => c["stages"] = Source.stages
    BY <2>1, <2>3, Zenon DEF Filled, SizeIn, Lists
  <2>5. Len(c["columns"]) > 0 => c["paths"] = Source.paths
    BY <2>1, <2>3, Zenon DEF Filled, SizeIn, Lists
  <2> QED
    BY <2>2, <2>4, <2>5, Zenon DEF ListsReadInOrder, Read
<1> QED
  BY <1>2, <1>3, Zenon DEF UsedContextIsWhole

LEMMA MapInitially == MappingInit => MapInv
BY SMTT(30) DEF MappingInit, MapInv, Preparing, Lasting, Lists, AskFor, SizeOf, GetOf, ValueOf

(* A call for an object changes the object, errInfo and where the mapping  *)
(* is, and a failed one leaves a code in errInfo.                          *)
LEMMA GetObjectDoes ==
    ASSUME MapInv, NEW from, NEW target, NEW result \in Objects, NEW to,
           GetObject(from, target, result, to)
    PROVE  /\ mpc = from
           /\ object' = [o \in Objects |-> object'[o]]
           /\ \/ mpc' = to /\ errInfo' = "SUCCESS"
              \/ mpc' = "FAILED" /\ errInfo' # "SUCCESS"
           /\ UNCHANGED <<request, size, context, mapped, manswer>>
<1>1. object = [o \in Objects |-> object[o]]
  BY Zenon DEF MapInv
<1>2. PICK call : /\ object' = [object EXCEPT ![result] = call.value]
                  /\ errInfo' = call.code
                  /\ mpc' = IF call.code = "SUCCESS" THEN to ELSE "FAILED"
  BY Zenon DEF GetObject, Continue
<1>3. object' = [o \in Objects |-> object'[o]]
  BY <1>1, <1>2, Zenon
<1> QED
  BY <1>2, <1>3, Zenon DEF GetObject

(* One more element of a list. *)
LEMMA AppendFills ==
    ASSUME NumStages \in Nat, NumColumns \in Nat, NEW c, Filled(c), NEW list \in Lists,
           Len(c[list]) < SizeIn(list),
           \A other \in Before[list] : Len(c[other]) = SizeIn(other),
           \A other \in Behind[list] : Len(c[other]) = 0,
           NEW d, d = [c EXCEPT ![list] = Append(c[list], Len(c[list]) + 1)]
    PROVE  /\ Filled(d) /\ Len(d[list]) = Len(c[list]) + 1
           /\ \A other \in Lists \ {list} : d[other] = c[other]
<1>1. PICK n \in Nat : n = Len(c[list])
  BY SMTT(30) DEF Filled
<1>2. n < SizeIn(list) /\ c[list] = FirstOf(n) /\ SizeIn(list) \in Nat
  BY <1>1, SourceIsWhole, Zenon DEF Filled
<1>3. d = [c EXCEPT ![list] = FirstOf(n + 1)]
  BY <1>1, <1>2, FirstIsSeq, Zenon
<1>4. d[list] = FirstOf(n + 1) /\ \A other \in Lists \ {list} : d[other] = c[other]
  BY <1>3, Zenon DEF Filled
<1>5. FirstOf(n + 1) \in Seq(Nat) /\ Len(FirstOf(n + 1)) = n + 1
  <2>1. n + 1 \in Nat
    BY SMTT(30)
  <2> QED
    BY <2>1, FirstIsSeq, Zenon
<1>6. d \in [Lists -> Seq(Nat)]
  BY <1>3, <1>5, Zenon DEF Filled
<1>7. \A other \in Lists :
         d[other] = FirstOf(Len(d[other])) /\ Len(d[other]) <= SizeIn(other)
  <2> TAKE other \in Lists
  <2>1. CASE other = list
    <3>1. n + 1 <= SizeIn(list)
      BY <1>2, SMTT(30)
    <3> QED
      BY <1>4, <1>5, <2>1, <3>1, Zenon
  <2>2. CASE other # list
    BY <1>4, <2>2, Zenon DEF Filled
  <2> QED
    BY <2>1, <2>2, Zenon
<1>8. Filled(d)
  <2>1. CASE list = "stages"
    <3>1. Len(d["paths"]) = 0 /\ Len(d["columns"]) = 0
      BY <1>4, <2>1, Zenon DEF Behind, Lists
    <3> QED
      BY <1>6, <1>7, <3>1, SMTT(30) DEF Filled
  <2>2. CASE list = "paths"
    <3>1. Len(d["stages"]) = NumStages /\ Len(d["columns"]) = 0
      BY <1>4, <2>2, Zenon DEF Before, Behind, Lists, SizeIn
    <3> QED
      BY <1>6, <1>7, <3>1, SMTT(30) DEF Filled
  <2>3. CASE list = "columns"
    <3>1. Len(d["stages"]) = NumStages /\ Len(d["paths"]) = NumColumns
      BY <1>4, <2>3, Zenon DEF Before, Lists, SizeIn
    <3> QED
      BY <1>6, <1>7, <3>1, Zenon DEF Filled
  <2> QED
    BY <2>1, <2>2, <2>3, Zenon DEF Lists
<1> QED
  BY <1>1, <1>4, <1>5, <1>8, Zenon

(* Where a mapping that goes on is. *)
ListLabels == [stages |-> {"STAGES", "STAGES_SIZE", "STAGES_GET", "STAGES_VALUE"},
           paths |-> {"PATHS", "PATHS_SIZE", "PATHS_GET", "PATHS_VALUE"},
           columns |-> {"COLUMNS", "COLUMNS_SIZE", "COLUMNS_GET", "COLUMNS_VALUE"}]

LEMMA LabelsTell ==
    /\ \A list \in Lists :
          /\ ListLabels[list] = {AskFor[list], SizeOf[list], GetOf[list], ValueOf[list]}
          /\ ListLabels[list] \cap (Preparing \cup Lasting \cup {"RETURN", "LOST", "FAILED"}) = {}
          /\ GetOf[list] \notin {AskFor[list], SizeOf[list], ValueOf[list]}
          /\ ValueOf[list] \notin {AskFor[list], SizeOf[list], GetOf[list]}
          /\ AskFor[list] \notin {SizeOf[list], GetOf[list], ValueOf[list]}
    /\ \A list, other \in Lists : list # other => ListLabels[list] \cap ListLabels[other] = {}
    /\ After["stages"] = AskFor["paths"] /\ After["paths"] = AskFor["columns"]
    /\ After["columns"] = "RETURN"
BY SMTT(30) DEF Lists, ListLabels, AskFor, SizeOf, GetOf, ValueOf, Preparing, Lasting, After

(* What a step inside the reading of a list has to keep. *)
LEMMA ReadingStep ==
    ASSUME MapInv, NEW list \in Lists, mpc \in ListLabels[list], mpc' \in ListLabels[list],
           object' = [o \in Objects |-> object'[o]],
           context' = Some(Head(context')), Filled(Head(context')),
           \A other \in Lists \ {list} : Read(other)' = Read(other),
           errInfo' = "SUCCESS", UNCHANGED <<mapped, manswer>>,
           mpc' \in {AskFor[list], SizeOf[list]} => IsEmpty(list)',
           mpc' \in {GetOf[list], ValueOf[list]} => size' = SizeIn(list),
           mpc' = ValueOf[list] =>
                /\ Len(Read(list)') < size'
                /\ object'["element"] \in {None, Some(Len(Read(list)') + 1)}
    PROVE  MapInv'
<1>1. Reading(list) /\ mapped = None /\ manswer = "NONE"
  BY LabelsTell, SMTT(30) DEF MapInv
<1>2. Before[list] \subseteq Lists \ {list} /\ Behind[list] \subseteq Lists \ {list}
  BY SMTT(30) DEF Lists, Before, Behind
<1>3. context' # None
  BY SMTT(30) DEF Some, None
<1>4. Reading(list)'
  BY <1>1, <1>2, <1>3, Zenon DEF Reading, IsWhole, IsEmpty
<1>5. mpc' \notin Preparing \cup Lasting \cup {"RETURN", "LOST", "FAILED"}
  BY LabelsTell, Zenon
<1>6. \A other \in Lists : other # list =>
         mpc' \notin {AskFor[other], SizeOf[other], GetOf[other], ValueOf[other]}
  BY LabelsTell, Zenon
<1>7. \A other \in Lists :
          /\ mpc' \in {AskFor[other], SizeOf[other]} => Reading(other)' /\ IsEmpty(other)'
          /\ mpc' \in {GetOf[other], ValueOf[other]} => Reading(other)' /\ size' = SizeIn(other)
          /\ mpc' = ValueOf[other] =>
                /\ Len(Read(other)') < size'
                /\ object'["element"] \in {None, Some(Len(Read(other)') + 1)}
  <2> TAKE other \in Lists
  <2>1. CASE other = list
    BY <1>4, <2>1, Zenon
  <2>2. CASE other # list
    BY <1>6, <2>2, Zenon
  <2> QED
    BY <2>1, <2>2, Zenon
<1> QED
  BY <1>1, <1>5, <1>7, Zenon DEF MapInv, Lasting

(* A step that ends the reading. *)
LEMMA EndStep ==
    ASSUME MapInv, mpc \notin Lasting, mpc' \in {"RETURN", "LOST", "FAILED"},
           object' = [o \in Objects |-> object'[o]],
           UNCHANGED <<context, mapped, manswer>>,
           mpc' = "FAILED" => errInfo' # "SUCCESS",
           mpc' = "RETURN" => context # None,
           mpc' = "RETURN" /\ errInfo' = "SUCCESS" => \A list \in Lists : IsWhole(list)
    PROVE  MapInv'
<1>1. \A list \in Lists : mpc' \notin ListLabels[list]
  BY LabelsTell, Zenon
<1>2. \A list \in Lists : mpc' \notin {AskFor[list], SizeOf[list], GetOf[list], ValueOf[list]}
  BY <1>1, LabelsTell, Zenon
<1>3. \A list \in Lists : IsWhole(list)' <=> IsWhole(list)
  BY Zenon DEF IsWhole, Read
<1> QED
  BY <1>2, <1>3, Zenon DEF MapInv, Lasting, Preparing

(* A step before there is a context. *)
LEMMA PreparingStep ==
    ASSUME MapInv, mpc \in Preparing, mpc' \in Preparing \cup {"FAILED"},
           object' = [o \in Objects |-> object'[o]],
           UNCHANGED <<context, mapped, manswer>>,
           errInfo' = "SUCCESS" <=> mpc' # "FAILED"
    PROVE  MapInv'
<1>1. context = None /\ mapped = None /\ manswer = "NONE"
  BY Zenon DEF MapInv, Preparing, Lasting
<1>2. \A list \in Lists : mpc' \notin {AskFor[list], SizeOf[list], GetOf[list], ValueOf[list]}
  BY SMTT(30) DEF Lists, AskFor, SizeOf, GetOf, ValueOf, Preparing
<1>3. mpc' \notin {"RETURN", "USE", "DONE"} /\ ("FAILED" \notin Preparing)
  BY Zenon DEF Preparing
<1> QED
  BY <1>1, <1>2, <1>3, Zenon DEF MapInv

(* A call for one of the objects the context is made from. *)
LEMMA PrepareObjectStep ==
    ASSUME MapInv, NEW from \in Preparing, NEW to \in Preparing, NEW target,
           NEW result \in Objects, GetObject(from, target, result, to)
    PROVE  MapInv'
<1>1. "FAILED" \notin Preparing
  BY Zenon DEF Preparing
<1> QED
  BY <1>1, GetObjectDoes, PreparingStep, Zenon

LEMMA CollectionStep ==
    ASSUME MapInv, GetCollectionName, NumStages \in Nat, NumColumns \in Nat
    PROVE  MapInv'
<1>1. mpc = "COLLECTION" /\ context = None /\ mapped = None /\ manswer = "NONE"
      /\ object = [o \in Objects |-> object[o]]
  BY Zenon DEF MapInv, Preparing, Lasting, GetCollectionName
<1>2. PICK code : /\ errInfo' = code
                  /\ context' = IF code = "SUCCESS" THEN Some(NoLists) ELSE context
                  /\ mpc' = IF code = "SUCCESS" THEN "STAGES" ELSE "FAILED"
  BY Zenon DEF GetCollectionName, Continue
<1>3. CASE code # "SUCCESS"
  BY <1>1, <1>2, <1>3, PreparingStep, Zenon DEF GetCollectionName, Preparing
<1>4. CASE code = "SUCCESS"
  <2>1. mpc' = "STAGES" /\ errInfo' = "SUCCESS" /\ context' = Some(NoLists)
        /\ UNCHANGED <<object, mapped, manswer>>
    BY <1>2, <1>4, Zenon DEF GetCollectionName
  <2>2. Head(context') = NoLists /\ context' # None
    BY <2>1, SMTT(30) DEF Some, None
  <2>3. \A list \in Lists : NoLists[list] = <<>>
    BY Zenon DEF NoLists
  <2>4. \A list \in Lists : IsEmpty(list)'
    BY <2>2, <2>3, SMTT(30) DEF IsEmpty, Read
  <2>5. Filled(NoLists)
    <3>1. NoLists \in [Lists -> Seq(Nat)]
      BY SMTT(30) DEF NoLists
    <3>2. FirstOf(0) = <<>>
      BY FirstIsSeq, SMTT(30)
    <3>3. \A list \in Lists : Len(NoLists[list]) = 0 /\ 0 <= SizeIn(list)
      BY <2>3, SMTT(30) DEF SizeIn
    <3> QED
      BY <2>3, <3>1, <3>2, <3>3, SMTT(30) DEF Filled, Lists
  <2>6. Reading("stages")'
    BY <2>1, <2>2, <2>4, Zenon DEF Reading, Before, Behind, Lists
  <2>7. \A list \in Lists :
           /\ mpc' \in {AskFor[list], SizeOf[list]} => list = "stages"
           /\ mpc' \notin {GetOf[list], ValueOf[list]}
    BY <2>1, SMTT(30) DEF Lists, AskFor, SizeOf, GetOf, ValueOf
  <2>8. mpc' \notin Preparing /\ mpc' \notin {"RETURN", "FAILED", "USE", "DONE"}
    BY <2>1, Zenon DEF Preparing
  <2> QED
    BY <1>1, <2>1, <2>2, <2>4, <2>5, <2>6, <2>7, <2>8, Zenon DEF MapInv
<1> QED
  BY <1>3, <1>4, Zenon

(* The call for a list. *)
LEMMA AskStep ==
    ASSUME MapInv, NEW list \in Lists,
           GetObject(AskFor[list], "query", list, SizeOf[list])
    PROVE  MapInv'
<1>1. list \in Objects /\ mpc = AskFor[list]
  BY Zenon DEF Lists, Objects, GetObject
<1>2. /\ object' = [o \in Objects |-> object'[o]]
      /\ \/ mpc' = SizeOf[list] /\ errInfo' = "SUCCESS"
         \/ mpc' = "FAILED" /\ errInfo' # "SUCCESS"
      /\ UNCHANGED <<request, size, context, mapped, manswer>>
  BY <1>1, GetObjectDoes, Zenon
<1>3. Reading(list) /\ IsEmpty(list) /\ context # None
  BY <1>1, Zenon DEF MapInv, Reading
<1>4. mpc \notin Lasting
  BY <1>1, SMTT(30) DEF AskFor, Lists, Lasting
<1>5. CASE mpc' = "FAILED" /\ errInfo' # "SUCCESS"
  BY <1>2, <1>4, <1>5, EndStep, Zenon
<1>6. CASE mpc' = SizeOf[list] /\ errInfo' = "SUCCESS"
  <2>1. mpc \in ListLabels[list] /\ mpc' \in ListLabels[list] /\ mpc' \notin {GetOf[list], ValueOf[list]}
    BY <1>1, <1>6, LabelsTell, ZenonT(60) DEF SizeOf, GetOf, ValueOf, Lists
  <2>2. context' = Some(Head(context')) /\ Filled(Head(context'))
    BY <1>2, <1>3, Zenon DEF MapInv
  <2>3. \A other \in Lists : Read(other)' = Read(other)
    BY <1>2, Zenon DEF Read
  <2>4. IsEmpty(list)'
    BY <1>3, <2>3, Zenon DEF IsEmpty
  <2> QED
    BY <1>2, <1>6, <2>1, <2>2, <2>3, <2>4, ReadingStep, Zenon
<1> QED
  BY <1>2, <1>5, <1>6, Zenon

(* A call that fails while a list is read. *)
LEMMA ReadFailsStep ==
    ASSUME MapInv, NEW list \in Lists, NEW code, mpc \in {SizeOf[list], GetOf[list], ValueOf[list]},
           code # "SUCCESS", ReadFails(list, code),
           object' = [o \in Objects |-> object'[o]],
           UNCHANGED <<context, mapped, manswer>>
    PROVE  MapInv'
<1>1. context # None
  BY Zenon DEF MapInv, Reading
<1>2. mpc \notin Lasting
  BY SMTT(30) DEF SizeOf, GetOf, ValueOf, Lists, Lasting
<1>3. \/ mpc' = "LOST"
      \/ mpc' = "RETURN" /\ errInfo' # "SUCCESS"
  BY Zenon DEF ReadFails, ReadListFails, ReadColumnsFails, Continue
<1> QED
  BY <1>1, <1>2, <1>3, EndStep, Zenon

LEMMA ListSizeStep ==
    ASSUME MapInv, NEW list \in Lists, ListSize(list), NumStages \in Nat, NumColumns \in Nat
    PROVE  MapInv'
<1>1. /\ mpc = SizeOf[list] /\ object' = [o \in Objects |-> object'[o]]
      /\ UNCHANGED <<object, context, mapped, manswer>>
  BY Zenon DEF ListSize, MapInv
<1>2. PICK outcome \in Outcomes :
        LET call == CallPlain(object[list], size, outcome, Len(Source[list]))
        IN  /\ size' = call.value
            /\ \/ call.code # "SUCCESS" /\ ReadFails(list, call.code)
               \/ call.code = "SUCCESS" /\ ReadGoesOn(list) /\ Continue(GetOf[list])
  BY Zenon DEF ListSize
<1>3. PICK code : /\ code = CallCode(object[list], outcome)
                  /\ \/ code # "SUCCESS" /\ ReadFails(list, code)
                     \/ /\ code = "SUCCESS" /\ ReadGoesOn(list) /\ mpc' = GetOf[list]
                        /\ size' = Len(Source[list])
  BY <1>2, Zenon DEF CallPlain, Continue
<1>4. CASE code # "SUCCESS"
  BY <1>1, <1>3, <1>4, ReadFailsStep, SMTT(30)
<1>5. CASE code = "SUCCESS"
  <2>1. Reading(list) /\ context # None /\ errInfo = "SUCCESS"
    BY <1>1, Zenon DEF MapInv, Reading
  <2>2. mpc' = GetOf[list] /\ size' = SizeIn(list) /\ errInfo' = "SUCCESS"
    BY <1>3, <1>5, <2>1, SourceIsWhole, Zenon DEF ReadGoesOn
  <2>3. mpc \in ListLabels[list] /\ mpc' \in ListLabels[list]
        /\ mpc' \notin {AskFor[list], SizeOf[list], ValueOf[list]}
    BY <1>1, <2>2, LabelsTell, ZenonT(60)
  <2>4. context' = Some(Head(context')) /\ Filled(Head(context'))
    BY <1>1, <2>1, Zenon DEF MapInv
  <2>5. \A other \in Lists : Read(other)' = Read(other)
    BY <1>1, Zenon DEF Read
  <2> QED
    BY <1>1, <2>2, <2>3, <2>4, <2>5, ReadingStep, Zenon
<1> QED
  BY <1>4, <1>5, Zenon

LEMMA ListGetStep ==
    ASSUME MapInv, NEW list \in Lists, ListGet(list), NumStages \in Nat, NumColumns \in Nat
    PROVE  MapInv'
<1>1. /\ mpc = GetOf[list] /\ UNCHANGED <<size, context, mapped, manswer>>
      /\ object = [o \in Objects |-> object[o]]
  BY Zenon DEF ListGet, MapInv
<1>2. Reading(list) /\ size = SizeIn(list) /\ context # None /\ errInfo = "SUCCESS"
  BY <1>1, Zenon DEF MapInv, Reading
<1>3. context' = Some(Head(context')) /\ Filled(Head(context'))
  BY <1>1, <1>2, Zenon DEF MapInv
<1>4. \A other \in Lists : Read(other)' = Read(other)
  BY <1>1, Zenon DEF Read
<1>5. mpc \in ListLabels[list]
  BY <1>1, LabelsTell, ZenonT(60)
<1>6. CASE Len(Read(list)) < size
  <2>1. PICK outcome \in Outcomes :
           LET call == CallObject(object[list], None, outcome, Len(Read(list)) + 1)
           IN  /\ object' = [object EXCEPT !["element"] = call.value]
               /\ \/ call.code # "SUCCESS" /\ ReadFails(list, call.code)
                  \/ call.code = "SUCCESS" /\ ReadGoesOn(list) /\ Continue(ValueOf[list])
    BY <1>6, Zenon DEF ListGet
  <2>2. PICK code, value :
           /\ value \in {None, Some(Len(Read(list)) + 1)}
           /\ object' = [object EXCEPT !["element"] = value]
           /\ \/ code # "SUCCESS" /\ ReadFails(list, code)
              \/ code = "SUCCESS" /\ ReadGoesOn(list) /\ mpc' = ValueOf[list]
    BY <2>1, Zenon DEF CallObject, Continue
  <2>3. object' = [o \in Objects |-> object'[o]] /\ object'["element"] = value
    BY <1>1, <2>2, Zenon DEF Objects
  <2>4. CASE code # "SUCCESS"
    BY <1>1, <2>2, <2>3, <2>4, ReadFailsStep, SMTT(30)
  <2>5. CASE code = "SUCCESS"
    <3>1. mpc' = ValueOf[list] /\ errInfo' = "SUCCESS"
      BY <1>2, <2>2, <2>5, Zenon DEF ReadGoesOn
    <3>2. mpc' \in ListLabels[list] /\ mpc' \notin {AskFor[list], SizeOf[list]}
      BY <3>1, LabelsTell, ZenonT(60)
    <3>3. Len(Read(list)') < size' /\ size' = SizeIn(list)
          /\ object'["element"] \in {None, Some(Len(Read(list)') + 1)}
      BY <1>1, <1>2, <1>4, <1>6, <2>2, <2>3, Zenon
    <3> QED
      BY <1>1, <1>3, <1>4, <1>5, <2>3, <3>1, <3>2, <3>3, ReadingStep, Zenon
  <2> QED
    BY <2>4, <2>5, Zenon
<1>7. CASE ~(Len(Read(list)) < size)
  <2>1. mpc' = After[list] /\ UNCHANGED <<object, errInfo>>
    BY <1>7, Zenon DEF ListGet, Continue
  <2>2. IsWhole(list)
    BY <1>2, <1>3, <1>4, <1>7, SourceIsWhole, SMTT(30) DEF IsWhole, Filled, Read
  <2>3. \A other \in Before[list] : IsWhole(other)
    BY <1>2, Zenon DEF Reading
  <2>4. \A other \in Behind[list] : IsEmpty(other)
    BY <1>2, Zenon DEF Reading
  <2>5. CASE list = "columns"
    <3>1. \A other \in Lists : IsWhole(other)
      BY <2>2, <2>3, <2>5, Zenon DEF Before, Lists
    <3>2. mpc' = "RETURN" /\ mpc \notin Lasting
      BY <1>1, <2>1, <2>5, Zenon DEF After, GetOf, Lasting
    <3> QED
      BY <1>1, <1>2, <2>1, <3>1, <3>2, EndStep, Zenon
  <2>6. CASE list # "columns"
    <3>1. PICK next \in Lists :
             /\ After[list] = AskFor[next]
             /\ Before[next] = Before[list] \cup {list}
             /\ Behind[list] = Behind[next] \cup {next}
      <4>1. list \in {"stages", "paths"} /\ {"stages", "paths", "columns"} = Lists
        BY <2>6, Zenon DEF Lists
      <4>2. CASE list = "stages"
        BY <4>1, <4>2, LabelsTell, ZenonT(60) DEF Before, Behind
      <4>3. CASE list = "paths"
        BY <4>1, <4>3, LabelsTell, ZenonT(60) DEF Before, Behind
      <4> QED
        BY <4>1, <4>2, <4>3, Zenon
    <3>2. \A other \in Lists : (IsWhole(other)' <=> IsWhole(other))
                               /\ (IsEmpty(other)' <=> IsEmpty(other))
      BY <1>4, Zenon DEF IsWhole, IsEmpty
    <3>3. Reading(next)' /\ IsEmpty(next)'
      <4>1. Before[next] \subseteq Lists /\ Behind[next] \subseteq Lists
        BY SMTT(30) DEF Before, Behind, Lists
      <4> QED
        BY <1>1, <1>2, <2>1, <2>2, <2>3, <2>4, <3>1, <3>2, <4>1, Zenon DEF Reading
    <3>4. \A other \in Lists :
             /\ mpc' \in {AskFor[other], SizeOf[other]} => other = next
             /\ mpc' \notin {GetOf[other], ValueOf[other]}
      BY <2>1, <3>1, LabelsTell, SMTT(30)
    <3>5. mpc' \notin Preparing \cup Lasting \cup {"RETURN", "LOST", "FAILED"}
          /\ mpc \notin Lasting
      BY <1>5, <2>1, <3>1, LabelsTell, Zenon
    <3>6. mapped = None /\ manswer = "NONE"
      BY <3>5, Zenon DEF MapInv
    <3> QED
      BY <1>1, <1>2, <1>3, <2>1, <3>3, <3>4, <3>5, <3>6, Zenon DEF MapInv, Lasting
  <2> QED
    BY <2>5, <2>6, Zenon
<1> QED
  BY <1>6, <1>7, Zenon

(* An element is read: the list has one more. *)
LEMMA ValueStep ==
    ASSUME MapInv, NEW list \in Lists, NumStages \in Nat, NumColumns \in Nat,
           mpc = ValueOf[list], object["element"] # None,
           Append1(list), mpc' = GetOf[list], errInfo' = "SUCCESS",
           UNCHANGED <<object, size, mapped, manswer>>
    PROVE  MapInv'
<1>1. /\ Reading(list) /\ size = SizeIn(list) /\ context # None
      /\ Len(Read(list)) < size /\ object["element"] = Some(Len(Read(list)) + 1)
      /\ object' = [o \in Objects |-> object'[o]]
  BY Zenon DEF MapInv, Reading
<1>2. PICK c : c = Head(context) /\ Filled(c)
  BY <1>1, Zenon DEF MapInv
<1>3. PICK d : d = [c EXCEPT ![list] = Append(c[list], Len(c[list]) + 1)]
               /\ context' = Some(d)
  BY <1>1, <1>2, SMTT(30) DEF Append1, Some, Read
<1>4. Filled(d) /\ \A other \in Lists \ {list} : d[other] = c[other]
  <2>1. \A other \in Before[list] : Len(c[other]) = SizeIn(other)
    BY <1>1, <1>2, Zenon DEF Reading, IsWhole, Read
  <2>2. \A other \in Behind[list] : Len(c[other]) = 0
    BY <1>1, <1>2, Zenon DEF Reading, IsEmpty, Read
  <2>3. Len(c[list]) < SizeIn(list)
    BY <1>1, <1>2, Zenon DEF Read
  <2> QED
    BY <1>2, <1>3, <2>1, <2>2, <2>3, AppendFills, SMTT(30)
<1>5. Head(context') = d
  BY <1>3, SMTT(30) DEF Some
<1>6. \A other \in Lists \ {list} : Read(other)' = Read(other)
  BY <1>2, <1>4, <1>5, Zenon DEF Read
<1>7. mpc \in ListLabels[list] /\ mpc' \in ListLabels[list]
      /\ mpc' \notin {AskFor[list], SizeOf[list], ValueOf[list]}
  BY LabelsTell, Zenon
<1> QED
  BY <1>1, <1>3, <1>4, <1>5, <1>6, <1>7, ReadingStep, Zenon

(* A conversion that dereferences a null element ends the process. *)
LEMMA StringStep ==
    ASSUME MapInv, NEW list \in Lists, JavaStringToCppString(list),
           NumStages \in Nat, NumColumns \in Nat
    PROVE  MapInv'
<1>1. /\ mpc = ValueOf[list] /\ UNCHANGED <<object, size, mapped>>
      /\ object' = [o \in Objects |-> object'[o]]
  BY Zenon DEF JavaStringToCppString, MapInv
<1>2. mpc \notin Lasting
  BY <1>1, SMTT(30) DEF ValueOf, Lists, Lasting
<1>3. errInfo = "SUCCESS" /\ mapped = None /\ context # None
  BY <1>1, <1>2, Zenon DEF MapInv, Reading
<1>4. CASE ReadListFails(list, "JVM_ATTACH") /\ UNCHANGED <<context, manswer>>
  BY <1>1, <1>4, ReadFailsStep, SMTT(30) DEF ReadFails
<1>5. CASE /\ object["element"] # None
           /\ Append1(list) /\ Continue(GetOf[list]) /\ UNCHANGED <<errInfo, manswer>>
  BY <1>1, <1>3, <1>5, ValueStep, Zenon DEF Continue
<1>6. CASE manswer' = "TERMINATED" /\ Continue("DONE") /\ UNCHANGED <<errInfo, context>>
  <2>1. mpc' = "DONE" /\ mapped' = None
    BY <1>1, <1>3, <1>6, Zenon DEF Continue
  <2>2. \A other \in Lists : mpc' \notin {AskFor[other], SizeOf[other], GetOf[other], ValueOf[other]}
    BY <2>1, SMTT(30) DEF Lists, AskFor, SizeOf, GetOf, ValueOf
  <2> QED
    BY <1>1, <1>3, <1>6, <2>1, <2>2, Zenon DEF MapInv, Lasting, Preparing
<1> QED
  BY <1>4, <1>5, <1>6, Zenon DEF JavaStringToCppString

LEMMA ColumnStep ==
    ASSUME MapInv, JdbcColumnMetadata, NumStages \in Nat, NumColumns \in Nat
    PROVE  MapInv'
<1>1. /\ mpc = ValueOf["columns"] /\ UNCHANGED <<object, size, mapped, manswer>>
      /\ object' = [o \in Objects |-> object'[o]] /\ "columns" \in Lists
  BY Zenon DEF JdbcColumnMetadata, MapInv, Lists
<1>2. PICK outcome \in Outcomes :
        \/ /\ ColumnCall(outcome) # "SUCCESS" /\ ReadFails("columns", ColumnCall(outcome))
           /\ UNCHANGED context
        \/ /\ ColumnCall(outcome) = "SUCCESS" /\ ReadGoesOn("columns")
           /\ Append1("columns") /\ Continue(GetOf["columns"])
  BY Zenon DEF JdbcColumnMetadata
<1>3. CASE ColumnCall(outcome) # "SUCCESS"
  BY <1>1, <1>2, <1>3, ReadFailsStep, SMTT(30)
<1>4. CASE ColumnCall(outcome) = "SUCCESS"
  <2>1. object["element"] # None
    BY <1>4, Zenon DEF ColumnCall, CallCode
  <2> QED
    BY <1>1, <1>2, <1>4, <2>1, ValueStep, Zenon DEF ReadGoesOn, Continue
<1> QED
  BY <1>3, <1>4, Zenon

(* The steps after the context has been read, or has not. *)
LEMMA ReturnStep ==
    ASSUME MapInv, Return \/ ReturnError \/ UseForMeta \/ UseForFetch \/ Again
    PROVE  MapInv'
<1>0. /\ \A list \in Lists : mpc' \in Lasting \cup {"PROPERTIES"} =>
            mpc' \notin {AskFor[list], SizeOf[list], GetOf[list], ValueOf[list]}
      /\ "PROPERTIES" \notin Lasting \cup {"RETURN", "FAILED"} /\ Lasting \cap Preparing = {}
      /\ Lasting \cap {"RETURN", "FAILED", "LOST"} = {}
  BY SMTT(30) DEF Lists, AskFor, SizeOf, GetOf, ValueOf, Lasting, Preparing
<1>1. CASE Return
  <2>1. /\ mpc' \in Lasting /\ mpc' # "DONE"
        /\ mpc' = "USE" <=> errInfo = "SUCCESS"
        /\ UNCHANGED <<object, errInfo, context, manswer>>
        /\ mapped' \in {None, context}
        /\ mapped' # None => mpc = "RETURN"
    BY <1>1, Zenon DEF Return, Continue, Lasting
  <2>2. \A list \in Lists : IsWhole(list)' <=> IsWhole(list)
    BY <2>1, Zenon DEF IsWhole, Read
  <2>3. mpc' = "USE" /\ mapped' # None => \A list \in Lists : IsWhole(list)'
    BY <2>1, <2>2, Zenon DEF MapInv
  <2> QED
    BY <1>0, <2>1, <2>3, Zenon DEF MapInv
<1>2. CASE ReturnError \/ UseForMeta \/ UseForFetch
  <2>1. /\ mpc' = "DONE" /\ UNCHANGED <<object, errInfo, context, mapped>>
        /\ mpc = "USE" \/ manswer' = "ERROR"
    BY <1>2, Zenon DEF ReturnError, UseForMeta, UseForFetch, Continue
  <2>2. \A list \in Lists : IsWhole(list)' <=> IsWhole(list)
    BY <2>1, Zenon DEF IsWhole, Read
  <2> QED
    BY <1>0, <2>1, <2>2, Zenon DEF MapInv, Lasting
<1>3. CASE Again
  <2>1. /\ mpc' = "PROPERTIES" /\ errInfo' = "SUCCESS" /\ context' = None
        /\ mapped' = None /\ manswer' = "NONE"
        /\ object' = [o \in Objects |-> object'[o]]
    BY <1>3, Zenon DEF Again
  <2> QED
    BY <1>0, <2>1, Zenon DEF MapInv
<1> QED
  BY <1>1, <1>2, <1>3, Zenon

LEMMA MapPreserved ==
    ASSUME NumStages \in Nat, NumColumns \in Nat, MapInv, [MappingNext]_mappingVars
    PROVE  MapInv'
<1>1. CASE NotConnected
  BY <1>1, PreparingStep, Zenon DEF NotConnected, Continue, Preparing, MapInv
<1>2. CASE GetConnectionProperties
  BY <1>2, PrepareObjectStep, Zenon DEF GetConnectionProperties, Preparing, Objects
<1>3. CASE GetDatabaseMetadata
  BY <1>3, PrepareObjectStep, Zenon DEF GetDatabaseMetadata, Preparing, Objects
<1>4. CASE CreateService
  <2>1. PICK target : GetObject("SERVICE", target, "service", "QUERY")
    BY <1>4, Zenon DEF CreateService
  <2> QED
    BY <2>1, PrepareObjectStep, Zenon DEF Preparing, Objects
<1>5. CASE QueryMappingServiceGet
  BY <1>5, PrepareObjectStep, Zenon DEF QueryMappingServiceGet, Preparing, Objects
<1>6. CASE GetCollectionName
  BY <1>6, CollectionStep, Zenon
<1>7. CASE GetAggregateOperations
  BY <1>7, AskStep, Zenon DEF GetAggregateOperations, Lists, AskFor, SizeOf
<1>8. CASE GetPaths
  BY <1>8, AskStep, Zenon DEF GetPaths, Lists, AskFor, SizeOf
<1>9. CASE GetColumnMetadata
  BY <1>9, AskStep, Zenon DEF GetColumnMetadata, Lists, AskFor, SizeOf
<1>10. ASSUME NEW list \in Lists,
              ListSize(list) \/ ListGet(list) \/ JavaStringToCppString(list)
       PROVE  MapInv'
  BY <1>10, ListSizeStep, ListGetStep, StringStep, Zenon
<1>11. CASE JdbcColumnMetadata
  BY <1>11, ColumnStep, Zenon
<1>12. CASE Return \/ ReturnError \/ UseForMeta \/ UseForFetch \/ Again
  BY <1>12, ReturnStep, Zenon
<1>13. CASE UNCHANGED mappingVars
  BY <1>13, Zenon DEF mappingVars, MapInv, Reading, IsWhole, IsEmpty, Read
<1> QED
  BY <1>1, <1>2, <1>3, <1>4, <1>5, <1>6, <1>7, <1>8, <1>9, <1>10, <1>11, <1>12, <1>13, Zenon
     DEF MappingNext

(* A context with which DataQuery goes on is whole, however many stages    *)
(* and columns it has and whichever of its calls into Java fail, and what  *)
(* has been read of a list is a beginning of it, the lists one after the   *)
(* other (GetMqlQueryContext, ReadListOfString, ReadJdbcColumnMetadata).   *)
THEOREM ContextWhole ==
    ASSUME NumStages \in Nat, NumColumns \in Nat
    PROVE  MappingSpec => []UsedContextIsWhole
<1>1. MappingInit => MapInv
  BY MapInitially, Zenon
<1>2. MapInv /\ [MappingNext]_mappingVars => MapInv'
  BY MapPreserved, Zenon
<1>3. MapInv => UsedContextIsWhole
  BY MapInvImplies, Zenon
<1> QED
  BY <1>1, <1>2, <1>3, PTL DEF MappingSpec

-----------------------------------------------------------------------------
(***************************************************************************)
(* QueryCursor                                                             *)
(***************************************************************************)

(* The last row that is in the application's hands or lost to it: the one  *)
(* before the batch's next, or the last the iterator handed over.          *)
UptoOf(b, s) == IF b.last - b.next + 1 > 0 THEN b.next - 1 ELSE s
Upto == UptoOf(batch, source)

(* A batch that holds rows ends where Java's iterator is. *)
Sound(b, s) ==
    /\ b \in [next : Int, last : Int] /\ s \in 0 .. NumRows
    /\ b.last - b.next + 1 > 0 => b.last = s /\ b.next >= 1

(* What was given up to the row n. *)
GivenUpto(n) ==
    /\ \A i \in 1 .. Len(given) : given[i] <= n
    /\ \A i, j \in 1 .. Len(given) : i < j => given[i] < given[j]
    /\ ~failed => Len(given) = n /\ \A i \in 1 .. Len(given) : given[i] = i

CursorInv ==
    /\ CursorTypeOK
    /\ Sound(batch, source)
    /\ GivenUpto(Upto)
    /\ endReached => Left <= 0
    /\ endReached /\ ~failed => source = NumRows
    /\ reply = "no" /\ err = NoError /\ ~failed => Len(given) = NumRows
    /\ reply = "none" => err # NoError
    /\ getAllCalled => ~iterCalled /\ ~fields /\ Len(given) = NumRows
    /\ ~iterCalled => batch = NoBatch
    /\ RowsAreReadInside

USE CursorAssumption

(* A search leaves a sound batch; it finds a row where the last one was    *)
(* given, and without an error passes over none; it ends the cursor with   *)
(* an error or at the last row.                                            *)
Finding(f) ==
    /\ f.ok \in BOOLEAN /\ f.iterCalled \in BOOLEAN /\ f.endReached \in BOOLEAN
    /\ Sound(f.batch, f.source)
    /\ Upto <= UptoOf(f.batch, f.source)
    /\ ~failed /\ f.err # JavaError => UptoOf(f.batch, f.source) = Upto
    /\ f.endReached => f.batch.last - f.batch.next + 1 <= 0
    /\ f.endReached /\ ~failed /\ f.err # JavaError => f.source = NumRows
    /\ f.ok /\ ~f.endReached => f.batch.last - f.batch.next + 1 > 0
    /\ ~f.ok => f.err = JavaError
    /\ ~f.iterCalled => f.batch = NoBatch

(* CreateIteratorIfNeeded and GetNextBatchIfNeeded, however Java answers.  *)
LEMMA SearchFinds ==
    ASSUME CursorInv, NEW e, NEW f \in Searches(e)
    PROVE  Finding(f)
<1>0. /\ batch \in [next : Int, last : Int] /\ source \in 0 .. NumRows
      /\ endReached \in BOOLEAN /\ iterCalled \in BOOLEAN /\ failed \in BOOLEAN
      /\ Sound(batch, source)
  BY Zenon DEF CursorInv, CursorTypeOK
<1>1. CASE f \in {IteratorFails} /\ ~iterCalled
  <2>1. /\ f.ok = FALSE /\ f.iterCalled = FALSE /\ f.endReached = endReached /\ f.batch = batch
        /\ f.source = source /\ f.err = JavaError
    BY <1>1, SMTT(30) DEF IteratorFails, Found
  <2>2. /\ batch = NoBatch /\ batch.last - batch.next + 1 = 0
        /\ Upto = source /\ UptoOf(batch, source) = source
    BY <1>0, <1>1, SMTT(30) DEF CursorInv, NoBatch, Upto, UptoOf
  <2>3. f.ok \in BOOLEAN /\ f.iterCalled \in BOOLEAN /\ f.endReached \in BOOLEAN
    BY <1>0, <2>1, Zenon
  <2>4. Sound(f.batch, f.source)
    BY <1>0, <2>1, Zenon
  <2>5. Upto <= UptoOf(f.batch, f.source)
    BY <1>0, <2>1, <2>2, SMTT(30)
  <2>6. UptoOf(f.batch, f.source) = Upto
    BY <1>0, <2>1, <2>2, Zenon
  <2>7. f.batch.last - f.batch.next + 1 <= 0
    BY <2>1, <2>2, SMTT(30)
  <2>8. ~f.ok /\ f.err = JavaError /\ f.batch = NoBatch
    BY <2>1, <2>2, Zenon
  <2>q. QED
    BY <2>3, <2>4, <2>5, <2>6, <2>7, <2>8, Zenon DEF Finding
<1>2. CASE (endReached \/ Left > 0) /\ f = Found(TRUE, TRUE, endReached, batch, source, IF iterCalled THEN e ELSE NoError)
  BY <1>0, <1>2, SMTT(30) DEF Found, Finding, CursorInv, Upto, UptoOf, Sound, Left
<1>3. ASSUME ~(endReached \/ Left > 0), f \in FindNext(e)
      PROVE  Finding(f)
  <2>0. ~endReached /\ Left <= 0 /\ Upto = source /\ Left = batch.last - batch.next + 1
    BY <1>0, <1>3, SMTT(30) DEF Left, Upto, UptoOf
  <2>1. CASE source = NumRows /\ f = Found(TRUE, TRUE, TRUE, batch, source, NoError)
    BY <1>0, <2>0, <2>1, SMTT(30) DEF Found, Finding, Upto
  <2>2. CASE f = Found(TRUE, TRUE, TRUE, batch, source, JavaError)
    BY <1>0, <2>0, <2>2, SMTT(30) DEF Found, Finding, Upto
  <2>3. ASSUME NEW n \in Sizes, f = Found(FALSE, TRUE, FALSE, batch, source + n, JavaError)
        PROVE  Finding(f)
    BY <1>0, <2>0, <2>3, SMTT(30) DEF Found, Finding, Sizes, Sound, UptoOf
  <2>4. ASSUME NEW n \in Sizes, n = 0 => source = NumRows, f = Batch(n)
        PROVE  Finding(f)
    <3>1. /\ f.ok = TRUE /\ f.iterCalled = TRUE /\ f.endReached = (n = 0) /\ f.source = source + n
          /\ f.batch = [next |-> source + 1, last |-> source + n]
      BY <2>4, Zenon DEF Batch, Found
    <3>2. /\ f.batch.next = source + 1 /\ f.batch.last = source + n
          /\ f.batch \in [next : Int, last : Int]
          /\ n \in 0 .. MaxBatch /\ source + n \in 0 .. NumRows
      BY <1>0, <3>1, SMTT(30) DEF Sizes
    <3>3. UptoOf(f.batch, f.source) = source /\ f.batch.last - f.batch.next + 1 = n
      BY <1>0, <3>1, <3>2, SMTT(30) DEF UptoOf
    <3>4. f.ok \in BOOLEAN /\ f.iterCalled \in BOOLEAN /\ f.endReached \in BOOLEAN
      BY <3>1, Zenon
    <3>5. Sound(f.batch, f.source)
      BY <1>0, <3>1, <3>2, SMTT(30) DEF Sound
    <3>6. Upto <= UptoOf(f.batch, f.source) /\ UptoOf(f.batch, f.source) = Upto
      BY <1>0, <2>0, <3>3, SMTT(30)
    <3>a. (f.endReached => n = 0) /\ (~f.endReached => n # 0)
      BY <3>1, Zenon
    <3>b. n = 0 => f.batch.last - f.batch.next + 1 <= 0 /\ f.source = NumRows
      BY <1>0, <2>4, <3>1, <3>3, SMTT(30)
    <3>c. n # 0 => f.batch.last - f.batch.next + 1 > 0
      BY <3>2, <3>3, SMTT(30)
    <3>7. f.endReached => f.batch.last - f.batch.next + 1 <= 0 /\ f.source = NumRows
      BY <3>a, <3>b, Zenon
    <3>8. ~f.endReached => f.batch.last - f.batch.next + 1 > 0
      BY <3>a, <3>c, Zenon
    <3>9. f.ok /\ f.iterCalled
      BY <3>1, Zenon
    <3>q. QED
      BY <3>4, <3>5, <3>6, <3>7, <3>8, <3>9, Zenon DEF Finding
  <2>q. QED
    BY <1>3, <2>1, <2>2, <2>3, <2>4, Zenon DEF FindNext
<1>q. QED
  BY <1>1, <1>2, <1>3, Zenon DEF Searches, FindNext

(* What a search that gives no row leaves true. *)
SearchedKeeps ==
    /\ CursorTypeOK' /\ Sound(batch', source') /\ GivenUpto(Upto)'
    /\ ~failed' /\ endReached' => source' = NumRows /\ Upto' = NumRows
    /\ endReached' => Left' <= 0
    /\ ~iterCalled' => batch' = NoBatch
    /\ RowsAreReadInside'

(* HasNext, and a GetNext that brings no row, change the cursor only by    *)
(* their search.                                                           *)
LEMMA SearchKeeps ==
    ASSUME CursorInv, NEW f, Finding(f),
           iterCalled' = f.iterCalled, endReached' = f.endReached, source' = f.source,
           failed' = (failed \/ f.err = JavaError), fields' = fields, getAllCalled' = getAllCalled,
           row' = row, given' = given, batch' = f.batch
    PROVE  SearchedKeeps
<1>0. failed \in BOOLEAN /\ failed' \in BOOLEAN
  BY Zenon DEF CursorInv, CursorTypeOK
<1>1. CursorTypeOK'
  BY <1>0, Zenon DEF CursorInv, CursorTypeOK, Finding, Sound
<1>2. Sound(batch', source') /\ Upto' = UptoOf(f.batch, f.source)
  BY Zenon DEF Finding, Sound, Upto, UptoOf
<1>3. GivenUpto(Upto)'
  <2>a. given \in Seq(1 .. NumRows)
    BY Zenon DEF CursorInv, CursorTypeOK
  <2>0. Len(given) \in Nat /\ \A i \in 1 .. Len(given) : given[i] \in 1 .. NumRows
    BY <2>a, SMTT(30)
  <2>1. Upto \in Int
    BY SMTT(30) DEF CursorInv, Sound, Upto, UptoOf
  <2>2. UptoOf(f.batch, f.source) \in Int
    BY SMTT(30) DEF Finding, Sound, UptoOf
  <2>3. Upto <= Upto' /\ (~failed' => Upto' = Upto)
    BY <1>0, <1>2, Zenon DEF Finding
  <2>4. /\ \A i \in 1 .. Len(given) : given[i] <= Upto'
        /\ \A i, j \in 1 .. Len(given) : i < j => given[i] < given[j]
    BY <1>2, <2>0, <2>1, <2>2, <2>3, SMTT(30) DEF CursorInv, GivenUpto
  <2>5. ~failed' => Len(given) = Upto' /\ \A i \in 1 .. Len(given) : given[i] = i
    BY <1>0, <2>3, Zenon DEF CursorInv, GivenUpto
  <2>q. QED
    BY <2>4, <2>5, Zenon DEF GivenUpto
<1>4. ~failed' /\ endReached' => source' = NumRows /\ Upto' = NumRows
  <2>1. SUFFICES ASSUME ~failed', endReached'
                 PROVE  source' = NumRows /\ Upto' = NumRows
    BY Zenon
  <2>2. ~failed /\ f.err # JavaError /\ f.endReached
    BY <1>0, <2>1, Zenon
  <2>3. f.source = NumRows /\ f.batch.last - f.batch.next + 1 <= 0
    BY <2>2, Zenon DEF Finding
  <2>4. f.batch \in [next : Int, last : Int]
    BY Zenon DEF Finding, Sound
  <2>q. QED
    BY <1>2, <2>3, <2>4, SMTT(30) DEF UptoOf
<1>5. (endReached' => Left' <= 0) /\ (~iterCalled' => batch' = NoBatch) /\ RowsAreReadInside'
  BY Zenon DEF Finding, Left, CursorInv, RowsAreReadInside
<1>q. QED
  BY <1>1, <1>2, <1>3, <1>4, <1>5, Zenon DEF SearchedKeeps

(* HasNext says "no" without an error only at the end.                     *)
LEMMA HasNextKeeps ==
    ASSUME CursorInv, NEW e, HasNext(e)
    PROVE  CursorInv'
<1>1. CASE getAllCalled /\ Refuse
  BY <1>1, Zenon DEF Refuse, CursorInv, CursorTypeOK, Sound, GivenUpto, Upto, UptoOf, Left, RowsAreReadInside,
     NoError, UsageError, NoBatch
<1>2. ASSUME ~getAllCalled, NEW f \in Searches(e), Searched(f, f.err), batch' = f.batch,
             reply' = IF f.ok /\ ~f.endReached THEN "more" ELSE "no", UNCHANGED <<row, given>>
      PROVE  CursorInv'
  <2>1. Finding(f)
    BY <1>2, SearchFinds, Zenon
  <2>2. /\ iterCalled' = f.iterCalled /\ endReached' = f.endReached /\ source' = f.source
        /\ err' = f.err /\ failed' = (failed \/ f.err = JavaError)
        /\ fields' = fields /\ getAllCalled' = getAllCalled /\ row' = row /\ given' = given
        /\ failed' \in BOOLEAN
    BY <1>2, Zenon DEF Searched, CursorInv, CursorTypeOK
  <2>3. SearchedKeeps
    BY <1>2, <2>1, <2>2, SearchKeeps, Zenon
  <2>4. reply' = "no" /\ err' = NoError => endReached'
    <3>1. reply' = "no" => ~(f.ok /\ ~f.endReached)
      BY <1>2, Zenon
    <3>2. ~f.ok => err' = JavaError
      BY <2>1, <2>2, Zenon DEF Finding
    <3>q. QED
      BY <2>2, <3>1, <3>2, Zenon DEF NoError, JavaError
  <2>5. reply' # "none"
    BY <1>2, Zenon
  <2>6. ~failed' => Len(given') = Upto'
    BY <2>3, Zenon DEF SearchedKeeps, GivenUpto
  <2>q. QED
    BY <1>2, <2>2, <2>3, <2>4, <2>5, <2>6, Zenon DEF SearchedKeeps, CursorInv
<1>q. QED
  BY <1>1, <1>2, Zenon DEF HasNext

(* GetNext gives the row after the last one given or passed over.          *)
LEMMA GetNextKeeps ==
    ASSUME CursorInv, NEW e, GetNext(e)
    PROVE  CursorInv'
<1>1. CASE getAllCalled /\ ~fields /\ Refuse
  BY <1>1, Zenon DEF Refuse, CursorInv, CursorTypeOK, Sound, GivenUpto, Upto, UptoOf, Left, RowsAreReadInside,
     NoError, UsageError, NoBatch
<1>0. /\ getAllCalled \in BOOLEAN /\ failed \in BOOLEAN /\ given \in Seq(1 .. NumRows)
      /\ fields \in BOOLEAN /\ (getAllCalled => ~fields)
  BY Zenon DEF CursorInv, CursorTypeOK
<1>2. ASSUME ~getAllCalled \/ fields, NEW f \in Searches(e), f.ok, ~f.endReached,
             Searched(f, f.err), TakeRow(f.batch), reply' = "row"
      PROVE  CursorInv'
  <2>1. Finding(f)
    BY SearchFinds, Zenon
  <2>2. /\ iterCalled' = f.iterCalled /\ endReached' = f.endReached /\ source' = f.source
        /\ err' = f.err /\ failed' = (failed \/ f.err = JavaError)
        /\ fields' = fields /\ getAllCalled' = getAllCalled /\ ~getAllCalled
        /\ failed' \in BOOLEAN
    BY <1>0, <1>2, Zenon DEF Searched
  <2>3. /\ f.batch \in [next : Int, last : Int] /\ f.batch.last = f.source /\ f.source \in 0 .. NumRows
        /\ f.batch.next >= 1 /\ f.batch.next <= f.batch.last
        /\ UptoOf(f.batch, f.source) = f.batch.next - 1
    <3>1. f.batch.last - f.batch.next + 1 > 0
      BY <1>2, <2>1, Zenon DEF Finding
    <3>2. f.batch \in [next : Int, last : Int] /\ f.source \in 0 .. NumRows
          /\ f.batch.last = f.source /\ f.batch.next >= 1
      BY <2>1, <3>1, Zenon DEF Finding, Sound
    <3>q. QED
      BY <3>1, <3>2, SMTT(30) DEF UptoOf
  <2>4. /\ batch' = [next |-> f.batch.next + 1, last |-> f.batch.last]
        /\ given' = Append(given, f.batch.next) /\ row' = NewRow
    BY <1>2, <2>3, Zenon DEF TakeRow
  <2>5. batch' \in [next : Int, last : Int] /\ batch'.next = f.batch.next + 1 /\ batch'.last = f.source
    BY <2>3, <2>4, SMTT(30)
  <2>a. /\ f.batch.next \in Int /\ f.batch.last \in Int /\ f.source \in Int /\ 1 <= f.batch.next
        /\ f.batch.next <= f.source /\ f.source <= NumRows
    BY <2>3, SMTT(30)
  <2>b. Sound(batch', source')
    BY <2>2, <2>3, <2>5, <2>a, SMTT(30) DEF Sound
  <2>c. UptoOf(batch', source') = f.batch.next
    <3>1. /\ source' = f.source /\ batch'.last - batch'.next + 1 = f.source - f.batch.next
          /\ batch'.next - 1 = f.batch.next
      BY <2>2, <2>5, <2>a, SMTT(30)
    <3>2. CASE f.source = f.batch.next
      BY <2>a, <3>1, <3>2, Zenon DEF UptoOf
    <3>3. CASE f.source > f.batch.next
      BY <2>a, <3>1, <3>3, SMTT(30) DEF UptoOf
    <3>q. QED
      BY <2>a, <3>2, <3>3, SMTT(30)
  <2>6. Sound(batch', source') /\ Upto' = f.batch.next
    BY <2>b, <2>c, Zenon DEF Upto
  <2>7. f.batch.next \in 1 .. NumRows
    BY <2>3, SMTT(30)
  <2>8. /\ given' \in Seq(1 .. NumRows) /\ Len(given') = Len(given) + 1
        /\ \A i \in 1 .. Len(given) : given'[i] = given[i]
        /\ given'[Len(given) + 1] = f.batch.next
    BY <1>0, <2>4, <2>7, SMTT(30)
  <2>9. CursorTypeOK'
    <3>1. row' \in [used : Nat, processed : Nat, asked : BOOLEAN, overrun : BOOLEAN]
      BY <2>4, Zenon DEF NewRow
    <3>q. QED
      BY <1>0, <2>1, <2>2, <2>3, <2>5, <2>8, <3>1, Zenon DEF CursorTypeOK, Finding
  <2>10. GivenUpto(Upto)'
    <3>1. /\ Upto \in Int /\ f.batch.next \in Int /\ Len(given) \in Nat
          /\ \A i \in 1 .. Len(given) : given[i] \in Int
      <4>1. Upto \in Int
        BY SMTT(30) DEF CursorInv, Sound, Upto, UptoOf
      <4>q. QED
        BY <1>0, <2>3, <4>1, SMTT(30)
    <3>a. Upto <= f.batch.next - 1 /\ (~failed /\ f.err # JavaError => Upto = f.batch.next - 1)
      BY <2>1, <2>3, Zenon DEF Finding
    <3>2. Upto < f.batch.next /\ (~failed' => Upto = f.batch.next - 1)
      <4>1. ~failed' => ~failed /\ f.err # JavaError
        BY <1>0, <2>2, Zenon
      <4>q. QED
        BY <3>1, <3>a, <4>1, SMTT(30)
    <3>3. \A i \in 1 .. Len(given') : i \in 1 .. Len(given) \/ i = Len(given) + 1
      BY <2>8, <3>1, SMTT(30)
    <3>4. \A i \in 1 .. Len(given) : given[i] <= Upto
      BY Zenon DEF CursorInv, GivenUpto
    <3>5. \A i \in 1 .. Len(given') : given'[i] <= Upto'
      <4>1. SUFFICES ASSUME NEW i \in 1 .. Len(given')
                     PROVE  given'[i] <= f.batch.next
        BY <2>6, Zenon
      <4>2. CASE i \in 1 .. Len(given)
        <5>1. given'[i] = given[i] /\ given[i] \in Int /\ given[i] <= Upto
          BY <2>8, <3>1, <3>4, <4>2, Zenon
        <5>q. QED
          BY <3>1, <3>2, <5>1, SMTT(30)
      <4>3. CASE i = Len(given) + 1
        BY <2>8, <3>1, <4>3, SMTT(30)
      <4>q. QED
        BY <3>3, <4>2, <4>3, Zenon
    <3>6. ASSUME NEW i \in 1 .. Len(given'), NEW j \in 1 .. Len(given'), i < j
          PROVE  given'[i] < given'[j]
      <4>1. i \in 1 .. Len(given)
        BY <2>8, <3>1, <3>6, SMTT(30)
      <4>2. CASE j \in 1 .. Len(given)
        BY <2>8, <3>6, <4>1, <4>2, ZenonT(60) DEF CursorInv, GivenUpto
      <4>3. CASE j = Len(given) + 1
        <5>1. given'[i] = given[i] /\ given[i] \in Int /\ given[i] <= Upto
          BY <2>8, <3>1, <3>4, <4>1, Zenon
        <5>2. given'[j] = f.batch.next
          BY <2>8, <4>3, Zenon
        <5>q. QED
          BY <3>1, <3>2, <5>1, <5>2, SMTT(30)
      <4>q. QED
        BY <3>3, <4>2, <4>3, Zenon
    <3>7. ~failed' => Len(given') = Upto' /\ \A i \in 1 .. Len(given') : given'[i] = i
      <4>1. SUFFICES ASSUME ~failed'
                     PROVE  Len(given') = Upto' /\ \A i \in 1 .. Len(given') : given'[i] = i
        BY Zenon
      <4>2. ~failed
        BY <1>0, <2>2, <4>1, Zenon
      <4>3. Len(given) = f.batch.next - 1 /\ \A i \in 1 .. Len(given) : given[i] = i
        BY <3>2, <4>1, <4>2, Zenon DEF CursorInv, GivenUpto
      <4>q. QED
        <5>1. Len(given') = f.batch.next
          BY <2>8, <2>a, <4>3, SMTT(30)
        <5>2. ASSUME NEW i \in 1 .. Len(given')
              PROVE  given'[i] = i
          <6>1. CASE i \in 1 .. Len(given)
            BY <2>8, <4>3, <6>1, Zenon
          <6>2. CASE i = Len(given) + 1
            BY <2>8, <2>a, <4>3, <6>2, SMTT(30)
          <6>q. QED
            BY <3>3, <6>1, <6>2, Zenon
        <5>q. QED
          BY <2>6, <5>1, <5>2, ZenonT(60)
    <3>q. QED
      BY <3>5, <3>6, <3>7, Zenon DEF GivenUpto
  <2>11. ~endReached' /\ f.iterCalled
    <3>1. f.iterCalled \in BOOLEAN /\ (~f.iterCalled => f.batch = NoBatch)
      BY <2>1, Zenon DEF Finding
    <3>2. f.batch # NoBatch
      BY <2>3, SMTT(30) DEF NoBatch
    <3>q. QED
      BY <1>2, <2>2, <3>1, <3>2, Zenon
  <2>12. RowsAreReadInside'
    BY <2>4, Zenon DEF NewRow, RowsAreReadInside
  <2>q. QED
    BY <1>2, <2>2, <2>6, <2>9, <2>10, <2>11, <2>12, Zenon DEF CursorInv
<1>3. ASSUME ~getAllCalled \/ fields, NEW f \in Searches(e), ~(f.ok /\ ~f.endReached),
             Searched(f, IF f.ok THEN EndError(f.err) ELSE f.err),
             batch' = f.batch, reply' = "none", UNCHANGED <<given, row>>
      PROVE  CursorInv'
  <2>1. Finding(f)
    BY SearchFinds, Zenon
  <2>2. /\ iterCalled' = f.iterCalled /\ endReached' = f.endReached /\ source' = f.source
        /\ failed' = (failed \/ f.err = JavaError)
        /\ fields' = fields /\ getAllCalled' = getAllCalled /\ row' = row /\ given' = given
        /\ failed \in BOOLEAN /\ failed' \in BOOLEAN /\ ~getAllCalled /\ batch' = f.batch
    BY <1>0, <1>3, Zenon DEF Searched
  <2>3. SearchedKeeps
    BY <2>1, <2>2, SearchKeeps, Zenon
  <2>4. err' # NoError
    BY <1>3, <2>1, Zenon DEF Searched, Finding, EndError, NoError, NoMoreElements, JavaError
  <2>q. QED
    BY <1>3, <2>2, <2>3, <2>4, Zenon DEF SearchedKeeps, CursorInv
<1>q. QED
  BY <1>1, <1>2, <1>3, Zenon DEF GetNext

(* GetAll gives all rows of a cursor that was not iterated, or none.       *)
LEMMA GetAllKeeps ==
    ASSUME CursorInv, GetAll
    PROVE  CursorInv'
<1>1. CASE Refuse
  BY <1>1, ZenonT(60) DEF Refuse, CursorInv, CursorTypeOK, Sound, GivenUpto, Upto, UptoOf, Left, RowsAreReadInside,
     NoError, UsageError, NoBatch
<1>2. CASE /\ ~iterCalled /\ ~getAllCalled /\ ~fields
           /\ getAllCalled' = TRUE /\ source' = NumRows /\ given' = [i \in 1 .. NumRows |-> i]
           /\ err' = NoError /\ reply' = "all"
           /\ UNCHANGED <<failed, fields, iterCalled, endReached, batch, row>>
  <2>1. /\ given' \in Seq(1 .. NumRows) /\ Len(given') = NumRows
        /\ \A i \in 1 .. Len(given') : given'[i] = i
    BY <1>2, SMTT(30)
  <2>2. batch' = NoBatch /\ batch' = batch /\ source' = NumRows
    BY <1>2, Zenon DEF CursorInv
  <2>3. Upto' = NumRows /\ Sound(batch', source') /\ Left' <= 0
    BY <2>2, SMTT(30) DEF Upto, UptoOf, Sound, NoBatch, Left
  <2>4. CursorTypeOK'
    BY <1>2, <2>1, SMTT(30) DEF CursorInv, CursorTypeOK
  <2>5. GivenUpto(Upto)'
    BY <2>1, <2>3, SMTT(30) DEF GivenUpto
  <2>6. RowsAreReadInside'
    BY <1>2, Zenon DEF CursorInv, RowsAreReadInside
  <2>q. QED
    BY <1>2, <2>1, <2>2, <2>3, <2>4, <2>5, <2>6, Zenon DEF CursorInv
<1>3. CASE /\ ~iterCalled /\ ~getAllCalled /\ ~fields
           /\ err' = JavaError /\ failed' = TRUE /\ reply' = "none"
           /\ UNCHANGED <<getAllCalled, source, given, fields, iterCalled, endReached, batch, row>>
  <2>1. CursorTypeOK'
    BY <1>3, Zenon DEF CursorInv, CursorTypeOK
  <2>2. Sound(batch', source') /\ Upto' = Upto /\ Left' = Left
    BY <1>3, Zenon DEF CursorInv, Upto, Left
  <2>3. GivenUpto(Upto)'
    BY <1>3, <2>2, Zenon DEF CursorInv, GivenUpto
  <2>q. QED
    BY <1>3, <2>1, <2>2, <2>3, Zenon DEF CursorInv, RowsAreReadInside, NoError, JavaError
<1>q. QED
  BY <1>1, <1>2, <1>3, Zenon DEF GetAll

(* A read of a column counts what it consumes, unless it asks the length   *)
(* of a null array; then the row remembers that it was asked.              *)
LEMMA ReadColumnKeeps ==
    ASSUME CursorInv,
           NEW counted \in Nat, NEW consumed \in Nat, NEW asked \in BOOLEAN,
           ReadColumn(counted, consumed, asked),
           row.processed < Len(Columns),
           row.used < Len(Columns) => consumed = counted \/ asked
    PROVE  CursorInv'
<1>0. row \in [used : Nat, processed : Nat, asked : BOOLEAN, overrun : BOOLEAN] /\ Len(Columns) \in Nat
  BY SMTT(30) DEF CursorInv, CursorTypeOK
<1>1. /\ row'.used = row.used + consumed /\ row'.processed = row.processed + counted
      /\ row'.asked = (row.asked \/ asked) /\ row'.overrun = (row.overrun \/ row.used = Len(Columns))
      /\ row' \in [used : Nat, processed : Nat, asked : BOOLEAN, overrun : BOOLEAN]
  BY <1>0, SMTT(30) DEF ReadColumn
<1>2. RowsAreReadInside'
  <2>1. CASE row.asked
    <3>1. row'.asked
      BY <1>0, <1>1, <2>1, Zenon
    <3>q. QED
      BY <3>1, Zenon DEF RowsAreReadInside
  <2>2. CASE ~row.asked
    <3>1. row.used = row.processed /\ ~row.overrun
      BY <1>0, <2>2, Zenon DEF CursorInv, RowsAreReadInside
    <3>2. row.used # Len(Columns) /\ (consumed = counted \/ asked)
      BY <1>0, <3>1, SMTT(30)
    <3>3. ~row'.overrun /\ (asked => row'.asked)
      BY <1>0, <1>1, <3>1, <3>2, Zenon
    <3>4. consumed = counted => row'.used = row'.processed
      BY <1>1, <3>1, Zenon
    <3>q. QED
      BY <3>2, <3>3, <3>4, Zenon DEF RowsAreReadInside
  <2>q. QED
    BY <2>1, <2>2, Zenon
<1>3. /\ Upto' = Upto /\ Left' = Left
      /\ UNCHANGED <<fields, iterCalled, getAllCalled, endReached, batch, source, err, reply, given,
                     failed>>
  BY Zenon DEF ReadColumn, Upto, Left
<1>q. QED
  BY <1>1, <1>2, <1>3, Zenon DEF CursorInv, CursorTypeOK, GivenUpto

(* QueryFieldsRowImpl::GetNext counts the column it reads.                 *)
LEMMA RowGetNextKeeps ==
    ASSUME CursorInv, RowGetNext
    PROVE  CursorInv'
<1>1. PICK c \in {0, 1} : c = (IF row.used < Len(Columns) THEN 1 ELSE 0)
  BY Zenon
<1>2. ReadColumn(1, c, FALSE) /\ row.processed < Len(Columns) /\ (row.used < Len(Columns) => c = 1)
  BY <1>1, Zenon DEF RowGetNext, RowHasNext
<1>q. QED
  BY <1>1, <1>2, ReadColumnKeeps, Zenon

(* GetNextInt8Array counts the array it reads, unless it only asks its     *)
(* length.                                                                 *)
LEMMA RowGetNextInt8ArrayKeeps ==
    ASSUME CursorInv, NEW fits \in BOOLEAN, RowGetNextInt8Array(fits)
    PROVE  CursorInv'
<1>1. PICK n \in {0, 1} : n = (IF fits THEN 1 ELSE 0)
  BY Zenon
<1>2. PICK c \in {0, 1} :
         c = (IF row.used < Len(Columns) /\ (fits \/ Column = "null") THEN 1 ELSE 0)
  BY Zenon
<1>3. PICK q \in BOOLEAN : q = (~fits /\ row.used < Len(Columns) /\ Column = "null")
  BY Zenon
<1>4. ReadColumn(n, c, q) /\ row.processed < Len(Columns)
  BY <1>1, <1>2, <1>3, Zenon DEF RowGetNextInt8Array, RowHasNext
<1>5. row.used < Len(Columns) => c = n \/ q
  BY <1>1, <1>2, <1>3, Zenon
<1>q. QED
  BY <1>1, <1>2, <1>3, <1>4, <1>5, ReadColumnKeeps, Zenon

(* QueryCursorImpl: whatever the rows, the page size and the answers of    *)
(* Java, the application gets every row at most once and in order, is told *)
(* the end only when it has them all or after an error, and stays inside   *)
(* the rows it reads.                                                      *)
THEOREM RowsAreTold == CursorSpec => []CursorTellsTheRows
<1>1. CursorInit => CursorInv
  <2>1. SUFFICES ASSUME CursorInit
                 PROVE  CursorInv
    BY Zenon
  <2>a. batch.next = 1 /\ batch.last = 0 /\ batch \in [next : Int, last : Int]
    BY <2>1, SMTT(30) DEF CursorInit, NoBatch
  <2>b. given \in Seq(1 .. NumRows) /\ Len(given) = 0
    BY <2>1, SMTT(30) DEF CursorInit
  <2>c. row \in [used : Nat, processed : Nat, asked : BOOLEAN, overrun : BOOLEAN]
    BY <2>1, Zenon DEF CursorInit, NewRow
  <2>d. Upto = 0
    BY <2>1, <2>a, SMTT(30) DEF CursorInit, Upto, UptoOf
  <2>e. source = 0 /\ 0 \in 0 .. NumRows
    BY <2>1, SMTT(30) DEF CursorInit
  <2>2. CursorTypeOK /\ Len(given) = 0 /\ Upto = 0
    BY <2>1, <2>a, <2>b, <2>c, <2>d, <2>e, Zenon DEF CursorInit, CursorTypeOK
  <2>3. Sound(batch, source) /\ GivenUpto(Upto)
    BY <2>1, <2>2, SMTT(30) DEF CursorInit, Sound, NoBatch, GivenUpto
  <2>q. QED
    BY <2>1, <2>2, <2>3, SMTT(30) DEF CursorInit, CursorInv, RowsAreReadInside, NewRow
<1>2. CursorInv /\ [CursorNext]_cursorVars => CursorInv'
  <2>1. SUFFICES ASSUME CursorInv, [CursorNext]_cursorVars
                 PROVE  CursorInv'
    BY Zenon
  <2>2. CASE UNCHANGED cursorVars
    BY <2>1, <2>2, ZenonT(60) DEF cursorVars, CursorInv, CursorTypeOK, Sound, GivenUpto, Upto, UptoOf, Left,
       RowsAreReadInside
  <2>3. CASE CursorNext
    BY <2>1, <2>3, HasNextKeeps, GetNextKeeps, GetAllKeeps, RowGetNextKeeps, RowGetNextInt8ArrayKeeps, Zenon
       DEF CursorNext
  <2>q. QED
    BY <2>1, <2>2, <2>3, Zenon
<1>3. CursorInv => CursorTellsTheRows
  <2>1. SUFFICES ASSUME CursorInv
                 PROVE  CursorTellsTheRows
    BY Zenon
  <2>2. given \in Seq(1 .. NumRows) /\ CursorTypeOK /\ failed \in BOOLEAN
    BY <2>1, Zenon DEF CursorInv, CursorTypeOK
  <2>3. DOMAIN given = 1 .. Len(given)
    BY <2>2, SMTT(30)
  <2>4. RowsComeInOrder
    BY <2>1, <2>3, Zenon DEF CursorInv, GivenUpto, RowsComeInOrder
  <2>5. ~failed /\ endReached => Len(given) = NumRows
    <3>1. endReached => Left <= 0 /\ (~failed => Upto = source /\ source = NumRows)
      BY <2>1, SMTT(30) DEF CursorInv, Sound, Left, Upto, UptoOf
    <3>q. QED
      BY <2>1, <3>1, Zenon DEF CursorInv, GivenUpto
  <2>6. EndIsEarned /\ RowsOrError
    BY <2>1, <2>5, Zenon DEF CursorInv, EndIsEarned, RowsOrError
  <2>q. QED
    BY <2>1, <2>2, <2>4, <2>6, Zenon DEF CursorInv, CursorTellsTheRows
<1>q. QED
  BY <1>1, <1>2, <1>3, PTL DEF CursorSpec

HIDE CursorAssumption

-----------------------------------------------------------------------------
(***************************************************************************)
(* ContinuousQuery                                                         *)
(***************************************************************************)

(* Nothing runs before the query has its handle; only a destructor sees    *)
(* CLOSE fail; Java sends events while the handle is open or when it       *)
(* refused CLOSE; and a CLOSE that waited leaves no callback running.      *)
QueryStays ==
    /\ {filtered, closeWaits, closeFailed, subscribed, extracted, usedFreed} \subseteq BOOLEAN
    /\ handleState = "none" => "application" \in holders /\ running = {}
    /\ closeFailed => handleState \in {"closed", "released"}
    /\ subscribed => handleState = "open" \/ closeFailed
    /\ handleState \in {"closed", "released"} /\ closeWaits /\ ~closeFailed => running = {}

QueryInv == ListenersFindTheirQuery /\ QueryStays

USE ContinuousAssumption DEF QueryInv, QueryStays, ListenersFindTheirQuery, ContinuousTypeOK,
    EventsFindTheirQuery, InitialCursorOnce, RefusedStaysRegistered

(* The query has its handle before Java knows of it, whether Java takes it *)
(* or not.                                                                 *)
LEMMA QueryContinuousKeeps ==
    ASSUME QueryInv, NEW taken \in BOOLEAN, QueryContinuous(taken)
    PROVE  QueryInv'
BY Zenon DEF QueryContinuous, Subscribe

(* The application lets a query go that has its handle.                    *)
LEMMA DropQueryKeeps ==
    ASSUME QueryInv, DropQuery
    PROVE  QueryInv'
BY ZenonT(60) DEF DropQuery

(* A listener begins only while Java sends events.                         *)
LEMMA ListenerFindsKeeps ==
    ASSUME QueryInv, NEW l \in Listeners, ListenerFinds(l)
    PROVE  QueryInv'
BY SMTT(30) DEF ListenerFinds

(* A query nobody holds is released, and a listener is still running then  *)
(* only if CLOSE failed or did not wait.                                   *)
LEMMA ReadAndProcessEventsKeeps ==
    ASSUME QueryInv, NEW l \in Listeners, ReadAndProcessEvents(l)
    PROVE  QueryInv'
BY Zenon DEF ReadAndProcessEvents

(* A filter finds no query only after CLOSE failed.                        *)
LEMMA FilterFindsKeeps ==
    ASSUME QueryInv, NEW f \in Filters, FilterFinds(f)
    PROVE  QueryInv'
<1>1. f # "registry" /\ f # "application"
  BY Zenon
<1>2. CASE registered
  <2>1. /\ holders' = holders \cup {f} /\ unfound' = unfound /\ events' = events + 1
        /\ events < MaxEvents
        /\ UNCHANGED <<filtered, closeWaits, closeFailed, subscribed, handleState, registered, running,
                       extracted, cursors, usedFreed>>
    BY <1>2, Zenon DEF FilterFinds
  <2>2. "registry" \in holders' /\ ("application" \in holders' <=> "application" \in holders)
    BY <1>1, <1>2, <2>1, ZenonT(60)
  <2>a. events' \in 0 .. MaxEvents
    BY <2>1, SMTT(30)
  <2>3. ContinuousTypeOK'
    BY <1>2, <2>1, <2>2, <2>a, Zenon
  <2>4. EventsFindTheirQuery'
    BY <2>1, <2>2, Zenon
  <2>5. InitialCursorOnce' /\ RefusedStaysRegistered' /\ QueryStays'
    BY <2>1, <2>2, Zenon
  <2>q. QED
    BY <2>3, <2>4, <2>5, Zenon
<1>3. CASE ~registered
  <2>1. closeFailed /\ filtered
    BY <1>3, Zenon DEF FilterFinds, ToldOfFilter
  <2>2. /\ holders' = holders /\ unfound' = unfound + 1 /\ events' = events + 1 /\ events < MaxEvents
        /\ UNCHANGED <<filtered, closeWaits, closeFailed, subscribed, handleState, registered, running,
                       extracted, cursors, usedFreed>>
    BY <1>3, Zenon DEF FilterFinds
  <2>3. ContinuousTypeOK'
    BY <2>2, SMTT(30)
  <2>4. EventsFindTheirQuery'
    BY <2>1, <2>2, Zenon
  <2>5. InitialCursorOnce' /\ RefusedStaysRegistered' /\ QueryStays'
    BY <2>2, Zenon
  <2>q. QED
    BY <2>3, <2>4, <2>5, Zenon
<1>q. QED
  BY <1>2, <1>3, Zenon

(* A filter lets go of what it held.                                       *)
LEMMA ReadAndProcessEventKeeps ==
    ASSUME QueryInv, NEW f \in Filters, ReadAndProcessEvent(f)
    PROVE  QueryInv'
BY ZenonT(60) DEF ReadAndProcessEvent

(* The second cursor is refused.                                           *)
LEMMA GetInitialQueryCursorKeeps ==
    ASSUME QueryInv, NEW ok \in BOOLEAN, GetInitialQueryCursor(ok)
    PROVE  QueryInv'
BY SMTT(30) DEF GetInitialQueryCursor

(* Java stops sending events before the handle is released, or refused to. *)
LEMMA CloseInJavaKeeps ==
    ASSUME QueryInv, NEW ok \in BOOLEAN, CloseInJava(ok)
    PROVE  QueryInv'
BY Zenon DEF CloseInJava

(* Only a handle that was closed is released.                              *)
LEMMA ReleaseHandleKeeps ==
    ASSUME QueryInv, ReleaseHandle
    PROVE  QueryInv'
<1>1. /\ handleState = "closed" /\ handleState' = "released" /\ registered' = FALSE
      /\ holders' = holders \ {"registry"}
      /\ UNCHANGED <<filtered, closeWaits, closeFailed, subscribed, running, extracted, cursors,
                     events, unfound, usedFreed>>
  BY Zenon DEF ReleaseHandle
<1>2. ContinuousTypeOK'
  BY <1>1, Zenon
<1>a. subscribed => closeFailed
  BY <1>1, Zenon
<1>3. EventsFindTheirQuery'
  BY <1>1, <1>a, Zenon
<1>b. InitialCursorOnce' /\ RefusedStaysRegistered'
  BY <1>1, Zenon
<1>4. QueryStays'
  BY <1>1, Zenon
<1>q. QED
  BY <1>2, <1>3, <1>4, <1>b, Zenon

(* CacheImpl::QueryContinuous, ContinuousQueryHandleImpl and the callbacks *)
(* of IgniteEnvironment: whatever threads Java calls from, events find     *)
(* their query unless Java refused to close, and a listener runs on a      *)
(* freed one only if CLOSE did not wait and the application let it go.     *)
THEOREM QueriesAreFound == ContinuousSpec => []ListenersFindTheirQuery
<1>1. ContinuousInit => QueryInv
  <2>1. ContinuousInit => QueryStays /\ InitialCursorOnce /\ RefusedStaysRegistered
    BY Zenon DEF ContinuousInit
  <2>2. ContinuousInit => EventsFindTheirQuery
    BY SMTT(30) DEF ContinuousInit
  <2>3. ContinuousInit => registered = FALSE /\ "registry" \notin holders /\ holders = {"application"}
    BY Zenon DEF ContinuousInit
  <2>4. ContinuousInit => events \in 0 .. MaxEvents /\ cursors \in Nat /\ unfound \in Nat
    BY SMTT(30) DEF ContinuousInit
  <2>5. ContinuousInit => ContinuousTypeOK
    BY <2>3, <2>4, Zenon DEF ContinuousInit
  <2>q. QED
    BY <2>1, <2>2, <2>5, Zenon
<1>2. QueryInv /\ [ContinuousNext]_queryVars => QueryInv'
  <2>1. SUFFICES ASSUME QueryInv, [ContinuousNext]_queryVars
                 PROVE  QueryInv'
    BY Zenon
  <2>2. CASE UNCHANGED queryVars
    BY <2>1, <2>2, Zenon DEF queryVars
  <2> HIDE DEF QueryInv
  <2>3. CASE ContinuousNext
    BY <2>1, <2>3, QueryContinuousKeeps, DropQueryKeeps, ListenerFindsKeeps,
       ReadAndProcessEventsKeeps, FilterFindsKeeps, ReadAndProcessEventKeeps,
       GetInitialQueryCursorKeeps, CloseInJavaKeeps, ReleaseHandleKeeps, Zenon DEF ContinuousNext
  <2>q. QED
    BY <2>1, <2>2, <2>3, Zenon
<1>3. QueryInv => ListenersFindTheirQuery
  BY Zenon
<1> HIDE DEF QueryInv, ListenersFindTheirQuery
<1>q. QED
  BY <1>1, <1>2, <1>3, PTL DEF ContinuousSpec

HIDE ContinuousAssumption DEF QueryInv, QueryStays, ListenersFindTheirQuery, ContinuousTypeOK,
    EventsFindTheirQuery, InitialCursorOnce, RefusedStaysRegistered

=============================================================================
