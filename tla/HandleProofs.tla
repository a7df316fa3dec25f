---------------------------- MODULE HandleProofs ----------------------------
(***************************************************************************)
(* Proofs about a connection handle, about the diagnostics of handles, and *)
(* about what the threads that use a future or a lazy instance share.      *)
(***************************************************************************)
EXTENDS Connection, Diagnostics, SharedState, SharedPtr, TLAPS

(***************************************************************************)
(* Connection: for any settings, values and data sources, below a driver   *)
(* manager and called directly.  What a connected handle promises needs    *)
(* one more fact to be kept by every step: the JNI context of a connected  *)
(* handle is valid, without which Close would leave the JDBC connection    *)
(* where it is.                                                            *)
(***************************************************************************)
IInv ==
    /\ TypeOK
    /\ ConnectedIsUsable
    /\ connected => jniContext
    /\ ManagedHandleIsSound

USE DEF LoginTimeout

-----------------------------------------------------------------------------
(* Configurations are made of configurations (FillFrom, NoConfiguration,   *)
(* SQL_ATTR_LOGIN_TIMEOUT).                                                *)
LEMMA NoConfigurationGood == NoConfiguration \in Configurations
  BY Zenon DEF NoConfiguration, Configurations, ValuesOf

LEMMA FillGood ==
    ASSUME NEW c \in Configurations, NEW d \in Configurations
    PROVE  FillFrom(c, d) \in Configurations
  BY Zenon DEF FillFrom, Configurations

LEMMA TimeoutGood ==
    ASSUME NEW c \in Configurations, NEW limit \in (0..MaxTimeout) \cup {Unset}
    PROVE  /\ [c EXCEPT ![LoginTimeout] = limit] \in Configurations
           /\ \A s \in Required : [c EXCEPT ![LoginTimeout] = limit][s] = c[s]
  BY ConnectionAssumption, Zenon DEF Configurations, ValuesOf, Settings

LEMMA SourcesGood ==
    ASSUME NEW dsn \in Sources
    PROVE  dsn \in Configurations
  BY NoConfigurationGood, ConnectionAssumption, Zenon DEF Sources

(* What an attempt made while there is no connection object leaves behind: *)
(* it reports success only with both connections made, and made alike      *)
(* (TryRestoreConnection, ConnectCPPDocumentDB).                           *)
LEMMA AttemptGood ==
    ASSUME TypeOK, jdbc = "NULL",
           NEW c \in Configurations, NEW a \in TryRestoreConnection(c)
    PROVE  /\ a.ok \in BOOLEAN /\ a.ctx \in BOOLEAN
           /\ a.jdbc \in {"NULL", "CLOSED", "OPEN"} /\ a.jdbcConfig \in Configurations
           /\ a.client \in {"NULL", "UNUSABLE", "LIVE"} /\ a.clientConfig \in Configurations
           /\ a.ok => /\ a.ctx /\ a.jdbc = "OPEN" /\ a.client = "LIVE"
                      /\ a.jdbcConfig = c /\ a.clientConfig = c
  <1>1. PICK context \in GetJniContext :
          a \in CASE context = "JVM_FAILED" ->
                       {Attempt(FALSE, FALSE, "NULL", jdbcConfig, client, clientConfig)}
                  [] context = "NO_CLASSPATH" ->
                       {Attempt(FALSE, FALSE, "CLOSED", jdbcConfig, client, clientConfig)}
                  [] context = "OK" ->
                       {Attempt(FALSE, TRUE, "CLOSED", jdbcConfig, client, clientConfig),
                        Attempt(FALSE, TRUE, "OPEN", c, client, clientConfig)}
                       \cup ConnectCPPDocumentDB(c)
    BY Zenon DEF TryRestoreConnection
  <1>2. context \in {"OK", "JVM_FAILED", "NO_CLASSPATH"}
    BY Zenon DEF GetJniContext
  <1>3. a \in {Attempt(FALSE, FALSE, "NULL", jdbcConfig, client, clientConfig),
               Attempt(FALSE, FALSE, "CLOSED", jdbcConfig, client, clientConfig),
               Attempt(FALSE, TRUE, "CLOSED", jdbcConfig, client, clientConfig),
               Attempt(FALSE, TRUE, "OPEN", c, client, clientConfig),
               Attempt(FALSE, TRUE, "OPEN", c, "UNUSABLE", c),
               Attempt(TRUE, TRUE, "OPEN", c, "LIVE", c)}
    BY <1>1, <1>2, Zenon DEF ConnectCPPDocumentDB
  <1>4. /\ client \in {"NULL", "UNUSABLE", "LIVE"}
        /\ jdbcConfig \in Configurations /\ clientConfig \in Configurations
    BY Zenon DEF TypeOK
  <1>5. CASE a = Attempt(TRUE, TRUE, "OPEN", c, "LIVE", c)
    BY <1>5, Zenon DEF Attempt
  <1>6. CASE a # Attempt(TRUE, TRUE, "OPEN", c, "LIVE", c)
    <2>1. PICK ctx \in BOOLEAN, j \in {"NULL", "CLOSED", "OPEN"}, jc \in Configurations,
               cl \in {"NULL", "UNUSABLE", "LIVE"}, cc \in Configurations :
             a = Attempt(FALSE, ctx, j, jc, cl, cc)
      BY <1>3, <1>4, <1>6, Zenon
    <2> QED BY <2>1, Zenon DEF Attempt
  <1> QED BY <1>5, <1>6, Zenon

-----------------------------------------------------------------------------
(* Connecting: a handle that has a connection object keeps all it has.  A  *)
(* handle the driver manager lets connect is not connected before.         *)
LEMMA EstablishGood ==
    ASSUME IInv, Idle, managed => ~connected, managed' = managed,
           NEW c \in Configurations, NEW warnings \in SUBSET {"01S02"},
           InternalEstablish(c, warnings),
           asked' \in Configurations, UNCHANGED <<allocated, timeoutSet>>
    PROVE  /\ IInv'
           /\ jdbc # "NULL" => UNCHANGED <<jdbc, jdbcConfig, client, clientConfig>>
  <1> USE DEF IInv
  <1>1. CASE jdbc # "NULL" \/ ~IsValid(c)
    <2>1. /\ config' = c
          /\ UNCHANGED <<jniContext, jdbc, jdbcConfig, client, clientConfig, connected>>
          /\ call' = "CONNECT" /\ result' = "ERROR"
          /\ recs' \subseteq warnings \cup {"08002", "01S00"}
      BY <1>1, Zenon DEF InternalEstablish, Refused, Reply
    <2>2. TypeOK'
      BY <2>1, ZenonT(60) DEF TypeOK, CallResults, SqlResults, SqlStates
    <2>3. ConnectedIsUsable' /\ (connected => jniContext)'
      BY <2>1, Zenon DEF ConnectedIsUsable
    <2>4. ManagedHandleIsSound'
      BY <2>1, Zenon DEF ManagedHandleIsSound, ConfigurationIsCurrent, ClientIsThere, DisconnectReleases
    <2> QED BY <2>1, <2>2, <2>3, <2>4, Zenon
  <1>2. CASE ~(jdbc # "NULL" \/ ~IsValid(c))
    <2>1. config' = c /\ \E a \in TryRestoreConnection(c) : Attempted(a, warnings)
      BY <1>2, Zenon DEF InternalEstablish
    <2>2. PICK a \in TryRestoreConnection(c) : Attempted(a, warnings)
      BY <2>1, Zenon
    <2>3. /\ jniContext' = a.ctx /\ jdbc' = a.jdbc /\ jdbcConfig' = a.jdbcConfig
          /\ client' = a.client /\ clientConfig' = a.clientConfig /\ connected' = a.ok
          /\ call' = "CONNECT" /\ result' \in {"SUCCESS", "SUCCESS_WITH_INFO", "ERROR"}
          /\ recs' \subseteq warnings \cup {"08001"}
      BY <2>2, Zenon DEF Attempted, Reply
    <2>4. /\ a.ok \in BOOLEAN /\ a.ctx \in BOOLEAN
          /\ a.jdbc \in {"NULL", "CLOSED", "OPEN"} /\ a.jdbcConfig \in Configurations
          /\ a.client \in {"NULL", "UNUSABLE", "LIVE"} /\ a.clientConfig \in Configurations
          /\ a.ok => /\ a.ctx /\ a.jdbc = "OPEN" /\ a.client = "LIVE"
                     /\ a.jdbcConfig = c /\ a.clientConfig = c
      BY <1>2, AttemptGood, Zenon
    <2>5. TypeOK'
      BY <2>1, <2>3, <2>4, SMTT(30) DEF TypeOK, CallResults, SqlResults, SqlStates
    <2>6. ConnectedIsUsable' /\ (connected => jniContext)'
      BY <2>3, <2>4, Zenon DEF ConnectedIsUsable
    <2>7. ManagedHandleIsSound'
      BY <2>1, <2>3, <2>4, Zenon
         DEF ManagedHandleIsSound, ConfigurationIsCurrent, ClientIsThere, DisconnectReleases
    <2> QED BY <1>2, <2>5, <2>6, <2>7, Zenon
  <1> QED BY <1>1, <1>2, Zenon

(* The calls that only answer: they leave driver and application as they   *)
(* are, and none of them ends the program below a driver manager.          *)
LEMMA RepliesGood ==
    ASSUME IInv, managed' = managed,
           NEW kind \in {"EXECUTE", "OTHER"}, NEW res \in CallResults, NEW added \in SUBSET SqlStates,
           ReplyOnly(kind, res, added), managed => res # "TERMINATED"
    PROVE  IInv' /\ UNCHANGED <<jdbc, jdbcConfig, client, clientConfig>>
  <1>1. /\ UNCHANGED <<allocated, config, jniContext, jdbc, jdbcConfig, client, clientConfig>>
        /\ UNCHANGED <<connected, timeoutSet, asked>>
        /\ call' = kind /\ result' = res /\ recs' = added
    BY Zenon DEF ReplyOnly, Reply, driverVars, appVars
  <1>2. TypeOK'
    BY <1>1, ZenonT(60) DEF IInv, TypeOK
  <1>3. ConnectedIsUsable' /\ (connected => jniContext)'
    BY <1>1, Zenon DEF IInv, ConnectedIsUsable
  <1>4. ManagedHandleIsSound'
    BY <1>1, Zenon DEF IInv, ManagedHandleIsSound, ConfigurationIsCurrent, ClientIsThere, DisconnectReleases
  <1> QED BY <1>1, <1>2, <1>3, <1>4, Zenon DEF IInv

(* Running a statement (DataQuery::Execute). *)
LEMMA ExecuteGood ==
    ASSUME IInv, managed' = managed, ExecuteData
    PROVE  IInv' /\ UNCHANGED <<jdbc, jdbcConfig, client, clientConfig>>
  <1>1. \E res \in CallResults, added \in SUBSET SqlStates :
          ReplyOnly("EXECUTE", res, added) /\ (res = "TERMINATED" => client = "NULL")
    BY SMTT(30) DEF ExecuteData, CallResults, SqlResults, SqlStates
  <1>2. managed => client # "NULL"
    BY Zenon DEF ExecuteData, IInv, ConnectedIsUsable
  <1> QED BY <1>1, <1>2, RepliesGood, Zenon

-----------------------------------------------------------------------------
(* Every step keeps the invariant, and ends an open connection only in     *)
(* Release and FreeConnect.                                                *)
LEMMA StepGood ==
    ASSUME IInv, [Next]_vars
    PROVE  /\ IInv'
           /\ jdbc = "OPEN" /\ call' \notin {"DISCONNECT", "FREE"}
                => UNCHANGED <<jdbc, jdbcConfig, client, clientConfig>>
  <1> USE DEF CallResults, SqlResults, SqlStates
  <1> DEFINE Kept == UNCHANGED <<jdbc, jdbcConfig, client, clientConfig>>
  <1>0. CASE UNCHANGED vars
    BY <1>0, SMTT(30) DEF vars, driverVars, appVars, IInv, TypeOK, ConnectedIsUsable, ManagedHandleIsSound,
                ConfigurationIsCurrent, ClientIsThere, DisconnectReleases
  <1>1. CASE Next
    <2>0. managed' = managed
      BY <1>1, Zenon DEF Next
    <2>1. CASE AllocConnect
      BY <2>0, <2>1, Zenon DEF AllocConnect, Reply, appVars, IInv, TypeOK, ConnectedIsUsable,
                  ManagedHandleIsSound, ConfigurationIsCurrent, ClientIsThere, DisconnectReleases
    <2>2. CASE FreeConnect
      BY <2>0, <2>2, NoConfigurationGood, Zenon
         DEF FreeConnect, Reply, IInv, TypeOK, ConnectedIsUsable,
             ManagedHandleIsSound, ConfigurationIsCurrent, ClientIsThere, DisconnectReleases
    <2>3. ASSUME NEW str \in Strings, NEW dsn \in Sources, DriverConnect(str, dsn)
          PROVE  IInv' /\ (jdbc # "NULL" => Kept)
      <3>1. str \in Configurations /\ dsn \in Configurations /\ config \in Configurations
        BY SourcesGood, Zenon DEF Strings, IInv, TypeOK
      <3>2. [NoConfiguration EXCEPT ![LoginTimeout] = timeoutSet] \in Configurations
        BY NoConfigurationGood, TimeoutGood, Zenon DEF IInv, TypeOK
      <3>3. asked' \in Configurations
        BY <2>3, <3>1, <3>2, FillGood, Zenon DEF DriverConnect
      <3>4. FillFrom(ParseConnectionString(str, config), dsn) \in Configurations
        BY <3>1, FillGood, Zenon DEF ParseConnectionString
      <3>5. PICK warnings \in {{}, {"01S02"}} :
              InternalEstablish(FillFrom(ParseConnectionString(str, config), dsn), warnings)
        BY <2>3, Zenon DEF DriverConnect
      <3> QED BY <2>0, <2>3, <3>3, <3>4, <3>5, EstablishGood, Zenon DEF DriverConnect, MayConnect
    <2>4. ASSUME NEW str \in Strings, NEW dsn \in Sources, DriverConnectCancelled(str, dsn)
          PROVE  IInv' /\ Kept
      <3>1. FillFrom(ParseConnectionString(str, config), dsn) \in Configurations
        BY SourcesGood, FillGood, Zenon DEF ParseConnectionString, Strings, IInv, TypeOK
      <3> QED BY <2>0, <2>4, <3>1, Zenon
              DEF DriverConnectCancelled, MayConnect, Reply, appVars, IInv, TypeOK, ConnectedIsUsable,
                  ManagedHandleIsSound, ConfigurationIsCurrent, ClientIsThere, DisconnectReleases
    <2>5. ASSUME NEW dsn \in Sources, Connect(dsn)
          PROVE  IInv' /\ (jdbc # "NULL" => Kept)
      <3>1. [NoConfiguration EXCEPT ![LoginTimeout] = timeoutSet] \in Configurations
        BY NoConfigurationGood, TimeoutGood, Zenon DEF IInv, TypeOK
      <3>2. asked' \in Configurations
        BY <2>5, <3>1, SourcesGood, FillGood, Zenon DEF Connect
      <3>3. FillFrom(NoConfiguration, dsn) \in Configurations
        BY NoConfigurationGood, SourcesGood, FillGood, Zenon
      <3> QED BY <2>0, <2>5, <3>2, <3>3, EstablishGood, Zenon DEF Connect, MayConnect
    <2>6. CASE Release
      <3>1. jdbc' \in {"NULL", jdbc} /\ (managed => jdbc' = "NULL")
        BY <2>6, Zenon DEF Release, Close, IInv, ConnectedIsUsable
      <3> QED BY <2>0, <2>6, <3>1, ZenonT(60)
              DEF Release, Reply, IInv, TypeOK, ConnectedIsUsable,
                  ManagedHandleIsSound, ConfigurationIsCurrent, ClientIsThere, DisconnectReleases
    <2>7. ASSUME NEW limit \in 0..(MaxTimeout + 1), SetLoginTimeout(limit)
          PROVE  IInv' /\ Kept
      <3>1. RetrieveTimeout(limit) \in 0..MaxTimeout /\ timeoutSet' \in 0..MaxTimeout
        BY <2>7, ConnectionAssumption, SMTT(30) DEF SetLoginTimeout, RetrieveTimeout
      <3>2. config' \in Configurations /\ \A s \in Required : config'[s] = config[s]
        BY <2>7, <3>1, TimeoutGood, ZenonT(60) DEF SetLoginTimeout, IInv, TypeOK
      <3>3. /\ UNCHANGED <<allocated, jniContext, jdbc, jdbcConfig, client, clientConfig, connected, asked>>
            /\ call' = "OTHER" /\ result' \in {"SUCCESS", "SUCCESS_WITH_INFO"} /\ recs' \subseteq {"01S02"}
        BY <2>7, Zenon DEF SetLoginTimeout, Reply
      <3> QED BY <2>0, <3>1, <3>2, <3>3, ZenonT(60)
              DEF IInv, TypeOK, ConnectedIsUsable,
                  ManagedHandleIsSound, ConfigurationIsCurrent, ClientIsThere, DisconnectReleases
    <2>8. CASE SetAttributeError \/ GetAttribute \/ GetInfo \/ NativeSql
      <3>1. PICK res \in CallResults, added \in SUBSET SqlStates :
              ReplyOnly("OTHER", res, added) /\ res # "TERMINATED"
        BY <2>8, Zenon DEF SetAttributeError, GetAttribute, GetInfo, NativeSql
      <3> QED BY <2>0, <3>1, RepliesGood, Zenon
    <2>9. CASE ExecuteData
      BY <2>0, <2>9, ExecuteGood, Zenon
    <2>10. CASE Terminated
      BY <1>0, <2>10, Zenon DEF Terminated
    <2> QED BY <1>1, <2>1, <2>2, <2>3, <2>4, <2>5, <2>6, <2>7, <2>8, <2>9, <2>10, Zenon
            DEF Next, Calls, FreeConnect, Release, AllocConnect, Reply
  <1> QED BY <1>0, <1>1, Zenon

LEMMA InitGood == Init => IInv
  BY NoConfigurationGood, Zenon
     DEF Init, IInv, TypeOK, ConnectedIsUsable, ManagedHandleIsSound, ConfigurationIsCurrent,
         ClientIsThere, DisconnectReleases, CallResults, SqlResults

(* The invariant holds in every state. *)
THEOREM Invariance == Spec => []IInv
  <1>1. IInv /\ [Next]_vars => IInv'
    BY StepGood, Zenon
  <1> QED BY <1>1, InitGood, PTL DEF Spec

(* Type correctness: whatever strings, data sources and attributes a       *)
(* configuration is filled from, it is one, the login timeout within its   *)
(* limit.                                                                  *)
THEOREM TypeCorrect == Spec => []TypeOK
  BY Invariance, PTL DEF IInv

(* A connection the application was told it has is usable: JDBC connection *)
(* and client are there, and were made for the same settings               *)
(* (InternalEstablish, TryRestoreConnection, Close).                       *)
THEOREM Usable == Spec => []ConnectedIsUsable
  BY Invariance, PTL DEF IInv

(* Below a driver manager, statements take the settings of the open        *)
(* connection, none runs into a client that was never made, and a          *)
(* disconnect leaves no JDBC connection behind.                            *)
THEOREM ManagedSound == Spec => []ManagedHandleIsSound
  BY Invariance, PTL DEF IInv

(* No call but SQLDisconnect and freeing the handle replaces or ends an    *)
(* open connection (the checks of connection_ before anything is built).   *)
THEOREM Lasting == Spec => OnlyReleaseEndsConnection
  <1>1. IInv /\ [Next]_vars =>
          [jdbc = "OPEN" /\ call' \notin {"DISCONNECT", "FREE"}
             => UNCHANGED <<jdbc, jdbcConfig, client, clientConfig>>]_vars
    BY StepGood, Zenon
  <1> QED BY Invariance, <1>1, PTL DEF Spec, OnlyReleaseEndsConnection

HIDE DEF LoginTimeout

-----------------------------------------------------------------------------
(***************************************************************************)
(* Diagnostics: for any handles and any number of records.  ErrorsInOrder  *)
(* is not inductive: it needs that the marks on the records agree with     *)
(* what was given, that is, that exactly the first Len(given[h]) records   *)
(* are marked.                                                             *)
(***************************************************************************)

(* One handle's records and the numbers of those given. *)
MarksAgree(rs, g) ==
    /\ Len(g) <= Len(rs)
    /\ \A k \in 1..Len(rs) : rs[k].retrieved <=> k <= Len(g)
    /\ g = [k \in 1..Len(g) |-> k]

DInv ==
    /\ DiagTypeOK
    /\ \A h \in Handles : MarksAgree(records[h], given[h])
    /\ NoDataMeansAllGiven
    /\ TruncationIsTold

(* A record list is a sequence of at most MaxRecords records. *)
LEMMA ListFacts ==
    ASSUME NEW rs \in RecordLists
    PROVE  /\ Len(rs) \in 0..MaxRecords
           /\ rs \in [1..Len(rs) -> Records]
  <1>1. PICK n \in 0..MaxRecords : rs \in [1..n -> Records]
    BY Zenon DEF RecordLists
  <1>2. n \in Nat /\ Len(rs) = n
    BY <1>1, DiagnosticsAssumption, SMTT(30)
  <1> QED BY <1>1, <1>2, Zenon

(* The record GetLastNonRetrieved finds is the one after those given.      *)
LEMMA NextRecord ==
    ASSUME NEW rs \in RecordLists, NEW g \in Seq(1..MaxRecords), MarksAgree(rs, g)
    PROVE  /\ Len(g) = Len(rs) => GetLastNonRetrieved(rs) = 0
           /\ Len(g) < Len(rs) => GetLastNonRetrieved(rs) = Len(g) + 1
  <1>1. Len(rs) \in Nat /\ Len(g) \in Nat
    BY ListFacts, DiagnosticsAssumption, SMTT(30)
  <1>2. NotRetrieved(rs) = (Len(g) + 1)..Len(rs)
    BY <1>1, SMTT(30) DEF NotRetrieved, MarksAgree
  <1>3. CASE Len(g) = Len(rs)
    <2>1. NotRetrieved(rs) = {}
      BY <1>1, <1>2, <1>3, SMTT(30)
    <2> QED BY <1>1, <1>3, <2>1, SMTT(30) DEF GetLastNonRetrieved
  <1>4. CASE Len(g) < Len(rs)
    <2>1. Len(g) + 1 \in NotRetrieved(rs)
      BY <1>1, <1>2, <1>4, SMTT(30)
    <2>2. \A m \in NotRetrieved(rs) : Len(g) + 1 <= m
      BY <1>1, <1>2, SMTT(30)
    <2>3. \A n \in NotRetrieved(rs) :
             (\A m \in NotRetrieved(rs) : n <= m) => n = Len(g) + 1
      BY <1>1, <1>2, <2>1, <2>2, SMTT(30)
    <2>4. NotRetrieved(rs) # {}
      BY <2>1, Zenon
    <2> DEFINE First(n) == n \in NotRetrieved(rs) /\ \A m \in NotRetrieved(rs) : n <= m
    <2>5. First(Len(g) + 1) /\ \A n : First(n) => n = Len(g) + 1
      BY <2>1, <2>2, <2>3, Zenon
    <2>6. GetLastNonRetrieved(rs) = CHOOSE n : First(n)
      BY <2>4, Zenon DEF GetLastNonRetrieved
    <2> HIDE DEF First
    <2>7. First(CHOOSE n : First(n))
      BY <2>5, Zenon
    <2>8. GetLastNonRetrieved(rs) = Len(g) + 1
      BY <2>5, <2>6, <2>7, Zenon
    <2> QED BY <1>1, <1>4, <2>8, SMTT(30)
  <1> QED BY <1>1, <1>3, <1>4, Zenon

(* Giving the next record and marking it keeps the two in agreement.       *)
LEMMA GiveNext ==
    ASSUME NEW rs \in RecordLists, NEW g \in Seq(1..MaxRecords), MarksAgree(rs, g),
           Len(g) < Len(rs)
    PROVE  /\ MarkRetrieved(rs, Len(g) + 1) \in RecordLists
           /\ Append(g, Len(g) + 1) \in Seq(1..MaxRecords)
           /\ MarksAgree(MarkRetrieved(rs, Len(g) + 1), Append(g, Len(g) + 1))
  <1> DEFINE n == Len(g) + 1
             ms == MarkRetrieved(rs, n)
             ng == Append(g, n)
  <1>1. /\ Len(rs) \in 0..MaxRecords /\ Len(g) \in Nat /\ n \in 1..Len(rs)
        /\ rs \in [1..Len(rs) -> Records]
    BY ListFacts, DiagnosticsAssumption, SMTT(30)
  <1>2. ms \in [1..Len(rs) -> Records]
    BY <1>1, Zenon DEF MarkRetrieved, Records
  <1>3. ms \in RecordLists
    BY <1>1, <1>2, Zenon DEF RecordLists
  <1>4. Len(ms) = Len(rs)
    BY <1>1, <1>2, SMTT(30)
  <1>5. n \in 1..MaxRecords
    BY <1>1, DiagnosticsAssumption, SMTT(30)
  <1>6. ng \in Seq(1..MaxRecords) /\ Len(ng) = n
    BY <1>1, <1>5, SMTT(30)
  <1>7. \A k \in 1..Len(rs) : ms[k].retrieved <=> k <= n
    <2> SUFFICES ASSUME NEW k \in 1..Len(rs)
                 PROVE  ms[k].retrieved <=> k <= n
      BY Zenon
    <2>1. rs[k] \in Records
      BY <1>1, Zenon
    <2>2. CASE k = n
      <3>1. ms[k].retrieved = TRUE
        BY <1>1, <2>1, <2>2, Zenon DEF MarkRetrieved, Records
      <3> QED BY <1>1, <2>2, <3>1, SMTT(30)
    <2>3. CASE k # n
      <3>1. ms[k] = rs[k]
        BY <1>1, <2>3, Zenon DEF MarkRetrieved
      <3>2. k <= n <=> k <= Len(g)
        BY <1>1, <2>3, SMTT(30)
      <3> QED BY <3>1, <3>2, Zenon DEF MarksAgree
    <2> QED BY <2>2, <2>3, Zenon
  <1>8. ng = [k \in 1..n |-> k]
    BY <1>1, <1>6, SMTT(30) DEF MarksAgree
  <1> QED BY <1>1, <1>3, <1>4, <1>6, <1>7, <1>8, SMTT(30) DEF MarksAgree

(* A call leaves records that are not marked, and none given.              *)
LEMMA FreshAgrees ==
    ASSUME NEW rs \in NewRecordLists
    PROVE  /\ rs \in RecordLists /\ <<>> \in Seq(1..MaxRecords)
           /\ MarksAgree(rs, <<>>)
  <1>1. PICK n \in 0..MaxRecords : rs \in [1..n -> [size : Sizes, retrieved : {FALSE}]]
    BY Zenon DEF NewRecordLists
  <1>2. rs \in [1..n -> Records]
    BY <1>1, Zenon DEF Records
  <1>3. rs \in RecordLists
    BY <1>1, <1>2, Zenon DEF RecordLists
  <1>4. n \in Nat /\ Len(rs) = n
    BY <1>1, DiagnosticsAssumption, SMTT(30)
  <1>5. \A k \in 1..n : rs[k].retrieved = FALSE
    BY <1>1, Zenon
  <1>6. \A k \in 1..n : ~(k <= 0)
    BY <1>4, SMTT(30)
  <1>7. <<>> = [k \in 1..0 |-> k] /\ Len(<<>>) = 0 /\ <<>> \in Seq(1..MaxRecords)
    BY SMTT(30)
  <1> QED BY <1>3, <1>4, <1>5, <1>6, <1>7, SMTT(30) DEF MarksAgree

(* A length that an SQLSMALLINT holds is itself, so that a message cut     *)
(* without being told is a long one (SQLGetDiagRec).                       *)
LEMMA CutIsLong ==
    ASSUME NEW size \in Nat, NEW buffer \in Buffers,
           FoundEnough(size, buffer), ~CopiedWhole(size, buffer)
    PROVE  size >= MaxSmall
  <1>1. MaxSmall \in Nat /\ buffer \in Int
    BY DiagnosticsAssumption, SMTT(30) DEF Buffers, NoBuffer
  <1>2. ASSUME NEW n \in Nat, NEW m \in Nat, n < m
        PROVE  n % m = n
    BY <1>2, SMTT(30)
  <1>3. CASE size < MaxSmall
    <2>1. SmallInt(size + 1) = size + 1
      <3>1. size + 1 + MaxSmall + 1 < 2 * (MaxSmall + 1)
        BY <1>1, <1>3, SMTT(30)
      <3>2. (size + 1 + MaxSmall + 1) % (2 * (MaxSmall + 1)) = size + 1 + MaxSmall + 1
        BY <1>1, <1>2, <3>1, SMTT(30)
      <3> QED BY <1>1, <3>2, SMTT(30) DEF SmallInt
    <2> QED BY <2>1, Zenon DEF FoundEnough, CopiedWhole
  <1> QED BY <1>1, <1>3, SMTT(30)

(* Reading that changes nothing keeps the invariant, if NO_DATA of         *)
(* SQLError and SUCCESS of SQLGetDiagRec mean what they should.            *)
LEMMA ReadGood ==
    ASSUME DInv, NEW api, NEW h, NEW code, NEW whole, Read(api, h, code, whole),
           Answer(api, h, code, whole) \in AnswerTypes,
           api = "SQLERROR" /\ code = "NO_DATA" => Len(given[h]) = Len(records[h]),
           api = "REC" /\ code = "SUCCESS" /\ ~whole
             => \E n \in 1..Len(records[h]) : records[h][n].size >= MaxSmall
    PROVE  DInv'
  <1>1. UNCHANGED <<header, records, given>> /\ answer' = Answer(api, h, code, whole)
    BY Zenon DEF Read
  <1>2. answer'.call = api /\ answer'.code = code /\ answer'.handle = h /\ answer'.whole = whole
    BY <1>1, Zenon DEF Answer
  <1>3. DiagTypeOK'
    BY <1>1, Zenon DEF DInv, DiagTypeOK
  <1>4. NoDataMeansAllGiven'
    BY <1>1, <1>2, Zenon DEF NoDataMeansAllGiven
  <1>5. TruncationIsTold'
    BY <1>1, <1>2, Zenon DEF TruncationIsTold
  <1> QED BY <1>1, <1>3, <1>4, <1>5, Zenon DEF DInv

(* A call, or a call of SQLError that returns a record, on one handle.     *)
LEMMA ChangeGood ==
    ASSUME DInv, NEW h \in Handles, NEW rs \in RecordLists, NEW g \in Seq(1..MaxRecords),
           MarksAgree(rs, g),
           records' = [records EXCEPT ![h] = rs], given' = [given EXCEPT ![h] = g],
           header' \in [Handles -> SqlResults], answer' \in AnswerTypes,
           answer'.code # "NO_DATA" \/ answer'.call # "SQLERROR", answer'.call # "REC"
    PROVE  DInv'
  <1>1. DiagTypeOK'
    BY Zenon DEF DInv, DiagTypeOK
  <1>2. \A x \in Handles : MarksAgree(records'[x], given'[x])
    BY Zenon DEF DInv, DiagTypeOK
  <1>3. NoDataMeansAllGiven' /\ TruncationIsTold'
    BY Zenon DEF NoDataMeansAllGiven, TruncationIsTold
  <1> QED BY <1>1, <1>2, <1>3, Zenon DEF DInv

(* Every step keeps the invariant.                                         *)
LEMMA DiagStepGood ==
    ASSUME DInv, [DiagNext]_diagVars
    PROVE  DInv'
  <1> USE DEF SqlResults, AnswerTypes, Answer
  <1>1. CASE UNCHANGED diagVars
    BY <1>1, Zenon DEF diagVars, DInv, DiagTypeOK, NoDataMeansAllGiven, TruncationIsTold
  <1>2. ASSUME NEW h \in Handles, NEW res \in SqlResults, NEW added \in NewRecordLists,
               ApiCall(h, res, added)
        PROVE  DInv'
    <2>1. answer' \in AnswerTypes /\ answer'.call = "OTHER"
      BY <1>2, Zenon DEF ApiCall, Arguments
    <2>2. records' = [records EXCEPT ![h] = added] /\ given' = [given EXCEPT ![h] = <<>>]
      BY <1>2, Zenon DEF ApiCall
    <2>3. header' \in [Handles -> SqlResults]
      BY <1>2, Zenon DEF ApiCall, DInv, DiagTypeOK
    <2> QED BY <2>1, <2>2, <2>3, FreshAgrees, ChangeGood, Zenon
  <1>3. CASE SkippedCall
    <2>1. Read("OTHER", "STMT", header["STMT"], TRUE)
      BY <1>3, Zenon DEF SkippedCall, Read
    <2>2. Answer("OTHER", "STMT", header["STMT"], TRUE) \in AnswerTypes
      BY DiagnosticsAssumption, Zenon DEF DInv, DiagTypeOK, Arguments
    <2> QED BY <2>1, <2>2, ReadGood, Zenon
  <1>4. ASSUME NEW h \in Arguments, NEW n, NEW field, GetDiagField(h, n, field)
        PROVE  DInv'
    <2>1. Answer("FIELD", h, GetFieldResult(h, n, field), TRUE) \in AnswerTypes
      BY Zenon DEF GetFieldResult
    <2> QED BY <1>4, <2>1, ReadGood, Zenon DEF GetDiagField
  <1>5. ASSUME NEW h \in Arguments, NEW n \in 0..(MaxRecords + 1), NEW buffer \in Buffers,
               NEW hasLen \in BOOLEAN, GetDiagRec(h, n, buffer, hasLen)
        PROVE  DInv'
    <2>1. CASE h \notin Handles \/ n < 1 \/ n > Len(records[h])
      <3>1. PICK code \in {"INVALID_HANDLE", "ERROR", "NO_DATA"} : Read("REC", h, code, TRUE)
        BY <1>5, <2>1, Zenon DEF GetDiagRec
      <3> QED BY <3>1, ReadGood, Zenon
    <2>2. CASE ~(h \notin Handles \/ n < 1 \/ n > Len(records[h]))
      <3> DEFINE size  == records[h][n].size
                 whole == CopiedWhole(size, buffer)
                 code  == IF FoundEnough(size, buffer) THEN "SUCCESS"
                          ELSE IF hasLen THEN "SUCCESS_WITH_INFO" ELSE "ERROR"
      <3>1. Read("REC", h, code, whole)
        BY <1>5, <2>2, Zenon DEF GetDiagRec
      <3>2. Len(records[h]) \in 0..MaxRecords /\ records[h] \in [1..Len(records[h]) -> Records]
        BY <2>2, ListFacts, Zenon DEF DInv, DiagTypeOK
      <3>3. n \in 1..Len(records[h]) /\ size \in Nat
        <4>1. n \in 1..Len(records[h])
          BY <2>2, <3>2, DiagnosticsAssumption, SMTT(30)
        <4>2. records[h][n] \in Records
          BY <3>2, <4>1, Zenon
        <4> QED BY <4>1, <4>2, DiagnosticsAssumption, Zenon DEF Records
      <3>4. Answer("REC", h, code, whole) \in AnswerTypes
        BY Zenon DEF CopiedWhole
      <3>5. code = "SUCCESS" /\ ~whole => size >= MaxSmall
        BY <3>3, CutIsLong, Zenon
      <3> HIDE DEF code, whole
      <3> QED BY <3>1, <3>3, <3>4, <3>5, ReadGood, Zenon
    <2> QED BY <2>1, <2>2, Zenon
  <1>6. ASSUME NEW handles \in SUBSET Handles, NEW buffer \in Buffers, SQLError(handles, buffer)
        PROVE  DInv'
    <2> DEFINE h == ErrorHandle(handles)
               n == GetLastNonRetrieved(records[h])
    <2>1. CASE handles = {}
      <3>1. Read("SQLERROR", "NULL", "INVALID_HANDLE", TRUE)
        BY <1>6, <2>1, Zenon DEF SQLError
      <3> QED BY <3>1, ReadGood, Zenon DEF Arguments
    <2>2. CASE handles # {}
      <3>1. h \in Handles
        BY <2>2, DiagnosticsAssumption, Zenon DEF ErrorHandle
      <3>2. /\ records[h] \in RecordLists /\ given[h] \in Seq(1..MaxRecords)
            /\ MarksAgree(records[h], given[h])
        BY <3>1, Zenon DEF DInv, DiagTypeOK
      <3>3. Len(given[h]) \in Nat /\ Len(records[h]) \in Nat /\ Len(given[h]) <= Len(records[h])
        BY <3>2, ListFacts, DiagnosticsAssumption, SMTT(30) DEF MarksAgree
      <3>4. CASE Len(given[h]) = Len(records[h])
        <4>1. n = 0
          BY <3>2, <3>4, NextRecord, Zenon
        <4>2. Read("SQLERROR", h, "NO_DATA", TRUE)
          BY <1>6, <2>2, <4>1, Zenon DEF SQLError
        <4> HIDE DEF h, n
        <4> QED BY <3>1, <3>4, <4>2, ReadGood, Zenon DEF Arguments
      <3>5. CASE Len(given[h]) < Len(records[h])
        <4>1. n = Len(given[h]) + 1 /\ n # 0
          BY <3>2, <3>3, <3>5, NextRecord, SMTT(30)
        <4>2. /\ records' = [records EXCEPT ![h] = MarkRetrieved(records[h], n)]
              /\ given' = [given EXCEPT ![h] = Append(given[h], n)]
              /\ answer' = Answer("SQLERROR", h, "SUCCESS", CopiedWhole(records[h][n].size, buffer))
              /\ header' = header
          BY <1>6, <2>2, <4>1, Zenon DEF SQLError
        <4>3. answer' \in AnswerTypes /\ answer'.code = "SUCCESS" /\ answer'.call = "SQLERROR"
          <5> HIDE DEF h, n
          <5> QED BY <3>1, <4>2, Zenon DEF Arguments, CopiedWhole
        <4>4. /\ MarkRetrieved(records[h], n) \in RecordLists
              /\ Append(given[h], n) \in Seq(1..MaxRecords)
              /\ MarksAgree(MarkRetrieved(records[h], n), Append(given[h], n))
          BY <3>2, <3>5, <4>1, GiveNext, Zenon
        <4>5. header' \in [Handles -> SqlResults]
          BY <4>2, Zenon DEF DInv, DiagTypeOK
        <4> HIDE DEF h, n
        <4> QED BY <3>1, <4>2, <4>3, <4>4, <4>5, ChangeGood, Zenon
      <3> QED BY <3>3, <3>4, <3>5, SMTT(30)
    <2> QED BY <2>1, <2>2, Zenon
  <1> QED BY <1>1, <1>2, <1>3, <1>4, <1>5, <1>6, Zenon DEF DiagNext

(* The initial state satisfies the invariant.                              *)
LEMMA DiagInitGood == DiagInit => DInv
  <1> SUFFICES ASSUME DiagInit PROVE DInv
    BY Zenon
  <1>1. <<>> \in NewRecordLists
    <2>1. <<>> \in [1..0 -> [size : Sizes, retrieved : {FALSE}]]
      BY SMTT(30)
    <2>2. 0 \in 0..MaxRecords
      BY DiagnosticsAssumption, SMTT(30)
    <2> QED BY <2>1, <2>2, Zenon DEF NewRecordLists
  <1>2. <<>> \in RecordLists /\ <<>> \in Seq(1..MaxRecords) /\ MarksAgree(<<>>, <<>>)
    BY <1>1, FreshAgrees, Zenon
  <1>3. DiagTypeOK
    BY <1>2, DiagnosticsAssumption, Zenon DEF DiagInit, DiagTypeOK, Answer, AnswerTypes, Arguments, SqlResults
  <1>4. NoDataMeansAllGiven /\ TruncationIsTold
    BY Zenon DEF DiagInit, Answer, NoDataMeansAllGiven, TruncationIsTold
  <1> QED BY <1>2, <1>3, <1>4, Zenon DEF DiagInit, DInv

(* The marks always agree with what SQLError has returned.                 *)
THEOREM Agreement == DiagSpec => []DInv
  <1>1. DInv /\ [DiagNext]_diagVars => DInv'
    BY DiagStepGood, Zenon
  <1> QED BY DiagInitGood, <1>1, PTL DEF DiagSpec

(* SQLError returns records from the first on and none twice               *)
(* (GetLastNonRetrieved, MarkRetrieved).                                   *)
THEOREM InOrder == DiagSpec => []ErrorsInOrder
  <1>1. DInv => ErrorsInOrder
    BY Zenon DEF DInv, MarksAgree, ErrorsInOrder
  <1> QED BY Agreement, <1>1, PTL

(* SQLError has no more data only when it has returned every record.       *)
THEOREM Complete == DiagSpec => []NoDataMeansAllGiven
  <1>1. DInv => NoDataMeansAllGiven
    BY Zenon DEF DInv
  <1> QED BY Agreement, <1>1, PTL

(* SQLGetDiagRec cuts no message silently whose length and terminating     *)
(* null an SQLSMALLINT holds (CopyStringToBuffer, the comparison with the  *)
(* length of the buffer).                                                  *)
THEOREM TruncationTold == DiagSpec => []TruncationIsToldAlways
  <1>1. DInv => TruncationIsToldAlways
    BY Zenon DEF DInv, TruncationIsToldAlways
  <1> QED BY Agreement, <1>1, PTL

-----------------------------------------------------------------------------
(***************************************************************************)
(* SharedState                                                             *)
(***************************************************************************)

(* Each thread makes calls of one kind, a thread is not the free mutex, a  *)
(* value is not the null pointer and an error has a code (IsSet).          *)
StateAssumption ==
    /\ Waiters \cap Completers = {} /\ Canceller \notin Waiters \cup Completers
    /\ Canceller # Free
    /\ NoValue \notin Values /\ Success \notin Errors

(* An outcome that was accepted or told is there, and so is the one a      *)
(* GetValue is about to read without the mutex.                            *)
StateInv ==
    /\ StateTypeOK /\ OneAccepted /\ NoSleeperOnceSet
    /\ spc = [t \in Actors |-> spc[t]] /\ outcome = [t \in Actors |-> outcome[t]]
    /\ \A t \in Completers : outcome[t] = Success => IsSet
    /\ \A w \in Waiters :
          /\ spc[w] = "read" => IsSet
          /\ outcome[w] \notin {NoResult, Woke, TimedOut} => IsSet

LEMMA StateInitially == StateAssumption /\ StateInit => StateInv
BY Zenon DEF StateAssumption, StateInit, StateInv, StateTypeOK, OneAccepted, NoSleeperOnceSet, Actors,
       Free, NoValue, Success, NoResult, IsSet

LEMMA StatePreserved ==
    ASSUME StateAssumption, StateInv, [StateNext]_stateVars
    PROVE  StateInv'
<1> USE DEF StateAssumption, StateInv, StateTypeOK, OneAccepted, NoSleeperOnceSet, Actors,
            Free, NoValue, Success, Broken, AlreadySet, NoResult, Woke, TimedOut, Returned,
            IsSet, Finish, NotifyAll, Waits
<1>1. ASSUME NEW t \in Completers, NEW v \in Values, SetValue(t, v) PROVE StateInv'
  BY <1>1, ZenonT(60) DEF SetValue
<1>2. ASSUME NEW t \in Completers, NEW e \in Errors, SetError(t, e) PROVE StateInv'
  BY <1>2, ZenonT(60) DEF SetError
<1>3. CASE DropPromise
  BY <1>3, Zenon DEF DropPromise
<1>4. ASSUME NEW w \in Waiters, NEW kind \in Waits, EnterWait(w, kind) PROVE StateInv'
  <2>1. CASE IsSet /\ kind = "GetValue" /\ spc' = [spc EXCEPT ![w] = "read"]
             /\ UNCHANGED <<outcome, waiting>>
    BY <1>4, <2>1, Zenon DEF EnterWait
  <2>2. CASE IsSet /\ Finish(w, Woke) /\ UNCHANGED waiting
    BY <1>4, <2>2, Zenon DEF EnterWait
  <2>3. CASE ~IsSet /\ waiting' = waiting \cup {w} /\ spc' = [spc EXCEPT ![w] = kind]
             /\ UNCHANGED outcome
    BY <1>4, <2>3, Zenon DEF EnterWait
  <2> QED
    BY <1>4, <2>1, <2>2, <2>3, Zenon DEF EnterWait
<1>5. ASSUME NEW w \in Waiters, WakeSpuriously(w) PROVE StateInv'
  BY <1>5, Zenon DEF WakeSpuriously
<1>6. ASSUME NEW w \in Waiters, TimeOut(w) PROVE StateInv'
  BY <1>6, Zenon DEF TimeOut
<1>7. ASSUME NEW w \in Waiters, Resume(w) PROVE StateInv'
  <2>1. CASE ~IsSet /\ spc[w] \in {"Wait", "GetValue"} /\ waiting' = waiting \cup {w}
             /\ UNCHANGED <<spc, outcome>>
    BY <1>7, <2>1, Zenon DEF Resume
  <2>2. CASE IsSet /\ spc' = [spc EXCEPT ![w] = "read"] /\ UNCHANGED <<waiting, outcome>>
    BY <1>7, <2>2, Zenon DEF Resume
  <2>3. CASE Finish(w, Woke) /\ UNCHANGED waiting
    BY <1>7, <2>3, Zenon DEF Resume
  <2>4. CASE Finish(w, TimedOut) /\ UNCHANGED waiting
    BY <1>7, <2>4, Zenon DEF Resume
  <2> QED
    BY <1>7, <2>1, <2>2, <2>3, <2>4, Zenon DEF Resume
<1>8. ASSUME NEW w \in Waiters, GetValue(w) PROVE StateInv'
  BY <1>8, ZenonT(60) DEF GetValue
<1>9. CASE SetCancelTarget
  BY <1>9, Zenon DEF SetCancelTarget
<1>10. CASE Cancel
  <2>1. CASE Finish(Canceller, Success) /\ UNCHANGED mutex
    BY <1>10, <2>1, Zenon DEF Cancel
  <2>2. CASE /\ mutex' = Canceller /\ UNCHANGED outcome
             /\ spc' = [spc EXCEPT ![Canceller] = "cancelling"]
    BY <1>10, <2>2, Zenon DEF Cancel
  <2> QED
    BY <1>10, <2>1, <2>2, Zenon DEF Cancel
<1>11. ASSUME NEW e \in Errors, CompleteInline(e) PROVE StateInv'
  BY <1>11, Zenon DEF CompleteInline
<1>12. ASSUME NEW r \in {Success} \cup Errors, CancelReturn(r) PROVE StateInv'
  BY <1>12, Zenon DEF CancelReturn
<1>13. CASE UNCHANGED stateVars
  BY <1>13, Zenon DEF stateVars
<1> QED
  BY <1>1, <1>2, <1>3, <1>4, <1>5, <1>6, <1>7, <1>8, <1>9, <1>10, <1>11, <1>12, <1>13, Zenon
     DEF StateNext

(* However many threads wait on a future, complete its promise and cancel  *)
(* it: one completion is accepted, every GetValue tells that one, and no   *)
(* wake-up is lost (SharedState, Promise, Future).                         *)
THEOREM FutureHasOneOutcome ==
    ASSUME StateAssumption
    PROVE  StateSpec => [](StateTypeOK /\ OneOutcome)
<1>1. StateInit => StateInv
  BY StateInitially, Zenon
<1>2. StateInv /\ [StateNext]_stateVars => StateInv'
  BY StatePreserved, Zenon
<1>3. StateInv => StateTypeOK /\ OneOutcome
  BY Zenon DEF StateInv, OneOutcome
<1> QED
  BY <1>1, <1>2, <1>3, PTL DEF StateSpec

-----------------------------------------------------------------------------
(***************************************************************************)
(* SharedPtr                                                               *)
(***************************************************************************)

PtrAssumption == IsFiniteSet(Callers) /\ Unlocked \notin Callers /\ MaxGets \in Nat

Null == [ptr |-> FALSE, impl |-> FALSE]
Full == [ptr |-> TRUE, impl |-> TRUE]

Copies == {t \in Callers : copy[t].impl}
Selves == {t \in Callers : self[t].impl}

(* The thread that initialises the instance, from the first temporary to   *)
(* the destruction of the last.                                            *)
Making == {"assign", "swapped", "drop"}

(* The words of the instance at each point of Lazy::Get: only the thread   *)
(* with the lock writes them, an instance that is null again was destroyed *)
(* when nobody was inside Get, and nobody comes back.                      *)
PtrControl ==
    /\ PtrTypeOK
    /\ made \in {0, 1}
    /\ made = 0 =>
          /\ instance = Null /\ refCnt = 0 /\ temps = 0
          /\ \A t \in Callers : ppc[t] \in {"idle", "lock", "locked"}
    /\ \A t \in Callers :
          /\ ppc[t] = "assign" => temps = 1 /\ instance = Null
          /\ ppc[t] = "swapped" => temps = 2 /\ instance # Null /\ instance # Full
          /\ ppc[t] = "drop" => temps = 1 /\ instance = Full
          /\ ppc[t] = "copyLocked" => instance = Full
          /\ ppc[t] = "copy" => instance.ptr
          /\ copy[t].impl => ppc[t] = "have"
          /\ self[t].impl => ppc[t] \in {"have", "self"}
    /\ (\A t \in Callers : ppc[t] \notin Making) => temps = 0 /\ instance \in {Null, Full}
    /\ made = 1 /\ instance = Null /\ (\A t \in Callers : ppc[t] # "assign") =>
          gets = MaxGets /\ \A t \in Callers : ppc[t] \in {"idle", "have", "self"}

PtrInv ==
    /\ PtrControl /\ CountIsHolders
    /\ deleted \in {0, 1} /\ (made = 1 /\ refCnt = 0 <=> deleted = 1)

(* What the instance and the temporaries of its initialisation count. *)
Own == (IF instance.impl THEN 1 ELSE 0)
       + (IF \E t \in Callers : ppc[t] = "swapped"
          THEN (IF instance.impl THEN 1 ELSE 2) ELSE temps)

LEMMA CountMeans ==
    /\ CountIsHolders <=> refCnt = Own + Cardinality(Copies) + Cardinality(Selves)
    /\ CountIsHolders' <=> refCnt' = Own' + Cardinality(Copies') + Cardinality(Selves')
BY Zenon DEF CountIsHolders, Own, Copies, Selves

(* Lazy::Get step by step. *)
LEMMA PtrControlPreserved ==
    ASSUME PtrAssumption, PtrControl, [PtrNext]_ptrVars
    PROVE  PtrControl'
<1> USE DEF PtrAssumption, PtrControl, PtrTypeOK, PtrLabels, Pointer, Making, Null, Full,
            Unlocked, PtrTo, NullPointer, Points
<1>1. ASSUME NEW t \in Callers, Look(t) PROVE PtrControl'
  BY <1>1, SMTT(30) DEF Look
<1>2. ASSUME NEW t \in Callers, CopyUnlocked(t) PROVE PtrControl'
  BY <1>2, SMTT(30) DEF CopyUnlocked, CopyOf
<1>3. ASSUME NEW t \in Callers, Lock(t) PROVE PtrControl'
  BY <1>3, SMTT(30) DEF Lock
<1>4. ASSUME NEW t \in Callers, LookAgain(t) PROVE PtrControl'
  BY <1>4, SMTT(30) DEF LookAgain
<1>5. ASSUME NEW t \in Callers, Assign(t) PROVE PtrControl'
  <2>1. instance = Null /\ temps = 1 /\ lock = t /\ made = 1
    BY <1>5, Zenon DEF Assign
  <2>2. instance' \in {[ptr |-> TRUE, impl |-> FALSE], [ptr |-> FALSE, impl |-> TRUE]}
    BY <1>5, <2>1, Zenon DEF Assign
  <2>3. instance' \in Pointer /\ instance' # Null /\ instance' # Full
    <3>1. CASE instance' = [ptr |-> TRUE, impl |-> FALSE]
      BY <3>1, Zenon
    <3>2. CASE instance' = [ptr |-> FALSE, impl |-> TRUE]
      BY <3>2, Zenon
    <3> QED
      BY <2>2, <3>1, <3>2, Zenon
  <2>4. \A u \in Callers : u # t => ppc[u] \notin Making \cup {"copy", "copyLocked", "locked"}
    BY <2>1, Zenon
  <2>5. /\ ppc' = [ppc EXCEPT ![t] = "swapped"] /\ temps' = 2 /\ refCnt' \in Int
        /\ UNCHANGED <<lock, made, deleted, copy, self, gets>>
    BY <1>5, <2>1, SMTT(30) DEF Assign
  <2>6. PtrTypeOK'
    BY <2>1, <2>3, <2>5, SMTT(30)
  <2> QED
    BY <1>5, <2>1, <2>3, <2>4, <2>5, <2>6, SMTT(30) DEF Assign
<1>6. ASSUME NEW t \in Callers, Swapped(t) PROVE PtrControl'
  BY <1>6, SMTT(30) DEF Swapped
<1>7. ASSUME NEW t \in Callers, DropTemporary(t) PROVE PtrControl'
  BY <1>7, SMTT(30) DEF DropTemporary
<1>8. ASSUME NEW t \in Callers, CopyLocked(t) PROVE PtrControl'
  BY <1>8, SMTT(30) DEF CopyLocked, CopyOf
<1>9. ASSUME NEW t \in Callers, SharedFromThis(t) PROVE PtrControl'
  <2>1. self' \in [Callers -> Pointer]
    BY <1>9, Zenon DEF SharedFromThis
  <2> QED
    BY <1>9, <2>1, SMTT(30) DEF SharedFromThis
<1>10. ASSUME NEW t \in Callers, Drop(t) PROVE PtrControl'
  BY <1>10, SMTT(30) DEF Drop, ReleasePtr
<1>11. ASSUME NEW t \in Callers, DropSelf(t) PROVE PtrControl'
  BY <1>11, SMTT(30) DEF DropSelf, ReleasePtr
<1>12. CASE DestroyLazy
  BY <1>12, SMTT(30) DEF DestroyLazy, ReleasePtr
<1>13. CASE UNCHANGED ptrVars
  BY <1>13, ZenonT(60) DEF ptrVars
<1> QED
  BY <1>1, <1>2, <1>3, <1>4, <1>5, <1>6, <1>7, <1>8, <1>9, <1>10, <1>11, <1>12, <1>13, ZenonT(60)
     DEF PtrNext

(* What the proof uses of the sizes of sets of callers; shown last, from   *)
(* the library's theorems on finite sets.                                  *)
CallersAreCounted ==
    \A S \in SUBSET Callers :
        /\ Cardinality(S) \in Nat /\ (Cardinality(S) = 0 <=> S = {})
        /\ \A t \in Callers :
              /\ t \notin S => Cardinality(S \cup {t}) = Cardinality(S) + 1
              /\ t \in S => Cardinality(S \ {t}) = Cardinality(S) - 1

LEMMA PtrInitially ==
    ASSUME PtrAssumption, CallersAreCounted, PtrInit
    PROVE  PtrInv
<1> USE DEF PtrAssumption, PtrInit, NullPointer, Null
<1>1. PtrControl
  BY SMTT(30) DEF PtrControl, PtrTypeOK, PtrLabels, Pointer, Making, Unlocked
<1>2. Copies = {} /\ Selves = {} /\ Own = 0
  BY SMTT(30) DEF Copies, Selves, Own
<1>3. CountIsHolders
  <2>1. Cardinality(Copies) = 0 /\ Cardinality(Selves) = 0
    BY <1>2, Zenon DEF CallersAreCounted
  <2> QED
    BY <1>2, <2>1, CountMeans, SMTT(30)
<1> QED
  BY <1>1, <1>3, Zenon DEF PtrInv

LEMMA HoldersCounted ==
    ASSUME CallersAreCounted
    PROVE  /\ Copies \in SUBSET Callers /\ Selves \in SUBSET Callers
           /\ Cardinality(Copies) \in Nat /\ Cardinality(Selves) \in Nat
           /\ Cardinality(Copies) = 0 <=> Copies = {}
           /\ Cardinality(Selves) = 0 <=> Selves = {}
<1>1. Copies \in SUBSET Callers /\ Selves \in SUBSET Callers
  BY Zenon DEF Copies, Selves
<1> QED
  BY <1>1, Zenon DEF CallersAreCounted

(* Whoever holds a pointer is counted. *)
LEMMA HoldersCount ==
    ASSUME CallersAreCounted, PtrInv
    PROVE  /\ Own \in Nat /\ refCnt = Own + Cardinality(Copies) + Cardinality(Selves)
           /\ refCnt \in Nat
           /\ instance.impl => refCnt > 0
           /\ \A t \in Callers : copy[t].impl \/ self[t].impl => refCnt > 0
           /\ \A t \in Callers : ppc[t] \in Making => refCnt > 0
           /\ refCnt = 0 => Cardinality(Copies) = 0 /\ Cardinality(Selves) = 0
<1>1. Own \in Nat
  BY SMTT(30) DEF PtrInv, PtrControl, PtrTypeOK, Own
<1>2. refCnt = Own + Cardinality(Copies) + Cardinality(Selves)
  BY CountMeans, Zenon DEF PtrInv
<1>3. Cardinality(Copies) \in Nat /\ Cardinality(Selves) \in Nat
  BY HoldersCounted, Zenon
<1>4. instance.impl => Own > 0
  BY SMTT(30) DEF PtrInv, PtrControl, PtrTypeOK, Own
<1>5. \A t \in Callers : ppc[t] \in Making => Own > 0
  BY SMTT(30) DEF PtrInv, PtrControl, PtrTypeOK, Own, Making, Full, Null
<1>6. \A t \in Callers : copy[t].impl => Cardinality(Copies) # 0
  BY HoldersCounted, Zenon DEF Copies
<1>7. \A t \in Callers : self[t].impl => Cardinality(Selves) # 0
  BY HoldersCounted, Zenon DEF Selves
<1> QED
  BY <1>1, <1>2, <1>3, <1>4, <1>5, <1>6, <1>7, SMTT(30)

(* The deleter ran once there is no holder, and only then. *)
LEMMA PtrInvImplies ==
    ASSUME CallersAreCounted, PtrInv
    PROVE  PtrTypeOK /\ MadeOnce /\ CountIsHolders /\ GoneWithLast
<1>1. PtrTypeOK /\ CountIsHolders /\ made \in {0, 1} /\ deleted \in {0, 1}
      /\ (made = 1 /\ refCnt = 0 <=> deleted = 1)
  BY Zenon DEF PtrInv, PtrControl
<1>2. deleted = 1 => \A t \in Callers : ~copy[t].impl /\ ~self[t].impl
  BY <1>1, HoldersCount, SMTT(30)
<1>3. made \in {0, 1} => (made > 0 <=> made = 1) /\ made <= 1
  BY SMTT(30)
<1> QED
  BY <1>1, <1>2, <1>3, SMTT(30) DEF MadeOnce, GoneWithLast, PtrIsValid

(* One pointer more, or less, among those the callers hold. *)
LEMMA OneMore ==
    ASSUME CallersAreCounted, NEW S \in SUBSET Callers, NEW t \in Callers
    PROVE  /\ t \notin S => Cardinality(S \cup {t}) = Cardinality(S) + 1
           /\ t \in S => Cardinality(S \ {t}) = Cardinality(S) - 1
BY Zenon DEF CallersAreCounted

(* A step that moves no pointer. *)
LEMMA NothingMoves ==
    ASSUME PtrInv, UNCHANGED <<instance, refCnt, made, deleted, temps, copy, self>>,
           PtrControl',
           (\E t \in Callers : ppc'[t] = "swapped") <=> (\E t \in Callers : ppc[t] = "swapped")
    PROVE  PtrInv'
<1>1. Own' = Own /\ Copies' = Copies /\ Selves' = Selves
  BY Zenon DEF Own, Copies, Selves
<1>2. CountIsHolders'
  BY <1>1, CountMeans, Zenon DEF PtrInv
<1> QED
  BY <1>2, Zenon DEF PtrInv

(* ... and in which no thread begins or ends the swap of operator=. *)
LEMMA SwappedStays ==
    ASSUME PtrControl, NEW t \in Callers, ppc[t] # "swapped",
           NEW label, label # "swapped", PtrTo(t, label)
    PROVE  (\E u \in Callers : ppc'[u] = "swapped") <=> (\E u \in Callers : ppc[u] = "swapped")
<1>1. ppc' = [u \in Callers |-> IF u = t THEN label ELSE ppc[u]]
  BY Zenon DEF PtrControl, PtrTypeOK, PtrTo
<1> QED
  BY <1>1, Zenon

LEMMA PtrPreserved ==
    ASSUME PtrAssumption, CallersAreCounted, PtrInv, [PtrNext]_ptrVars
    PROVE  PtrInv'
<1>1. PtrControl /\ PtrControl'
  BY PtrControlPreserved, Zenon DEF PtrInv
<1>2. /\ Own \in Nat /\ refCnt = Own + Cardinality(Copies) + Cardinality(Selves)
      /\ refCnt \in Nat /\ made \in {0, 1} /\ deleted \in {0, 1}
      /\ (made = 1 /\ refCnt = 0 <=> deleted = 1)
      /\ Copies \in SUBSET Callers /\ Selves \in SUBSET Callers
      /\ Cardinality(Copies) \in Nat /\ Cardinality(Selves) \in Nat
  BY HoldersCount, HoldersCounted, ZenonT(60) DEF PtrInv, PtrControl
<1>3. \A t, u \in Callers :
         ppc[t] \in {"locked", "assign", "swapped", "drop", "copyLocked"}
         /\ ppc[u] \in {"locked", "assign", "swapped", "drop", "copyLocked"} => t = u
  BY <1>1, SMTT(30) DEF PtrControl, PtrTypeOK
<1>4. ASSUME NEW t \in Callers, Look(t) \/ Lock(t) PROVE PtrInv'
  <2>1. /\ UNCHANGED <<instance, refCnt, made, deleted, temps, copy, self>>
        /\ ppc[t] # "swapped" /\ \E label \in {"copy", "lock", "locked"} : PtrTo(t, label)
    BY <1>4, Zenon DEF Look, Lock
  <2> QED
    BY <1>1, <2>1, NothingMoves, SwappedStays, Zenon
<1>5. ASSUME NEW t \in Callers, LookAgain(t) PROVE PtrInv'
  <2>1. CASE UNCHANGED <<made, refCnt, temps>> /\ PtrTo(t, "copyLocked")
    <3>1. /\ UNCHANGED <<instance, refCnt, made, deleted, temps, copy, self>>
          /\ ppc[t] # "swapped" /\ "copyLocked" # "swapped"
      BY <1>5, <2>1, Zenon DEF LookAgain
    <3> QED
      BY <1>1, <2>1, <3>1, NothingMoves, SwappedStays, Zenon
  <2>2. CASE /\ ~Points(instance) /\ made' = made + 1 /\ refCnt' = 1 /\ temps' = 1
             /\ PtrTo(t, "assign")
    <3>1. made = 0 /\ instance = Null /\ instance' = Null /\ made' = 1
      BY <1>1, <1>3, <1>5, <2>2, SMTT(30)
         DEF PtrControl, PtrTypeOK, LookAgain, Points, Null, Full, Making
    <3>2. ~\E u \in Callers : ppc'[u] = "swapped"
      BY <1>1, <1>5, <2>2, <3>1, ZenonT(60) DEF PtrControl, PtrTypeOK
    <3>3. Own' = 1 /\ Copies' = Copies /\ Selves' = Selves
      BY <1>5, <2>2, <3>1, <3>2, SMTT(30) DEF Own, Copies, Selves, Null, LookAgain
    <3>4. Cardinality(Copies) = 0 /\ Cardinality(Selves) = 0
      BY <3>1, HoldersCount, Zenon DEF PtrInv, PtrControl
    <3> QED
      BY <1>1, <1>2, <1>5, <2>2, <3>1, <3>3, <3>4, CountMeans, SMTT(30) DEF PtrInv, LookAgain
  <2> QED
    BY <1>5, <2>1, <2>2, Zenon DEF LookAgain
<1> USE DEF PtrTo
<1>6. ASSUME NEW t \in Callers, Assign(t) PROVE PtrInv'
  <2>1. /\ instance = Null /\ temps = 1
        /\ instance' \in {[ptr |-> TRUE, impl |-> FALSE], [ptr |-> FALSE, impl |-> TRUE]}
    <3>1. instance = Null /\ temps = 1
      BY <1>1, <1>6, ZenonT(60) DEF Assign, PtrControl
    <3> QED
      BY <1>6, <3>1, Zenon DEF Assign, Null
  <2>2. ~(\E u \in Callers : ppc[u] = "swapped") /\ ppc'[t] = "swapped"
    BY <1>1, <1>3, <1>6, SMTT(30) DEF Assign, PtrControl, PtrTypeOK
  <2>3. Own = 1
    BY <2>1, <2>2, SMTT(30) DEF Own, Null
  <2>4. Own' = 2
    <3>1. CASE instance' = [ptr |-> TRUE, impl |-> FALSE]
      BY <2>2, <3>1, SMTT(30) DEF Own
    <3>2. CASE instance' = [ptr |-> FALSE, impl |-> TRUE]
      BY <2>2, <3>2, SMTT(30) DEF Own
    <3> QED
      BY <2>1, <3>1, <3>2, Zenon
  <2>5. Copies' = Copies /\ Selves' = Selves
    BY <1>6, Zenon DEF Assign, Copies, Selves
  <2> QED
    <3>1. refCnt' = refCnt + 1 /\ made' = made /\ deleted' = deleted /\ refCnt > 0
      BY <1>2, <1>6, <2>3, SMTT(30) DEF Assign
    <3> QED
      BY <1>1, <1>2, <2>3, <2>4, <2>5, <3>1, CountMeans, SMTT(30) DEF PtrInv
<1>7. ASSUME NEW t \in Callers, Swapped(t) PROVE PtrInv'
  <2>1. /\ temps = 2 /\ temps' = 1 /\ instance \in [ptr : BOOLEAN, impl : BOOLEAN]
        /\ instance' = Full
    BY <1>1, <1>7, ZenonT(60) DEF Swapped, PtrControl, Full, PtrTypeOK, Pointer
  <2>2. (\E u \in Callers : ppc[u] = "swapped") /\ ~(\E u \in Callers : ppc'[u] = "swapped")
    BY <1>1, <1>3, <1>7, SMTT(30) DEF Swapped, PtrControl, PtrTypeOK
  <2>3. Own = 2
    BY <2>1, <2>2, SMTT(30) DEF Own
  <2>4. Own' = 2
    BY <2>1, <2>2, SMTT(30) DEF Own, Full
  <2>5. Copies' = Copies /\ Selves' = Selves
    BY <1>7, Zenon DEF Swapped, Copies, Selves
  <2> QED
    BY <1>1, <1>2, <1>7, <2>3, <2>4, <2>5, CountMeans, Zenon DEF PtrInv, Swapped
<1>8. ASSUME NEW t \in Callers, DropTemporary(t) PROVE PtrInv'
  <2>1. temps = 1 /\ temps' = 0 /\ instance = Full /\ instance' = Full
    BY <1>1, <1>8, SMTT(30) DEF DropTemporary, PtrControl
  <2>2. ~(\E u \in Callers : ppc[u] = "swapped") /\ ~(\E u \in Callers : ppc'[u] = "swapped")
    BY <1>1, <1>3, <1>8, Zenon DEF DropTemporary, PtrControl, PtrTypeOK
  <2>3. Own = 2
    BY <2>1, <2>2, SMTT(30) DEF Own, Full
  <2>4. Own' = 1
    BY <2>1, <2>2, SMTT(30) DEF Own, Full
  <2>5. Copies' = Copies /\ Selves' = Selves
    BY <1>8, Zenon DEF DropTemporary, Copies, Selves
  <2> QED
    BY <1>1, <1>2, <1>8, <2>3, <2>4, <2>5, CountMeans, SMTT(30) DEF PtrInv, DropTemporary
<1>9. ASSUME NEW t \in Callers, CopyOf(instance, t), PtrTo(t, "have"),
             ppc[t] \in {"copy", "copyLocked"},
             UNCHANGED <<instance, made, deleted, temps, self>>
      PROVE  PtrInv'
  <2>1. (\E u \in Callers : ppc'[u] = "swapped") <=> (\E u \in Callers : ppc[u] = "swapped")
    BY <1>1, <1>9, SMTT(30) DEF PtrControl, PtrTypeOK
  <2>2. Own' = Own /\ Selves' = Selves
    BY <1>9, <2>1, Zenon DEF Own, Selves
  <2>3. t \notin Copies /\ copy \in [Callers -> Pointer]
    BY <1>1, <1>9, Zenon DEF PtrControl, PtrTypeOK, Copies
  <2>4. CASE instance.impl
    <3>1. Copies' = Copies \cup {t} /\ refCnt' = refCnt + 1
      BY <1>9, <2>3, <2>4, Zenon DEF CopyOf, Copies
    <3>2. Cardinality(Copies') = Cardinality(Copies) + 1
      BY <1>2, <2>3, <3>1, OneMore, Zenon
    <3>3. refCnt > 0
      BY <2>4, HoldersCount, Zenon
    <3> QED
      BY <1>1, <1>2, <1>9, <2>2, <3>1, <3>2, <3>3, CountMeans, SMTT(30) DEF PtrInv
  <2>5. CASE ~instance.impl
    <3>1. Copies' = Copies /\ refCnt' = refCnt
      BY <1>9, <2>3, <2>5, Zenon DEF CopyOf, Copies
    <3> QED
      BY <1>1, <1>2, <1>9, <2>2, <3>1, CountMeans, Zenon DEF PtrInv
  <2> QED
    BY <2>4, <2>5, ZenonT(60)
<1>10. ASSUME NEW t \in Callers, SharedFromThis(t) PROVE PtrInv'
  <2>1. Own' = Own /\ Copies' = Copies
    BY <1>10, Zenon DEF SharedFromThis, Own, Copies
  <2>2. t \notin Selves /\ self \in [Callers -> Pointer]
    BY <1>1, <1>10, Zenon DEF SharedFromThis, Selves, PtrControl, PtrTypeOK
  <2>3. Selves' = Selves \cup {t}
    BY <1>10, <2>2, Zenon DEF SharedFromThis, Selves
  <2>4. Cardinality(Selves') = Cardinality(Selves) + 1
    BY <1>2, <2>2, <2>3, OneMore, Zenon
  <2>5. refCnt > 0
    BY <1>10, HoldersCount, Zenon DEF SharedFromThis
  <2> QED
    BY <1>1, <1>2, <1>10, <2>1, <2>4, <2>5, CountMeans, SMTT(30) DEF PtrInv, SharedFromThis
<1>11. ASSUME NEW t \in Callers, Drop(t) PROVE PtrInv'
  <2>1. (\E u \in Callers : ppc'[u] = "swapped") <=> (\E u \in Callers : ppc[u] = "swapped")
    BY <1>1, <1>11, SMTT(30) DEF PtrControl, PtrTypeOK, Drop
  <2>2. Own' = Own /\ Selves' = Selves
    BY <1>11, <2>1, Zenon DEF Own, Selves, Drop
  <2>3. copy \in [Callers -> Pointer] /\ copy' = [copy EXCEPT ![t] = Null]
    BY <1>1, <1>11, Zenon DEF PtrControl, PtrTypeOK, Drop, Null, NullPointer
  <2>4. Copies' = Copies \ {t}
    BY <2>3, Zenon DEF Copies, Null
  <2>5. CASE copy[t].impl
    <3>1. t \in Copies /\ refCnt > 0 /\ refCnt' = refCnt - 1 /\ made = 1
      BY <1>1, <1>2, <1>11, <2>5, HoldersCount, Zenon
         DEF Copies, Drop, ReleasePtr, PtrControl
    <3>2. Cardinality(Copies') = Cardinality(Copies) - 1
      BY <1>2, <2>4, <3>1, OneMore, ZenonT(60)
    <3>3. CountIsHolders'
      BY <1>2, <2>2, <3>1, <3>2, CountMeans, SMTT(30)
    <3>4. deleted = 0 /\ made' = 1 /\ deleted' = IF refCnt = 1 THEN 1 ELSE 0
      BY <1>2, <1>11, <2>5, <3>1, SMTT(30) DEF Drop, ReleasePtr
    <3> QED
      BY <1>1, <1>2, <3>1, <3>3, <3>4, SMTT(30) DEF PtrInv
  <2>6. CASE ~copy[t].impl
    <3>1. Copies' = Copies /\ refCnt' = refCnt /\ deleted' = deleted /\ made' = made
      BY <1>11, <2>4, <2>6, ZenonT(60) DEF Copies, Drop, ReleasePtr
    <3> QED
      BY <1>1, <1>2, <2>2, <3>1, CountMeans, Zenon DEF PtrInv
  <2> QED
    BY <2>5, <2>6, ZenonT(60)
<1>12. ASSUME NEW t \in Callers, DropSelf(t) PROVE PtrInv'
  <2>1. (\E u \in Callers : ppc'[u] = "swapped") <=> (\E u \in Callers : ppc[u] = "swapped")
    BY <1>1, <1>12, SMTT(30) DEF PtrControl, PtrTypeOK, DropSelf
  <2>2. Own' = Own /\ Copies' = Copies
    BY <1>12, <2>1, Zenon DEF Own, Copies, DropSelf
  <2>3. self \in [Callers -> Pointer] /\ self' = [self EXCEPT ![t] = Null]
    BY <1>1, <1>12, ZenonT(60) DEF PtrControl, PtrTypeOK, DropSelf, Null, NullPointer
  <2>4. Selves' = Selves \ {t}
    BY <2>3, Zenon DEF Selves, Null
  <2>5. CASE self[t].impl
    <3>1. t \in Selves /\ refCnt > 0 /\ refCnt' = refCnt - 1 /\ made = 1
      BY <1>1, <1>2, <1>12, <2>5, HoldersCount, Zenon
         DEF Selves, DropSelf, ReleasePtr, PtrControl
    <3>2. Cardinality(Selves') = Cardinality(Selves) - 1
      BY <1>2, <2>4, <3>1, OneMore, Zenon
    <3>3. CountIsHolders'
      BY <1>2, <2>2, <3>1, <3>2, CountMeans, SMTT(30)
    <3>4. deleted = 0 /\ made' = 1 /\ deleted' = IF refCnt = 1 THEN 1 ELSE 0
      BY <1>2, <1>12, <2>5, <3>1, SMTT(30) DEF DropSelf, ReleasePtr
    <3> QED
      BY <1>1, <1>2, <3>1, <3>3, <3>4, SMTT(30) DEF PtrInv
  <2>6. CASE ~self[t].impl
    <3>1. Selves' = Selves /\ refCnt' = refCnt /\ deleted' = deleted /\ made' = made
      BY <1>12, <2>4, <2>6, Zenon DEF Selves, DropSelf, ReleasePtr
    <3> QED
      BY <1>1, <1>2, <2>2, <3>1, CountMeans, Zenon DEF PtrInv
  <2> QED
    BY <2>5, <2>6, Zenon
<1>13. CASE DestroyLazy
  <2>1. instance = Full /\ temps = 0 /\ temps' = 0 /\ instance' = Null /\ made = 1 /\ made' = 1
    BY <1>1, <1>2, <1>13, SMTT(30)
       DEF DestroyLazy, PtrControl, Making, Null, Full, NullPointer
  <2>2. ~(\E u \in Callers : ppc[u] = "swapped") /\ ~(\E u \in Callers : ppc'[u] = "swapped")
    BY <1>13, Zenon DEF DestroyLazy
  <2>3. Own = 1
    BY <2>1, <2>2, SMTT(30) DEF Own, Full
  <2>4. Own' = 0
    BY <2>1, <2>2, SMTT(30) DEF Own, Null
  <2>5. Copies' = Copies /\ Selves' = Selves
    BY <1>13, Zenon DEF DestroyLazy, Copies, Selves
  <2>6. refCnt > 0 /\ refCnt' = refCnt - 1
    BY <1>2, <1>13, <2>1, <2>3, SMTT(30) DEF DestroyLazy, ReleasePtr, Full
  <2>7. CountIsHolders'
    BY <1>2, <2>3, <2>4, <2>5, <2>6, CountMeans, SMTT(30)
  <2>8. deleted = 0 /\ deleted' = IF refCnt = 1 THEN 1 ELSE 0
    BY <1>2, <1>13, <2>1, <2>6, SMTT(30) DEF DestroyLazy, ReleasePtr, Full
  <2> QED
    BY <1>1, <1>2, <2>1, <2>6, <2>7, <2>8, SMTT(30) DEF PtrInv
<1>14. CASE UNCHANGED ptrVars
  BY <1>1, <1>14, NothingMoves, Zenon DEF ptrVars
<1> QED
  BY <1>4, <1>5, <1>6, <1>7, <1>8, <1>9, <1>10, <1>11, <1>12, <1>13, <1>14, Zenon
     DEF PtrNext, CopyUnlocked, CopyLocked

INSTANCE FiniteSetTheorems

LEMMA CallersCounted ==
    ASSUME PtrAssumption
    PROVE  CallersAreCounted
<1>1. ASSUME NEW S \in SUBSET Callers
      PROVE  IsFiniteSet(S) /\ Cardinality(S) \in Nat /\ (Cardinality(S) = 0 <=> S = {})
  <2>1. IsFiniteSet(S)
    BY FS_Subset, Zenon DEF PtrAssumption
  <2> QED
    BY <2>1, FS_CardinalityType, FS_EmptySet, Zenon
<1>2. ASSUME NEW S \in SUBSET Callers, NEW t \in Callers
      PROVE  /\ t \notin S => Cardinality(S \cup {t}) = Cardinality(S) + 1
             /\ t \in S => Cardinality(S \ {t}) = Cardinality(S) - 1
  BY <1>1, FS_AddElement, FS_RemoveElement, ZenonT(60)
<1> QED
  BY <1>1, <1>2, Zenon DEF CallersAreCounted

(* However many callers race for a lazy instance: the object is made once, *)
(* its counter counts the pointers that hold it, and it is deleted once,   *)
(* with the last of them (Lazy, SharedPointer, SharedPointerImpl).         *)
THEOREM LazyIsCounted ==
    ASSUME PtrAssumption
    PROVE  PtrSpec => [](PtrTypeOK /\ DeletedWithLast)
<1>1. PtrInit => PtrInv
  BY CallersCounted, PtrInitially, Zenon
<1>2. PtrInv /\ [PtrNext]_ptrVars => PtrInv'
  BY CallersCounted, PtrPreserved, Zenon
<1>3. PtrInv => PtrTypeOK /\ DeletedWithLast
  BY CallersCounted, PtrInvImplies, Zenon DEF DeletedWithLast
<1> QED
  BY <1>1, <1>2, <1>3, PTL DEF PtrSpec

=============================================================================
