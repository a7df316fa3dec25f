---------------------------- MODULE Connection ----------------------------
(***************************************************************************)
(* An ODBC connection handle (src/connection.cpp).  A connection is three  *)
(* things that have to agree: the configuration, the JDBC connection       *)
(* behind JNI that translates SQL and knows the schema, and the MongoDB    *)
(* client that runs the translated queries.  Connecting builds them one    *)
(* after the other, and each step may fail.                                *)
(*                                                                         *)
(* Applications reach the driver through a driver manager, which keeps a   *)
(* handle's state by what the driver returned: it refuses to connect a     *)
(* handle that is connected, and refuses everything that needs a           *)
(* connection on one that is not.  Without one (managed FALSE) the driver  *)
(* is called directly, in any order.                                       *)
(***************************************************************************)
EXTENDS Integers, Odbc

CONSTANTS
    Required,        \* the settings Validate insists on
    Names,           \* the values such a setting may have
    MaxTimeout,      \* bound: stands for INT32_MAX, the longest login timeout
    Unset,           \* the setting has no value
    Dsns             \* the data sources that are configured

LoginTimeout == "login_timeout_sec"

Settings == Required \cup {LoginTimeout}

(* config::Configuration: the settings, each set or not. *)
ValuesOf(s) == (IF s = LoginTimeout THEN 0..MaxTimeout ELSE Names) \cup {Unset}

Configurations == {c \in [Settings -> Names \cup (0..MaxTimeout) \cup {Unset}] :
                      \A s \in Settings : c[s] \in ValuesOf(s)}

ASSUME ConnectionAssumption ==
    /\ LoginTimeout \notin Required
    /\ MaxTimeout \in Nat
    /\ Unset \notin Names \cup Nat
    /\ Dsns \subseteq Configurations

NoConfiguration == [s \in Settings |-> Unset]

VARIABLES
    managed,      \* a driver manager filters the calls; never changes
    allocated,    \* the handle exists
    config,       \* config_
    jniContext,   \* jniContext_ is valid
    jdbc,         \* connection_: "NULL", or a DocumentDbConnection that is ...
    jdbcConfig,   \* the configuration the JDBC connection was opened with
    client,       \* mongoClient_: "NULL", "UNUSABLE" or "LIVE"
    clientConfig, \* the configuration it was made with
    connected,    \* the driver manager's view: the last connect succeeded
    timeoutSet,   \* the login timeout the application has set
    asked,        \* the settings it asked for in its last connect
    call,         \* the last API call
    result, recs  \* what it returned: diagnostic header and SQLSTATEs

driverVars == <<allocated, config, jniContext, jdbc, jdbcConfig, client, clientConfig>>
appVars == <<connected, timeoutSet, asked>>
vars == <<managed, driverVars, appVars, call, result, recs>>

Init ==
    /\ managed \in BOOLEAN
    /\ allocated = FALSE
    /\ config = NoConfiguration
    /\ jniContext = FALSE
    /\ jdbc = "NULL"
    /\ jdbcConfig = NoConfiguration
    /\ client = "NULL"
    /\ clientConfig = NoConfiguration
    /\ connected = FALSE
    /\ timeoutSet = Unset
    /\ asked = NoConfiguration
    /\ call = "NONE" /\ result = "SUCCESS" /\ recs = {}

(* The next call may be made. *)
Idle == allocated /\ result # "TERMINATED"

Reply(kind, res, records) == call' = kind /\ result' = res /\ recs' = records

(* A call that changes nothing but the diagnostics. *)
ReplyOnly(kind, res, records) ==
    Idle /\ Reply(kind, res, records) /\ UNCHANGED <<driverVars, appVars>>

-----------------------------------------------------------------------------
(***************************************************************************)
(* Handles (odbc.cpp, environment.cpp).                                    *)
(***************************************************************************)

(* Environment::CreateConnection *)
AllocConnect ==
    /\ ~allocated
    /\ result # "TERMINATED"
    /\ allocated' = TRUE
    /\ Reply("ALLOC", "SUCCESS", {})
    /\ UNCHANGED <<config, jniContext, jdbc, jdbcConfig, client, clientConfig, appVars>>

(* SQLFreeConnect: deregistered, closed, and all of it deleted. *)
FreeConnect ==
    /\ Idle
    /\ managed => ~connected
    /\ allocated' = FALSE
    /\ config' = NoConfiguration
    /\ jniContext' = FALSE
    /\ jdbc' = "NULL" /\ jdbcConfig' = NoConfiguration
    /\ client' = "NULL" /\ clientConfig' = NoConfiguration
    /\ connected' = FALSE /\ timeoutSet' = Unset /\ asked' = NoConfiguration
    /\ Reply("FREE", "SUCCESS", {})

-----------------------------------------------------------------------------
(***************************************************************************)
(* Configuration.                                                          *)
(***************************************************************************)

(* The first argument, filled in from the second where it is not set.      *)
(* ReadDsnConfiguration fills from a data source.                          *)
FillFrom(c, d) == [s \in Settings |-> IF c[s] = Unset THEN d[s] ELSE c[s]]

(* ConnectionStringParser::ParseConnectionString, into config: what the    *)
(* string sets replaces what was there.                                    *)
ParseConnectionString(str, c) == FillFrom(str, c)

(* Configuration::Validate.  The settings of an SSH tunnel, which it       *)
(* requires with the same SQLSTATE once a tunnel is enabled or one of them *)
(* is set, are left out.                                                   *)
IsValid(c) == \A s \in Required : c[s] # Unset

(* RetrieveTimeout; MaxTimeout + 1 stands for every value that is too big. *)
RetrieveTimeout(value) == IF value > MaxTimeout THEN MaxTimeout ELSE value

-----------------------------------------------------------------------------
(***************************************************************************)
(* Connecting.                                                             *)
(***************************************************************************)

(* What an attempt to connect leaves behind. *)
Attempt(ok, ctx, j, jc, cl, cc) ==
    [ok |-> ok, ctx |-> ctx, jdbc |-> j, jdbcConfig |-> jc, client |-> cl, clientConfig |-> cc]

(* Mutant: a client that does not answer the ping will do. *)
ConnectCPPDocumentDBUnchecked(c) ==
    {Attempt(FALSE, TRUE, "OPEN", c, client, clientConfig),
     Attempt(TRUE, TRUE, "OPEN", c, "UNUSABLE", c),
     Attempt(TRUE, TRUE, "OPEN", c, "LIVE", c)}

(* ConnectCPPDocumentDB: the URI is refused and the old client stays; the  *)
(* new client fails its ping or the version query; or it works.            *)
ConnectCPPDocumentDB(c) ==
    {Attempt(FALSE, TRUE, "OPEN", c, client, clientConfig),
     Attempt(FALSE, TRUE, "OPEN", c, "UNUSABLE", c),
     Attempt(TRUE, TRUE, "OPEN", c, "LIVE", c)}

(* GetJniContext: there is one, it is created, JVM creation fails, or      *)
(* there is no class path and with it neither a context nor an error.      *)
GetJniContext ==
    IF jniContext THEN {"OK"} ELSE {"OK", "JVM_FAILED", "NO_CLASSPATH"}

(* TryRestoreConnection: without a context the JDBC connection cannot      *)
(* open, otherwise it may fail to; the object is kept in connection_       *)
(* nonetheless.  Then the SSH tunnel's port is asked for, which may fail,  *)
(* and the client is made.                                                 *)
TryRestoreConnection(c) ==
    IF jdbc # "NULL" THEN {Attempt(TRUE, jniContext, jdbc, jdbcConfig, client, clientConfig)}
    ELSE UNION {
        CASE context = "JVM_FAILED" ->
                {Attempt(FALSE, FALSE, "NULL", jdbcConfig, client, clientConfig)}
          [] context = "NO_CLASSPATH" ->
                {Attempt(FALSE, FALSE, "CLOSED", jdbcConfig, client, clientConfig)}
          [] context = "OK" ->
                {Attempt(FALSE, TRUE, "CLOSED", jdbcConfig, client, clientConfig),
                 Attempt(FALSE, TRUE, "OPEN", c, client, clientConfig)}
                \cup ConnectCPPDocumentDB(c) : context \in GetJniContext}

(* The end of InternalEstablish: what the attempt made, and the reply. *)
Attempted(a, warnings) ==
    /\ jniContext' = a.ctx
    /\ jdbc' = a.jdbc /\ jdbcConfig' = a.jdbcConfig
    /\ client' = a.client /\ clientConfig' = a.clientConfig
    /\ connected' = a.ok
    /\ IF a.ok
       THEN Reply("CONNECT", IF warnings = {} THEN "SUCCESS" ELSE "SUCCESS_WITH_INFO", warnings)
       ELSE Reply("CONNECT", "ERROR", warnings \cup {"08001"})

(* Its early returns. *)
Refused(warnings) ==
    /\ Reply("CONNECT", "ERROR",
             warnings \cup IF jdbc # "NULL" THEN {"08002"} ELSE {"01S00"})
    /\ UNCHANGED <<jniContext, jdbc, jdbcConfig, client, clientConfig, connected>>

(* Mutant: connecting again is let through. *)
InternalEstablishAgain(c, warnings) ==
    config' = c /\ \E a \in ConnectCPPDocumentDB(c) : Attempted(a, warnings)

(* Mutant: the configuration is used and not stored. *)
InternalEstablishNotStored(c, warnings) ==
    /\ config' = config
    /\ IF jdbc # "NULL" \/ ~IsValid(c)
       THEN Refused(warnings)
       ELSE \E a \in TryRestoreConnection(c) : Attempted(a, warnings)

(* InternalEstablish of a configuration: it is stored before anything is   *)
(* checked.  warnings: the records parsing has already added.              *)
InternalEstablish(c, warnings) ==
    /\ config' = c
    /\ IF jdbc # "NULL" \/ ~IsValid(c)
       THEN Refused(warnings)
       ELSE \E a \in TryRestoreConnection(c) : Attempted(a, warnings)

(* The driver manager refuses to connect a connected handle. *)
MayConnect == Idle /\ (managed => ~connected)

(* SQLDriverConnect with a connection string and the data source it names: *)
(* the string is parsed into config, whatever is there, and the data       *)
(* source fills in the rest.                                               *)
DriverConnect(str, dsn) ==
    /\ MayConnect
    /\ asked' = FillFrom(str, FillFrom([NoConfiguration EXCEPT ![LoginTimeout] = timeoutSet], dsn))
    /\ \E warnings \in {{}, {"01S02"}} :
          InternalEstablish(FillFrom(ParseConnectionString(str, config), dsn), warnings)
    /\ UNCHANGED <<allocated, timeoutSet>>

(* The same on Windows, with a dialog that is cancelled. *)
DriverConnectCancelled(str, dsn) ==
    /\ MayConnect
    /\ config' = FillFrom(ParseConnectionString(str, config), dsn)
    /\ Reply("CONNECT", "ERROR", {"HY008"})
    /\ UNCHANGED <<allocated, jniContext, jdbc, jdbcConfig, client, clientConfig, appVars>>

(* SQLConnect: a new configuration, read from the data source. *)
Connect(dsn) ==
    /\ MayConnect
    /\ asked' = FillFrom([NoConfiguration EXCEPT ![LoginTimeout] = timeoutSet], dsn)
    /\ InternalEstablish(FillFrom(NoConfiguration, dsn), {})
    /\ UNCHANGED <<allocated, timeoutSet>>

(* Close, which does nothing without a JNI context. *)
Close == IF jniContext THEN "NULL" ELSE jdbc

(* SQLDisconnect *)
Release ==
    /\ Idle
    /\ managed => connected
    /\ connected' = FALSE
    /\ IF jdbc = "NULL"
       THEN Reply("DISCONNECT", "SUCCESS_WITH_INFO", {"08003"}) /\ UNCHANGED jdbc
       ELSE Reply("DISCONNECT", "SUCCESS", {}) /\ jdbc' = Close
    /\ UNCHANGED <<allocated, config, jniContext, jdbcConfig, client, clientConfig,
                   timeoutSet, asked>>

-----------------------------------------------------------------------------
(***************************************************************************)
(* Attributes and information.                                             *)
(***************************************************************************)

SetLoginTimeout(value) ==
    /\ Idle
    /\ config' = [config EXCEPT ![LoginTimeout] = RetrieveTimeout(value)]
    /\ timeoutSet' = IF value > MaxTimeout THEN MaxTimeout ELSE value
    /\ IF value > MaxTimeout THEN Reply("OTHER", "SUCCESS_WITH_INFO", {"01S02"})
                             ELSE Reply("OTHER", "SUCCESS", {})
    /\ UNCHANGED <<allocated, jniContext, jdbc, jdbcConfig, client, clientConfig,
                   connected, asked>>

SetAttributeError ==
    \E state \in {"HY092", "HYC00"} : ReplyOnly("OTHER", "ERROR", {state})

GetAttribute ==
    \/ ReplyOnly("OTHER", "SUCCESS", {})
    \/ \E state \in {"HY009", "HYC00"} : ReplyOnly("OTHER", "ERROR", {state})

GetInfo ==
    \/ ReplyOnly("OTHER", "SUCCESS", {})
    \/ ReplyOnly("OTHER", "ERROR", {"HYC00"})

NativeSql ==
    \/ ReplyOnly("OTHER", "SUCCESS", {})
    \/ ReplyOnly("OTHER", "SUCCESS_WITH_INFO", {"01004"})
    \/ \E state \in {"HY009", "HY090"} : ReplyOnly("OTHER", "ERROR", {state})

-----------------------------------------------------------------------------
(***************************************************************************)
(* What statements need of their connection.                               *)
(***************************************************************************)

(* GetMetaData, GetDatabaseMetadata and GetConnectionProperties answer     *)
(* only if the JDBC connection is open, and may fail then, too.            *)
JdbcAnswers == IF jdbc = "OPEN" THEN BOOLEAN ELSE {FALSE}

(* DataQuery::Execute: the JDBC connection translates the query, the       *)
(* client runs it.  The client is not checked for null.                    *)
ExecuteData ==
    /\ managed => connected
    /\ \E translated \in JdbcAnswers :
         IF ~translated THEN \E state \in {"HY000", "HYC00"} :
                                 ReplyOnly("EXECUTE", "ERROR", {state})
         ELSE IF client = "NULL" THEN ReplyOnly("EXECUTE", "TERMINATED", {})
         ELSE \/ client = "LIVE" /\ ReplyOnly("EXECUTE", "SUCCESS", {})
              \/ ReplyOnly("EXECUTE", "ERROR", {"HY000"})

Terminated == result = "TERMINATED" /\ UNCHANGED vars

-----------------------------------------------------------------------------
(* The connection strings there are, and no data source or one of Dsns. *)
Strings == Configurations

Sources == Dsns \cup {NoConfiguration}

Calls ==
    \/ AllocConnect
    \/ FreeConnect
    \/ \E str \in Strings, dsn \in Sources :
          DriverConnect(str, dsn) \/ DriverConnectCancelled(str, dsn)
    \/ \E dsn \in Sources : Connect(dsn)
    \/ Release
    \/ \E value \in 0..(MaxTimeout + 1) : SetLoginTimeout(value)
    \/ SetAttributeError
    \/ GetAttribute
    \/ GetInfo
    \/ NativeSql
    \/ ExecuteData
    \/ Terminated

Next == Calls /\ UNCHANGED managed

Spec == Init /\ [][Next]_vars

(***************************************************************************)
(* The states type-correct code can be in.                                 *)
(***************************************************************************)
TypeOK ==
    /\ managed \in BOOLEAN
    /\ allocated \in BOOLEAN /\ jniContext \in BOOLEAN /\ connected \in BOOLEAN
    /\ config \in Configurations
    /\ jdbc \in {"NULL", "CLOSED", "OPEN"} /\ jdbcConfig \in Configurations
    /\ client \in {"NULL", "UNUSABLE", "LIVE"} /\ clientConfig \in Configurations
    /\ timeoutSet \in 0..MaxTimeout \cup {Unset}
    /\ asked \in Configurations
    /\ call \in {"NONE", "ALLOC", "FREE", "CONNECT", "DISCONNECT", "EXECUTE", "OTHER"}
    /\ result \in CallResults
    /\ recs \subseteq SqlStates

(* A connection the application was told it has works as one: the JDBC     *)
(* connection is open, the client has answered, and both were made for the *)
(* same settings, however many attempts failed half way before             *)
(* (TryRestoreConnection, Close, which leaves the client alone).           *)
ConnectedIsUsable ==
    connected => jdbc = "OPEN" /\ client = "LIVE" /\ clientConfig = jdbcConfig

(* The settings statements take from the connection (GetConfiguration,     *)
(* GetSchema: the database to query) are the ones it was opened with, as   *)
(* long as a driver manager keeps connected handles from connecting again: *)
(* InternalEstablish stores the configuration before it refuses.           *)
ConfigurationIsCurrent ==
    connected => \A s \in Required : config[s] = jdbcConfig[s]

(* No statement of a connected handle runs into a client that was never    *)
(* made (DataQuery::MakeRequestFetch does not check it).                   *)
ClientIsThere == result # "TERMINATED"

(* An open JDBC connection and its client last until the application       *)
(* disconnects or frees the handle; no other call replaces them, a second  *)
(* connect least of all.                                                   *)
OnlyReleaseEndsConnection ==
    [][jdbc = "OPEN" /\ call' \notin {"DISCONNECT", "FREE"}
         => UNCHANGED <<jdbc, jdbcConfig, client, clientConfig>>]_vars

(* After SQLDisconnect the handle holds no JDBC connection, and can be     *)
(* connected again.                                                        *)
DisconnectReleases == call = "DISCONNECT" => jdbc = "NULL"

(* Below a driver manager, statements take the settings of the open        *)
(* connection, none of them runs into a client that was never made, and a  *)
(* disconnect leaves no JDBC connection behind.                            *)
ManagedHandleIsSound ==
    managed => ConfigurationIsCurrent /\ ClientIsThere /\ DisconnectReleases

(* 08002 is returned only while a connection is open, as the comment on    *)
(* S08002_ALREADY_CONNECTED says.                                          *)
AlreadyConnectedMeansOpen ==
    call = "CONNECT" /\ "08002" \in recs => jdbc = "OPEN"

(* A login timeout set with SQLSetConnectAttr is the one the connection is *)
(* opened with, unless the connection string sets another.                 *)
LoginTimeoutKept ==
    connected /\ timeoutSet # Unset /\ asked[LoginTimeout] = timeoutSet
        => jdbcConfig[LoginTimeout] = timeoutSet

(* A connection is opened with the settings of the connection string and   *)
(* of the data source it names, not with those of an earlier connection.   *)
ConnectsAsAsked == connected => \A s \in Required : jdbcConfig[s] = asked[s]
=============================================================================
