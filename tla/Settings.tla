------------------------------ MODULE Settings ------------------------------
(***************************************************************************)
(* The settings of a connection: the parser of connection strings          *)
(* (src/config/connection_string_parser.cpp, config_tools.cpp), how a data *)
(* source fills what it left open, and the connection strings made for the *)
(* two clients underneath.                                                 *)
(***************************************************************************)
EXTENDS Configuration

CONSTANTS
    Attributes,      \* the attributes connection strings are put together from
    MaxAttributes,   \* the most attributes of one string
    Sources          \* what the data source holds: functions from keys to texts

VARIABLES
    given,           \* the attributes of the connection string, in order
    rest,            \* None, or what ParseConnectionString has left to read
    cfg,             \* the configuration
    records,         \* the number of records 01S02
    dsn,             \* what the data source holds
    stage            \* parsing, parsed, filled (from the data source), saved

settingsVars == <<given, rest, cfg, records, dsn, stage>>

-----------------------------------------------------------------------------
(***************************************************************************)
(* Addresses (config_tools.cpp): a host, or a host and a port or a range.  *)
(***************************************************************************)

(* ParsePort: <<"0">> when the port is no port. *)
ParsePort(s) ==
    LET port == StripSurroundingWhitespaces(s)
    IN  IF Len(port) = 1 /\ port[1] \in Ports THEN port ELSE <<"0">>

PortNumber == [p \in Ports |-> CASE p = "1" -> 1 [] p = "4464" -> 4464 [] p = "27017" -> 27017
                                 [] p = "27018" -> 27018 [] p = "32767" -> 32767
                                 [] p = "65535" -> 65535]

ParsePortRange(s) ==
    LET dots  == RFind(s, "..")
        first == ParsePort(SubSeq(s, 1, dots - 1))
        last  == ParsePort(SubSeq(s, dots + 1, Len(s)))
    IN  CASE dots = 0 /\ "." \notin {s[i] : i \in DOMAIN s} ->
                [ok |-> ParsePort(s) # <<"0">>, port |-> ParsePort(s)]
          [] dots # 0 /\ first # <<"0">> /\ last # <<"0">>
                /\ PortNumber[first[1]] <= PortNumber[last[1]] -> [ok |-> TRUE, port |-> first]
          [] OTHER -> [ok |-> FALSE, port |-> <<"0">>]

(* A bad address leaves the parts it has set: the host before the colon,   *)
(* port 0.                                                                 *)
ParseSingleAddress(s) ==
    LET colons == {i \in DOMAIN s : s[i] = ":"}
        colon  == RFind(s, ":")
        range  == ParsePortRange(SubSeq(s, colon + 1, Len(s)))
    IN  CASE colons = {} -> [ok |-> TRUE, host |-> s, port |-> DefaultValue("port")]
          [] Cardinality(colons) > 1 -> [ok |-> FALSE, host |-> <<>>, port |-> <<"0">>]
          [] OTHER -> IF colon = Len(s)
                      THEN [ok |-> FALSE, host |-> SubSeq(s, 1, colon - 1), port |-> <<"0">>]
                      ELSE [ok |-> range.ok, host |-> SubSeq(s, 1, colon - 1),
                            port |-> range.port]

-----------------------------------------------------------------------------
(***************************************************************************)
(* HandleAttributePair: one operator per kind of value.  Each gives the    *)
(* configuration after, and the records it adds.                           *)
(***************************************************************************)

Kept(c) == [cfg |-> c, records |-> 1]

Taken(c, k, v) == [cfg |-> SetValue(c, k, v), records |-> 0]

(* Mutant: the port of the address always counts. *)
TakeAddressOver(c, a) ==
    [cfg |-> [SetValue(c, "hostname", a.host) EXCEPT !["port"] = Some(a.port)],
     records |-> IF a.ok THEN 0 ELSE 1]

(* The port of the address counts unless there is one already. *)
TakeAddress(c, a) ==
    LET h == SetValue(c, "hostname", a.host)
    IN  [cfg |-> IF IsSet(c, "port") THEN h ELSE SetValue(h, "port", a.port),
         records |-> IF a.ok THEN 0 ELSE 1]

HandleHostname(c, v) == TakeAddress(c, ParseSingleAddress(v))

HandlePort(c, v) ==
    IF Len(v) = 1 /\ v[1] \in Ports THEN Taken(c, "port", v) ELSE Kept(c)

(* No digits at all are the number 0, which is a timeout. *)
HandleLoginTimeout(c, v) ==
    IF v = <<>> \/ (Len(v) = 1 /\ v[1] \in Zero \cup Uints)
    THEN Taken(c, "login_timeout_sec", Int32(v)) ELSE Kept(c)

HandlePositive(c, k, v) ==
    IF Len(v) = 1 /\ v[1] \in Uints THEN Taken(c, k, Int32(v)) ELSE Kept(c)

StringToBool(v) ==
    CASE v \in {<<"true">>, <<"TRUE">>}   -> "TRUE"
      [] v \in {<<"false">>, <<"FALSE">>} -> "FALSE"
      [] OTHER                            -> "UNRECOGNIZED"

HandleBool(c, k, v) ==
    CASE StringToBool(v) = "TRUE"  -> Taken(c, k, <<"true">>)
      [] StringToBool(v) = "FALSE" -> Taken(c, k, <<"false">>)
      [] OTHER                     -> Kept(c)

HandleEnum(c, k, v) ==
    IF Len(v) = 1 /\ v[1] \in EnumValues[k] THEN Taken(c, k, v) ELSE Kept(c)

(* A user or password given twice is told, and taken. *)
HandleCredential(c, k, v) ==
    [cfg |-> SetValue(c, k, v), records |-> IF GetValue(c, k) # <<>> THEN 1 ELSE 0]

HandleKey(c, k, v) ==
    CASE k \in TextKeys          -> Taken(c, k, v)
      [] k = "hostname"          -> HandleHostname(c, v)
      [] k = "port"              -> HandlePort(c, v)
      [] k = "login_timeout_sec" -> HandleLoginTimeout(c, v)
      [] k \in PositiveKeys      -> HandlePositive(c, k, v)
      [] k \in BoolKeys          -> HandleBool(c, k, v)
      [] k \in EnumKeys          -> HandleEnum(c, k, v)
      [] k = "log_path"          -> [cfg |-> SetLogPath(c, v), records |-> 0]
      [] k \in Credentials       -> HandleCredential(c, k, v)
      [] OTHER                   -> Kept(c)

HandleAttributePair(c, name, v) ==
    HandleKey(c, IF Len(name) = 1 THEN KeyOf(name[1]) ELSE "unknown", v)

-----------------------------------------------------------------------------
(***************************************************************************)
(* ParseConnectionString reads the string from its end: the last separator *)
(* and the last equals sign delimit the next attribute.                    *)
(***************************************************************************)

Unbrace(v) ==
    IF v # <<>> /\ v[1] = "{" /\ v[Len(v)] = "}" THEN SubSeq(v, 2, Len(v) - 1) ELSE v

Handled(done) == cfg' = done.cfg /\ records' = records + done.records

ParseAttribute ==
    /\ stage = "parsing" /\ rest # <<>>
    /\ LET begin == RFind(rest, ";")
           eq    == RFind(rest, "=")
       IN  /\ IF begin < eq - 1
              THEN Handled(HandleAttributePair(cfg,
                        StripSurroundingWhitespaces(SubSeq(rest, begin + 1, eq - 1)),
                        Unbrace(StripSurroundingWhitespaces(SubSeq(rest, eq + 1, Len(rest))))))
              ELSE UNCHANGED <<cfg, records>>
           /\ rest' = SubSeq(rest, 1, begin - 1)
    /\ UNCHANGED <<given, dsn, stage>>

ParseEnds ==
    /\ stage = "parsing" /\ rest = <<>>
    /\ stage' = "parsed"
    /\ UNCHANGED <<given, rest, cfg, records, dsn>>

-----------------------------------------------------------------------------
(* What the connection string left open is taken from the data source. *)
FillFromDsn ==
    /\ stage = "parsed" /\ IsSet(cfg, "dsn")
    /\ \E garbage \in Garbage : cfg' = ReadDsnConfiguration(cfg, dsn, garbage)
    /\ stage' = "filled"
    /\ UNCHANGED <<given, rest, records, dsn>>

(* WriteDsnConfiguration wants a name and a driver. *)
WriteDsnConfiguration ==
    /\ stage \in {"parsed", "filled"}
    /\ IsSet(cfg, "dsn") /\ cfg["dsn"][1] # <<>> /\ GetValue(cfg, "driver") # <<>>
    /\ dsn' = RegisterDsn(cfg, dsn)
    /\ stage' = "saved"
    /\ UNCHANGED <<given, rest, cfg, records>>

-----------------------------------------------------------------------------
(***************************************************************************)
(* The connection strings made from the configuration.                     *)
(***************************************************************************)

(* One attribute of ToConnectString: a value with a space is put in braces.*)
WriteAttribute(k, v) ==
    IF " " \in {v[i] : i \in DOMAIN v} THEN <<k, "=", "{">> \o v \o <<"}", ";">>
    ELSE <<k, "=">> \o v \o <<";">>

Tunnel == {"ssh_host", "ssh_user", "ssh_private_key_file"}

Validate(c) ==
    /\ \A k \in {"hostname", "user", "password", "database"} : IsSet(c, k)
    /\ (GetValue(c, "ssh_enable") = <<"true">> \/ \E k \in Tunnel : IsSet(c, k))
          => \A k \in Tunnel : IsSet(c, k)

MongoOptions ==
    {"read_preference", "replica_set", "retry_reads", "tls", "tls_allow_invalid_hostnames",
     "tls_ca_file"}

JdbcOptions ==
    MongoOptions \cup PositiveKeys \cup
    {"login_timeout_sec", "ssh_user", "ssh_host", "ssh_private_key_file",
     "ssh_private_key_passphrase", "ssh_strict_host_key_checking", "ssh_known_hosts_file",
     "scan_method", "schema_name", "refresh_schema"}

(* The options with a value, and the value as it is written. *)
Options(c, names) == [k \in {j \in names : IsSet(c, j) /\ c[j][1] # <<>>} |-> c[k][1]]

ToJdbcConnectionString(c) ==
    [user |-> GetValue(c, "user"), password |-> GetValue(c, "password"),
     host |-> GetValue(c, "hostname"), port |-> GetValue(c, "port"),
     database |-> GetValue(c, "database"), appName |-> GetValue(c, "app_name"),
     options |-> Options(c, JdbcOptions)]

(* Seconds as milliseconds: three digits more. *)
Milliseconds(s) == s \o <<"000">>

(* With a tunnel the client talks to its end on this machine.  It signs in *)
(* to a database of its own; a login timeout of 0 is none.                 *)
ToMongoDbConnectionString(c, tunnelPort) ==
    LET timeout == GetValue(c, "login_timeout_sec")
    IN  [user |-> GetValue(c, "user"), password |-> GetValue(c, "password"),
         host |-> IF tunnelPort = None THEN GetValue(c, "hostname") ELSE <<"localhost">>,
         port |-> IF tunnelPort = None THEN GetValue(c, "port") ELSE tunnelPort[1],
         database |-> <<"admin">>, appName |-> GetValue(c, "app_name"),
         authMechanism |-> <<"SCRAM-SHA-1">>,
         connectTimeoutMS |-> IF timeout = <<"0">> THEN None ELSE Some(Milliseconds(timeout)),
         options |-> Options(c, MongoOptions)]

-----------------------------------------------------------------------------
(* The connection string the application wrote. *)
Written(attributes) ==
    FlattenSeq([i \in DOMAIN attributes |->
                   <<attributes[i].key, "=">> \o attributes[i].value
                       \o (IF i = Len(attributes) THEN <<>> ELSE <<";">>)])

SettingsInit ==
    /\ given \in BoundedSeq(Attributes, MaxAttributes)
    /\ rest = Written(given)
    /\ cfg = Unset
    /\ records = 0
    /\ dsn \in Sources
    /\ stage = "parsing"

SettingsNext == ParseAttribute \/ ParseEnds \/ FillFromDsn \/ WriteDsnConfiguration

-----------------------------------------------------------------------------
(* What one attribute alone sets. *)
Meaning(a) ==
    HandleAttributePair(Unset, <<a.key>>,
        Unbrace(StripSurroundingWhitespaces(a.value))).cfg

Sets(i, k) == Meaning(given[i])[k] # None

(* A value with a separator in it is not read as one, in braces or not,    *)
(* and of two hosts the last one gives the port.                           *)
Readable ==
    /\ \A i \in DOMAIN given : {";", "="} \cap ToSet(given[i].value) = {}
    /\ Cardinality({i \in DOMAIN given : given[i].key = "hostname"}) <= 1

MeantBy(k, all) ==
    LET own == {i \in all : given[i].key = k}
    IN  IF all = {} THEN None
        ELSE Meaning(given[Min(IF k = "port" /\ own # {} THEN own ELSE all)])[k]

Meant(k) == MeantBy(k, {i \in DOMAIN given : Sets(i, k)})

(* The attributes of a connection string mean the same in every order: of  *)
(* two for one key the first counts, a port of its own beats the port of   *)
(* the address, and a value that is no good leaves its setting alone       *)
(* (ParseConnectionString, HandleAttributePair).                           *)
GivenIsTaken ==
    stage # "parsing" /\ Readable =>
        \A k \in Keys : cfg[k] = Meant(k) \/ (Meant(k) = None /\ stage # "parsed")

(* A data source fills only what the connection string left open, and what *)
(* it fills is what it holds (ReadDsnConfiguration).                       *)
SourceFills ==
    stage = "filled" /\ Readable =>
        \A k \in Keys : Meant(k) = None /\ (k \in DOMAIN dsn => dsn[k] # <<>>) =>
            \A g \in Garbage : cfg[k] = ReadDsnValue(dsn, k, g)

(* A number that does not fit its int32_t, and the port of a bad address. *)
Lost == {Some(<<"-1">>), Some(<<"0">>)}

(* A configuration saved as a data source and read back is the same, apart *)
(* from the secrets, which are not in the data source (RegisterDsn,        *)
(* ReadDsnConfiguration).                                                  *)
SavedIsReadBack ==
    stage = "saved" =>
        /\ \A k \in Keys \ (Secrets \cup {"dsn", "driver"}) :
              cfg[k] \notin {None} \cup Lost =>
                  \A g \in Garbage : ReadDsnConfiguration(Unset, dsn, g)[k] = cfg[k]
        /\ \A k \in Secrets : IsSet(cfg, k) => k \notin DOMAIN dsn

(* What the configuration window and SQLDriverConnect hand out can be      *)
(* given back: an attribute of ToConnectString is read as the value it was *)
(* made from, with spaces or without, unless the value itself has a        *)
(* separator or stands in braces (ToConnectString, ParseConnectionString). *)
ConnectStringIsReadBack ==
    stage = "parsed" =>
        \A k \in {j \in Keys \ {"hostname"} : cfg[j] \notin {None, Some(<<>>)} \cup Lost} :
            LET v    == cfg[k][1]
                text == Front(WriteAttribute(k, v))
                back == [key |-> k, value |-> SubSeq(text, 3, Len(text))]
            IN  {";", "="} \cap ToSet(v) = {} /\ v[1] # "{" => Meaning(back)[k] = cfg[k]

(* Once Validate lets a configuration pass, the JDBC driver and the C++    *)
(* client are told the same of the settings both have, the login timeout   *)
(* among them, and what the application wrote of those only one has; the   *)
(* server is the one of the configuration, except that the C++ client goes *)
(* through a tunnel.  The JDBC driver is told of a whole tunnel or of      *)
(* none, unless a part of it was set to an empty text, which Validate      *)
(* takes for set (ToJdbcConnectionString, ToMongoDbConnectionString).      *)
ClientsAreTold ==
    stage \in {"parsed", "filled"} /\ Readable /\ Validate(cfg) =>
        \A port \in {None, Some(<<"5000">>)} :
            LET jdbc  == ToJdbcConnectionString(cfg)
                mongo == ToMongoDbConnectionString(cfg, port)
                login == IF "login_timeout_sec" \in DOMAIN jdbc.options
                         THEN jdbc.options["login_timeout_sec"] ELSE <<"0">>
            IN  /\ \A k \in JdbcOptions : Meant(k) \notin {None, Some(<<>>)} =>
                      k \in DOMAIN jdbc.options /\ jdbc.options[k] = Meant(k)[1]
                /\ \A k \in MongoOptions :
                      /\ k \in DOMAIN mongo.options <=> k \in DOMAIN jdbc.options
                      /\ k \in DOMAIN mongo.options => mongo.options[k] = jdbc.options[k]
                /\ mongo.connectTimeoutMS = IF login = <<"0">> THEN None
                                            ELSE Some(Milliseconds(login))
                /\ port = None => <<mongo.host, mongo.port>> = <<jdbc.host, jdbc.port>>
                /\ mongo.user = jdbc.user /\ mongo.password = jdbc.password
                /\ \/ Tunnel \cap DOMAIN jdbc.options \in {{}, Tunnel}
                   \/ \E k \in Tunnel : cfg[k] = Some(<<>>)
=============================================================================
