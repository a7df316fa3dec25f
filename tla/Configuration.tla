--------------------------- MODULE Configuration ---------------------------
(***************************************************************************)
(* The configuration of a connection (src/config/configuration.cpp) and    *)
(* the data sources it is kept in (src/dsn_config.cpp).                    *)
(*                                                                         *)
(* A text is a sequence of words: a key, a separator, a space, a number or *)
(* a part of a name are one word each.  A setting is None or Some(text).   *)
(***************************************************************************)
EXTENDS Integers, Sequences, FiniteSets, SequencesExt, FiniteSetsExt, Jni

(***************************************************************************)
(* Texts.                                                                  *)
(***************************************************************************)

RFind(s, c) == Max({i \in DOMAIN s : s[i] = c} \cup {0})

StripSurroundingWhitespaces(s) ==
    LET solid == {i \in DOMAIN s : s[i] # " "}
    IN  IF solid = {} THEN <<>> ELSE SubSeq(s, Min(solid), Max(solid))

(* Numbers, by what the code tells apart: 0, ports, numbers of 31 bits,    *)
(* numbers of 32 bits and larger ones.                                     *)
Zero == {"0"}

Ports == {"1", "4464", "27017", "27018", "32767", "65535"}

Ints == Ports \cup {"70000", "2147483647"}

Uints == Ints \cup {"4294967295"}

Digits == Zero \cup Uints \cup {"9999999999"}

AllDigits(s) == \A i \in DOMAIN s : s[i] \in Digits

(* static_cast< int32_t > of a number of 32 bits, and to a uint16_t. *)
Int32(s) == IF s = <<>> THEN <<"0">> ELSE IF s = <<"4294967295">> THEN <<"-1">> ELSE s

Uint16(s) ==
    CASE s = <<"70000">>      -> <<"4464">>
      [] s = <<"2147483647">> -> <<"65535">>
      [] OTHER                -> s

(* LexicalCast: what is no number is 0, what is too large the largest int, *)
(* and an empty text leaves the result uninitialised: any number.          *)
Garbage == {<<"0">>, <<"65535">>}

LexicalCast(s, garbage) ==
    LET one == Len(s) = 1
    IN  CASE s = <<>> -> garbage
          [] one /\ s[1] \in Zero \cup Ints \cup {"-1"} -> s
          [] one /\ s[1] \in Digits \ (Zero \cup Ints)  -> <<"2147483647">>
          [] OTHER                                      -> <<"0">>

-----------------------------------------------------------------------------
(***************************************************************************)
(* The keys, by the way their values are read.                             *)
(***************************************************************************)

TextKeys ==
    {"dsn", "driver", "database", "app_name", "replica_set", "tls_ca_file", "ssh_user",
     "ssh_host", "ssh_private_key_file", "ssh_private_key_passphrase",
     "ssh_known_hosts_file", "schema_name"}

Credentials == {"user", "password"}

BoolKeys ==
    {"tls", "tls_allow_invalid_hostnames", "retry_reads", "ssh_enable",
     "ssh_strict_host_key_checking", "refresh_schema"}

EnumValues ==
    [read_preference |-> {"primary", "primary_preferred", "secondary",
                          "secondary_preferred", "nearest"},
     scan_method     |-> {"random", "id_forward", "id_reverse", "all"},
     log_level       |-> {"debug", "info", "error", "off"}]

EnumKeys == DOMAIN EnumValues

PositiveKeys == {"scan_limit", "default_fetch_size"}

Keys == TextKeys \cup Credentials \cup BoolKeys \cup EnumKeys \cup PositiveKeys
            \cup {"hostname", "port", "login_timeout_sec", "log_path"}

(* uid and pwd are other names of user and password. *)
KeyOf(k) == CASE k = "uid" -> "user" [] k = "pwd" -> "password" [] OTHER -> k

(* The defaults of Configuration; the rest are empty texts. *)
DefaultValue(k) ==
    CASE k = "dsn"                -> <<"DocumentDB DSN">>
      [] k = "driver"             -> <<"Amazon DocumentDB">>
      [] k = "port"               -> <<"27017">>
      [] k = "app_name"           -> <<"Amazon DocumentDB ODBC Driver">>
      [] k \in {"tls", "retry_reads", "ssh_strict_host_key_checking"} -> <<"true">>
      [] k \in {"tls_allow_invalid_hostnames", "refresh_schema", "ssh_enable"} -> <<"false">>
      [] k = "scan_method"        -> <<"random">>
      [] k = "scan_limit"         -> <<"1000">>
      [] k = "schema_name"        -> <<"_default">>
      [] k = "log_level"          -> <<"error">>
      [] k = "log_path"           -> <<"home">>
      [] k = "login_timeout_sec"  -> <<"0">>
      [] k = "read_preference"    -> <<"primary">>
      [] k = "default_fetch_size" -> <<"2000">>
      [] OTHER                    -> <<>>

(* SettableValue, and the getters and setters made of it. *)
IsSet(c, k) == c[k] # None

GetValue(c, k) == IF IsSet(c, k) THEN c[k][1] ELSE DefaultValue(k)

SetValue(c, k, v) == [c EXCEPT ![k] = Some(v)]

Unset == [k \in Keys |-> None]

(* common::IsValidDirectory *)
Directories == {<<"home">>, <<"dir">>}

(* SetLogPath ignores what is no directory. *)
SetLogPath(c, v) == IF v \in Directories THEN SetValue(c, "log_path", v) ELSE c

-----------------------------------------------------------------------------
(***************************************************************************)
(* Data sources.  ReadDsnString gives None for a key that is not there.    *)
(***************************************************************************)

ReadDsnString(d, k) == IF k \in DOMAIN d THEN Some(d[k]) ELSE None

ReadDsnInt(d, k, garbage) ==
    IF k \notin DOMAIN d THEN None ELSE Some(LexicalCast(d[k], garbage))

(* Only "true" is true. *)
ReadDsnBool(d, k) ==
    IF k \notin DOMAIN d THEN None ELSE Some(IF d[k] = <<"true">> THEN d[k] ELSE <<"false">>)

ReadDsnEnum(d, k) ==
    IF k \notin DOMAIN d THEN None
    ELSE Some(IF Len(d[k]) = 1 /\ d[k][1] \in EnumValues[k] THEN d[k] ELSE DefaultValue(k))

Positive(v) == v # None /\ v[1][1] \in Ints

ReadDsnValue(d, k, garbage) ==
    CASE k \in {"dsn", "driver"}        -> None
      [] k \in BoolKeys                 -> ReadDsnBool(d, k)
      [] k \in EnumKeys                 -> ReadDsnEnum(d, k)
      [] k \in PositiveKeys             -> IF Positive(ReadDsnInt(d, k, garbage)) THEN ReadDsnInt(d, k, garbage)
                                           ELSE None
      [] k = "login_timeout_sec"        -> ReadDsnInt(d, k, garbage)
      [] k = "port"                     -> IF ReadDsnInt(d, k, garbage) = None THEN None
                                           ELSE Some(Uint16(ReadDsnInt(d, k, garbage)[1]))
      [] k = "log_path"                 -> IF ReadDsnString(d, k) # None
                                              /\ d[k] \in Directories THEN Some(d[k]) ELSE None
      [] OTHER                          -> ReadDsnString(d, k)

(* What the connection string left open is taken from the data source. *)
ReadDsnConfiguration(c, d, garbage) ==
    [k \in Keys |-> IF IsSet(c, k) THEN c[k] ELSE ReadDsnValue(d, k, garbage)]

(* ToMap: the settings that are set. *)
ToMap(c) == [k \in {j \in Keys : IsSet(c, j)} |-> c[k][1]]

Secrets == Credentials \cup {"ssh_private_key_passphrase"}

(* RegisterDsn writes the settings and removes the secrets; a setting that *)
(* is not set stays what it was.                                           *)
RegisterDsn(c, d) ==
    LET written == DOMAIN ToMap(c) \ ({"dsn", "driver"} \cup Secrets)
        removed == DOMAIN ToMap(c) \cap Secrets
    IN  [k \in written \cup (DOMAIN d \ removed) |-> IF k \in written THEN c[k][1] ELSE d[k]]
=============================================================================
