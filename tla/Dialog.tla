------------------------------- MODULE Dialog -------------------------------
(***************************************************************************)
(* The configuration window of Windows (os/win/src/system/ui/, with        *)
(* DsnConfigurationWindow, Window and CustomWindow) and its callers:       *)
(* ConfigDSN, which adds, configures and removes data sources              *)
(* (os/win/src/system_dsn.cpp), and Connection::InternalEstablish, which   *)
(* asks for what a connection string left open.                            *)
(*                                                                         *)
(* A control is named after the setting it shows.  The user works with a   *)
(* control that is visible and enabled; one action is what the user does   *)
(* and the whole of the handler of the message.  The button "..." beside   *)
(* an edit is enabled and shown with it.  While the window is being        *)
(* created its handlers do nothing (created), so creating it is one step.  *)
(***************************************************************************)
EXTENDS Configuration

CONSTANTS
    Names,       \* names of data sources
    Refused,     \* names the installer takes for none
    Attributes,  \* the other settings a request names: functions from keys to texts
    Loaded,      \* what a data source may hold: functions from keys to texts
    Typed,       \* what the user types: a function from some edits to texts
    Ticked,      \* the check boxes the user ticks
    Picked,      \* the lists the user picks from
    Failures,    \* the keys that are written when writing a data source fails
    MaxSteps     \* bound on what the user does in one window

VARIABLES
    registry,    \* the data sources: a function from names to what they hold
    before,      \* the data sources when the request came
    request,     \* None, or what is asked of the driver
    config,      \* the configuration the window was given
    pc,          \* idle, window, register, unregister, done
    text,        \* the text in each edit
    checked,     \* whether a check box is checked
    selection,   \* the index of the item of a list that is selected, from 1
    enabled,     \* whether a control is enabled
    visible,     \* whether a control is visible
    tab,         \* the tab that is selected
    prevTab,     \* prevSelectedTabIndex
    tested,      \* None, or what the last test connected with, until the next change
    saved,       \* None, or what RetrieveParameters made of the window
    steps,       \* what the user did so far
    answer       \* None, or whether the request succeeded

windowVars == <<text, checked, selection, enabled, visible, tab, prevTab>>

dialogVars == <<registry, before, request, config, pc, windowVars, tested, saved, steps, answer>>

-----------------------------------------------------------------------------
(***************************************************************************)
(* The controls.                                                           *)
(***************************************************************************)

CheckBoxes == BoolKeys

Lists == EnumKeys

Edits == Keys \ (CheckBoxes \cup Lists \cup {"driver", "ssh_private_key_passphrase"})

Browsed == {"log_path", "ssh_private_key_file", "ssh_known_hosts_file", "tls_ca_file"}

Required == {"dsn", "hostname", "port", "database"}

Buttons == {"save", "test"}

(* The controls on each tab, by the function that creates its group. *)
TlsControls == {"tls", "tls_allow_invalid_hostnames", "tls_ca_file"}

SshControls ==
    {"ssh_enable", "ssh_user", "ssh_host", "ssh_private_key_file",
     "ssh_strict_host_key_checking", "ssh_known_hosts_file"}

SchemaControls == {"scan_method", "scan_limit", "schema_name", "refresh_schema"}

LogControls == {"log_level", "log_path"}

AdditionalControls ==
    {"retry_reads", "read_preference", "app_name", "login_timeout_sec", "replica_set",
     "default_fetch_size"}

(* tabGroupControls *)
TabControls ==
    [TLS |-> TlsControls, SSH_TUNNEL |-> SshControls, SCHEMA |-> SchemaControls,
     LOGGING |-> LogControls, ADDITIONAL |-> AdditionalControls]

Tabs == DOMAIN TabControls

(* The enumerators in their order, the texts put in the lists, and what    *)
(* FromString makes of a text.                                             *)
Enumerators ==
    [read_preference |-> <<"primary", "primary_preferred", "secondary",
                           "secondary_preferred", "nearest">>,
     scan_method     |-> <<"random", "id_forward", "id_reverse", "all">>,
     log_level       |-> <<"debug", "info", "error", "off">>]

Items ==
    [read_preference |-> <<"Primary", "Primary Preferred", "Secondary",
                           "Secondary Preferred", "Nearest">>,
     scan_method     |-> <<"Random", "ID Forward", "ID Reverse", "All">>,
     log_level       |-> <<"Debug", "Info", "Error", "Off">>]

(* ToLower and SpaceToUnderscore. *)
Lowered ==
    [t \in UNION {Range(Items[k]) : k \in Lists} |->
        CASE t = "Primary" -> "primary" [] t = "Primary Preferred" -> "primary_preferred"
          [] t = "Secondary" -> "secondary" [] t = "Secondary Preferred" -> "secondary_preferred"
          [] t = "Nearest" -> "nearest" [] t = "Random" -> "random"
          [] t = "ID Forward" -> "id_forward" [] t = "ID Reverse" -> "id_reverse"
          [] t = "All" -> "all" [] t = "Debug" -> "debug" [] t = "Info" -> "info"
          [] t = "Error" -> "error" [] t = "Off" -> "off"]

FromString(k, t) == IF Lowered[t] \in EnumValues[k] THEN Lowered[t] ELSE "unknown"

-----------------------------------------------------------------------------
(***************************************************************************)
(* Window: a disabled control has no text and is not checked.              *)
(***************************************************************************)

GetText(k) == IF enabled[k] THEN text[k] ELSE <<>>

HasText(k) == GetText(k) # <<>>

IsChecked(en, ch, k) == en[k] /\ ch[k]

ItemOf(k) == Items[k][selection[k]]

(* std::wcstol: nothing is 0. *)
IsPositive(t) == t \notin {<<>>, <<"0">>}

(* Whether the buttons are to be enabled, by the texts. *)
IsValidForSave(en, t, credentials) ==
    /\ \A k \in Required : en[k] /\ t[k] # <<>>
    /\ credentials => \A k \in Credentials : en[k] /\ t[k] # <<>>
    /\ IsPositive(t["port"])

ValidateForTest(en, t) == \A k \in Required \cup Credentials : en[k] /\ t[k] # <<>>

SetButtons(en, t, credentials) ==
    [en EXCEPT !["save"] = IsValidForSave(en, t, credentials),
               !["test"] = ValidateForTest(en, t)]

(* What the handlers of the check boxes and lists enable. *)
EnableTls(en, ch) ==
    [en EXCEPT !["tls_allow_invalid_hostnames"] = IsChecked(en, ch, "tls"),
               !["tls_ca_file"] = IsChecked(en, ch, "tls")]

EnableKnownHosts(en, ch) ==
    [en EXCEPT !["ssh_known_hosts_file"] =
        IsChecked(en, ch, "ssh_enable") /\ IsChecked(en, ch, "ssh_strict_host_key_checking")]

EnableSsh(en, ch) ==
    LET on == IsChecked(en, ch, "ssh_enable")
    IN  EnableKnownHosts([en EXCEPT !["ssh_user"] = on, !["ssh_host"] = on,
                                    !["ssh_private_key_file"] = on,
                                    !["ssh_strict_host_key_checking"] = on], ch)

EnableLogPath(en, item) ==
    [en EXCEPT !["log_path"] = FromString("log_level", item) # "off"]

EnableScanLimit(en, item) ==
    [en EXCEPT !["scan_limit"] = FromString("scan_method", item) # "all"]

-----------------------------------------------------------------------------
(***************************************************************************)
(* RetrieveParameters: what the window shows, written into a               *)
(* configuration.  A number that is not there is any number.               *)
(***************************************************************************)

(* LexicalCast< int16_t > *)
LexicalCast16(s, garbage) ==
    IF LexicalCast(s, garbage) \in {<<"65535">>, <<"70000">>, <<"2147483647">>} THEN <<"32767">>
    ELSE LexicalCast(s, garbage)

PositiveOr(v, default) == IF v \in {<<"0">>, <<"-1">>} THEN default ELSE v

NotNegativeOr(v, default) == IF v = <<"-1">> THEN default ELSE v

RetrieveEdit(k, garbage) ==
    CASE k = "dsn"               -> StripSurroundingWhitespaces(GetText(k))
      [] k = "port"              -> PositiveOr(LexicalCast16(GetText(k), garbage), DefaultValue(k))
      [] k \in PositiveKeys      -> PositiveOr(LexicalCast(GetText(k), garbage), DefaultValue(k))
      [] k = "login_timeout_sec" -> NotNegativeOr(LexicalCast(GetText(k), garbage), DefaultValue(k))
      [] k = "schema_name"       -> IF HasText(k) THEN GetText(k) ELSE DefaultValue(k)
      [] OTHER                   -> GetText(k)

RetrieveParameters(c, garbage) ==
    LET all == [k \in Keys |->
            CASE k \in Edits      -> Some(RetrieveEdit(k, garbage))
              [] k \in CheckBoxes -> Some(IF IsChecked(enabled, checked, k) THEN <<"true">>
                                          ELSE <<"false">>)
              [] k \in Lists      -> IF k = "log_level" /\ FromString(k, ItemOf(k)) = "unknown"
                                     THEN c[k] ELSE Some(<<FromString(k, ItemOf(k))>>)
              [] k = "ssh_private_key_passphrase" -> Some(<<>>)
              [] k = "driver"     -> c[k]]
    IN  [all EXCEPT !["log_path"] = SetLogPath(c, GetText("log_path"))["log_path"]]

(* What a connection string without the empty settings, read by a driver   *)
(* that knows the data source, amounts to (ToConnectString,                *)
(* InternalEstablish).                                                     *)
Connected(c, garbage) ==
    LET given == [k \in Keys |-> IF IsSet(c, k) /\ c[k] # Some(<<>>) THEN c[k] ELSE None]
        name  == GetValue(c, "dsn")
    IN  IF name \in DOMAIN registry /\ IsSet(given, "dsn")
        THEN ReadDsnConfiguration(given, registry[name], garbage) ELSE given

-----------------------------------------------------------------------------
(***************************************************************************)
(* The requests.                                                           *)
(***************************************************************************)

(* OnCreate and the functions that create its groups. *)
OnCreate(c, credentials) ==
    LET show == [k \in Edits |-> GetValue(c, k)]
        tick == [k \in CheckBoxes |-> GetValue(c, k) = <<"true">>]
        pick == [k \in Lists |-> SelectInSeq(Enumerators[k], LAMBDA v : <<v>> = GetValue(c, k))]
        all  == [k \in Edits \cup CheckBoxes \cup Lists \cup Buttons |-> TRUE]
        on   == EnableScanLimit(
                    EnableLogPath(EnableSsh(EnableTls(all, tick), tick),
                                  Items["log_level"][pick["log_level"]]),
                    Items["scan_method"][pick["scan_method"]])
    IN  /\ text' = show /\ checked' = tick /\ selection' = pick
        /\ enabled' = SetButtons(on, show, credentials)
        /\ visible' = [k \in UNION {TabControls[t] : t \in Tabs} |-> k \in TabControls["TLS"]]
        /\ tab' = "TLS" /\ prevTab' = "TLS"

Request(kind, name, window) == [kind |-> kind, name |-> name, window |-> window]

Credentialed == request.kind = "CONNECT"

(* What the request names and what is known of it; a connection string     *)
(* and a request to configure are completed from the data source.          *)
Known(kind, name, attributes, garbage) ==
    LET named == [k \in Keys |-> CASE k = "dsn" -> Some(name)
                                   [] k \in DOMAIN attributes -> Some(attributes[k])
                                   [] OTHER -> None]
    IN  IF kind \in {"CONFIG", "CONNECT"} /\ name \in DOMAIN registry
        THEN ReadDsnConfiguration(named, registry[name], garbage) ELSE named

(* External: what the installer takes for the name of a data source. *)
SQLValidDSN(name) == name \notin Refused

(* DisplayConnectionWindow: without a window above it nothing is asked,    *)
(* and what is known is taken.  A connection string is not asked for a     *)
(* valid name.                                                             *)
ConfigDSN(kind, name, attributes, window) ==
    /\ pc = "idle"
    /\ kind = "CONNECT" => window
    /\ request' = Request(kind, name, window)
    /\ before' = registry
    /\ \E garbage \in Garbage : config' = Known(kind, name, attributes, garbage)
    /\ IF kind # "CONNECT" /\ ~SQLValidDSN(name)
       THEN pc' = "done" /\ answer' = Some(FALSE) /\ UNCHANGED windowVars
       ELSE /\ UNCHANGED answer
            /\ IF kind = "REMOVE" THEN pc' = "unregister" /\ UNCHANGED windowVars
               ELSE IF window THEN pc' = "window" /\ OnCreate(config', kind = "CONNECT")
               ELSE pc' = "register" /\ UNCHANGED windowVars
    /\ UNCHANGED <<registry, tested, saved, steps>>

(* What the user can work with. *)
Usable(k) ==
    /\ pc = "window" /\ steps < MaxSteps
    /\ enabled[k]
    /\ k \in DOMAIN visible => visible[k]

(* The window changed: what was tested before is not what it shows. *)
Stepped == steps' = steps + 1 /\ tested' = None

callVars == <<registry, before, request, config, pc, saved, answer>>

(* The handlers of the edits; those of the other edits only show a tip. *)
Type(k, t) ==
    /\ Usable(k) /\ text[k] # t
    /\ text' = [text EXCEPT ![k] = t]
    /\ enabled' = IF k \in Required \cup Credentials THEN SetButtons(enabled, text', Credentialed)
                  ELSE enabled
    /\ Stepped
    /\ UNCHANGED <<callVars, checked, selection, visible, tab, prevTab>>

(* The button beside an edit: a file or a directory is chosen, or none. *)
Browse(k, t) ==
    /\ k \in Browsed /\ Usable(k) /\ text[k] # t
    /\ text' = [text EXCEPT ![k] = t]
    /\ Stepped
    /\ UNCHANGED <<callVars, checked, selection, enabled, visible, tab, prevTab>>

(* The handlers of the check boxes. *)
Tick(k) ==
    /\ Usable(k)
    /\ checked' = [checked EXCEPT ![k] = ~IsChecked(enabled, checked, k)]
    /\ enabled' = CASE k = "tls" -> EnableTls(enabled, checked')
                    [] k = "ssh_enable" -> EnableSsh(enabled, checked')
                    [] k = "ssh_strict_host_key_checking" -> EnableKnownHosts(enabled, checked')
                    [] OTHER -> enabled
    /\ Stepped
    /\ UNCHANGED <<callVars, text, selection, visible, tab, prevTab>>

(* The handlers of the lists. *)
Pick(k, i) ==
    /\ Usable(k) /\ selection[k] # i
    /\ selection' = [selection EXCEPT ![k] = i]
    /\ enabled' = CASE k = "log_level" -> EnableLogPath(enabled, Items[k][i])
                    [] k = "scan_method" -> EnableScanLimit(enabled, Items[k][i])
                    [] OTHER -> enabled
    /\ Stepped
    /\ UNCHANGED <<callVars, text, checked, visible, tab, prevTab>>

(* OnSelectedTabChange with SetTabGroupVisible. *)
SelectTab(t) ==
    /\ pc = "window" /\ steps < MaxSteps
    /\ tab' = t
    /\ IF t = prevTab THEN UNCHANGED <<visible, prevTab>>
       ELSE /\ visible' = [k \in DOMAIN visible |->
                              IF k \in TabControls[t] THEN TRUE
                              ELSE IF k \in TabControls[prevTab] THEN FALSE ELSE visible[k]]
            /\ prevTab' = t
    /\ UNCHANGED <<callVars, text, checked, selection, enabled, tested, steps>>

(* TestConnection: a configuration of its own is filled and connected      *)
(* with; whether that succeeds changes nothing here.                       *)
TestConnection ==
    /\ pc = "window" /\ enabled["test"]
    /\ \E garbage \in Garbage :
          tested' = Some(Connected(RetrieveParameters(Unset, garbage), garbage))
    /\ UNCHANGED <<callVars, windowVars, steps>>

(* The buttons that close the window, and what its callers do then. *)
Save ==
    /\ pc = "window" /\ enabled["save"]
    /\ \E garbage \in Garbage : saved' = Some(RetrieveParameters(config, garbage))
    /\ config' = saved'[1]
    /\ IF Credentialed THEN pc' = "done" /\ answer' = Some(TRUE)
       ELSE pc' = "register" /\ UNCHANGED answer
    /\ UNCHANGED <<registry, before, request, windowVars, tested, steps>>

Cancel ==
    /\ pc = "window"
    /\ pc' = "done" /\ answer' = Some(FALSE)
    /\ UNCHANGED <<registry, before, request, config, windowVars, tested, saved, steps>>

-----------------------------------------------------------------------------
(* InternalRegisterDsn.  RegisterDsn writes the section and then the       *)
(* values one by one, in the order of the map, and stops at the first that *)
(* is refused; SQLWriteDSNToIni refuses a name that is none, and may keep  *)
(* what a section held or begin it anew.                                   *)
Section(name) == IF name \in DOMAIN registry THEN {registry[name], <<>>} ELSE {<<>>}

SetSection(name, d) == [n \in DOMAIN registry \cup {name} |-> IF n = name THEN d ELSE registry[n]]

Registered ==
    LET name == GetValue(config, "dsn")
    IN  /\ name # <<>>
        /\ \E d \in Section(name) : registry' = SetSection(name, RegisterDsn(config, d))
        /\ IF request.kind = "CONFIG" /\ name # request.name
           THEN pc' = "unregister" /\ UNCHANGED answer
           ELSE pc' = "done" /\ answer' = Some(TRUE)

RegisterFails ==
    LET name == GetValue(config, "dsn")
        Only(keys) == [k \in Keys |-> IF k \in keys THEN config[k] ELSE None]
    IN  /\ \/ UNCHANGED registry
           \/ \E d \in Section(name), keys \in Failures :
                  name # <<>> /\ registry' = SetSection(name, RegisterDsn(Only(keys), d))
        /\ pc' = "done" /\ answer' = Some(FALSE)

InternalRegisterDsn ==
    /\ pc = "register"
    /\ Registered \/ RegisterFails
    /\ UNCHANGED <<before, request, config, windowVars, tested, saved, steps>>

(* InternalUnregisterDsn, of the data source that was named. *)
InternalUnregisterDsn ==
    /\ pc = "unregister"
    /\ pc' = "done"
    /\ \/ /\ registry' = [n \in DOMAIN registry \ {request.name} |-> registry[n]]
          /\ answer' = Some(TRUE)
       \/ UNCHANGED registry /\ answer' = Some(FALSE)
    /\ UNCHANGED <<before, request, config, windowVars, tested, saved, steps>>

-----------------------------------------------------------------------------
DialogInit ==
    /\ registry \in UNION {[names -> Loaded] : names \in SUBSET Names}
    /\ before = registry
    /\ request = None /\ config = Unset /\ pc = "idle"
    /\ text = [k \in Edits |-> <<>>]
    /\ checked = [k \in CheckBoxes |-> FALSE]
    /\ selection = [k \in Lists |-> 1]
    /\ enabled = [k \in Edits \cup CheckBoxes \cup Lists \cup Buttons |-> FALSE]
    /\ visible = [k \in UNION {TabControls[t] : t \in Tabs} |-> FALSE]
    /\ tab = "TLS" /\ prevTab = "TLS"
    /\ tested = None /\ saved = None /\ steps = 0 /\ answer = None

DialogNext ==
    \/ \E kind \in {"ADD", "CONFIG", "REMOVE", "CONNECT"}, name \in Names \cup Refused,
          attributes \in Attributes, window \in BOOLEAN :
          ConfigDSN(kind, name, attributes, window)
    \/ \E k \in DOMAIN Typed : \E t \in Typed[k] : Type(k, t) \/ Browse(k, t)
    \/ \E k \in Ticked : Tick(k)
    \/ \E k \in Picked : \E i \in DOMAIN Items[k] : Pick(k, i)
    \/ \E t \in Tabs : SelectTab(t)
    \/ TestConnection \/ Save \/ Cancel
    \/ InternalRegisterDsn \/ InternalUnregisterDsn

-----------------------------------------------------------------------------
(* The buttons are never stale: whatever was typed, ticked or picked, Save *)
(* can be pressed exactly when a valid data source would be saved and Test *)
(* exactly when a connection can be tried (OnMessage, IsValidForSave).     *)
ButtonsAreFresh ==
    pc = "window" =>
        /\ enabled["save"] <=> IsValidForSave(enabled, text, Credentialed)
        /\ enabled["test"] <=> ValidateForTest(enabled, text)

Chosen(k) == Enumerators[k][selection[k]]

(* What depends on another control is enabled exactly when that one says   *)
(* so, in whichever order they were changed, and the controls that are     *)
(* visible are those of the tab (the handlers of check boxes and lists,    *)
(* OnSelectedTabChange).                                                   *)
ControlsFollow ==
    pc = "window" =>
        /\ \A k \in {"tls_ca_file", "tls_allow_invalid_hostnames"} : enabled[k] <=> checked["tls"]
        /\ \A k \in {"ssh_user", "ssh_host", "ssh_private_key_file",
                     "ssh_strict_host_key_checking"} : enabled[k] <=> checked["ssh_enable"]
        /\ enabled["ssh_known_hosts_file"] <=>
               checked["ssh_enable"] /\ checked["ssh_strict_host_key_checking"]
        /\ enabled["log_path"] <=> Chosen("log_level") # "off"
        /\ enabled["scan_limit"] <=> Chosen("scan_method") # "all"
        /\ \A k \in DOMAIN visible : visible[k] <=> k \in TabControls[tab]

(* The numbers the window can save as they are. *)
Fits(k) ==
    CASE k = "port" -> text[k] \notin {<<>>, <<"0">>, <<"65535">>, <<"70000">>}
      [] k \in PositiveKeys -> text[k] \notin {<<>>, <<"0">>}
      [] k = "login_timeout_sec" -> text[k] \notin {<<>>, <<"-1">>}
      [] k = "schema_name" -> text[k] # <<>>
      [] k = "log_path" -> text[k] \in Directories
      [] OTHER -> TRUE

(* What is enabled is saved as it is shown, the other settings keep no     *)
(* value of another control, and what the test connected with is what is   *)
(* saved, but for empty settings, which the data source fills              *)
(* (RetrieveParameters, TestConnection).                                   *)
SavedIsShown ==
    /\ saved # None =>
          /\ \A k \in Edits \ {"dsn"} : enabled[k] /\ Fits(k) => saved[1][k] = Some(text[k])
          /\ \A k \in CheckBoxes : (saved[1][k] = Some(<<"true">>)) <=> enabled[k] /\ checked[k]
          /\ \A k \in Lists : saved[1][k] = Some(<<Chosen(k)>>)
          /\ saved[1]["dsn"] = Some(StripSurroundingWhitespaces(text["dsn"]))
    /\ tested # None =>
          \A k \in (Edits \cup CheckBoxes \cup Lists) \ {"log_path"} :
              \E g \in Garbage :
                  LET v == RetrieveParameters(config, g)[k]
                  IN  saved = None /\ v # Some(<<>>) => tested[1][k] = v

(* A data source that holds the whole configuration, and no secret. *)
Holds(name) ==
    /\ name \in DOMAIN registry
    /\ \A k \in Keys \ ({"dsn", "driver"} \cup Secrets) :
          IsSet(config, k) => k \in DOMAIN registry[name] /\ registry[name][k] = config[k][1]
    /\ \A k \in Secrets : IsSet(config, k) => k \notin DOMAIN registry[name]

(* ConfigDSN touches no data source but the one named and the one written, *)
(* none at all before Save; it says TRUE only when the data source is      *)
(* wholly there; and a data source that is renamed is removed only after   *)
(* the new one holds everything, wherever registering stops.               *)
SourcesAreSafe ==
    LET name == GetValue(config, "dsn") IN
    pc # "idle" =>
        /\ pc = "window" \/ (request.window /\ saved = None /\ request.kind # "REMOVE")
              => registry = before
        /\ \A n \in DOMAIN before \ {name, request.name} :
              n \in DOMAIN registry /\ registry[n] = before[n]
        /\ request.kind \in {"ADD", "CONFIG"} =>
              /\ answer = Some(TRUE) => Holds(name)
              /\ request.name \in DOMAIN before \ DOMAIN registry => Holds(name)
=============================================================================
