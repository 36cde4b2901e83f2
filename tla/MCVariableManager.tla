-------------------------- MODULE MCVariableManager --------------------------
EXTENDS VariableManager
CONSTANTS s1

\* Part of the registry, in its order: shared keys, a volatile variable, one without
\* default, one with an instance, one that needs a reboot, read-only and write-only ones.
MCRegistry ==
    In("AlignedDataCtrlr", <<Var("Enabled", "boolean", RW, P, "false")>>) \o
    In("AuthCtrlr", <<
        Var("Enabled", "boolean", RW, P, "true"),
        Var("AuthorizeRemoteStart", "boolean", RW, V, "true")>>) \o
    In("ClockCtrlr", <<Var("TimeZone", "string", RW, P, "")>>) \o
    In("DeviceDataCtrlr", <<
        [Var("BytesPerMessage", "integer", RO, P, "8192")
           EXCEPT !.min = 1, !.max = 65535, !.positive = TRUE]>>) \o
    In("OCPPCommCtrlr", <<
        [Var("HeartbeatInterval", "integer", RW, P, "60")
           EXCEPT !.min = 1, !.max = 86400, !.maxLength = 10, !.positive = TRUE],
        [Var("WebSocketPingInterval", "integer", RW, P, "30")
           EXCEPT !.min = 0, !.allowZero = TRUE],
        [Var("MessageAttempts", "integer", RW, P, "3")
           EXCEPT !.instance = "TransactionEvent", !.min = 1, !.max = 10, !.positive = TRUE]>>) \o
    In("SecurityCtrlr", <<
        Var("BasicAuthPassword", "string", WO, P, ""),
        [Var("OrganizationName", "string", RW, P, "ChangeMeOrg")
           EXCEPT !.maxLength = 128, !.rebootRequired = TRUE]>>)

\* It is a part of the registry.
ASSUME RegistryPart == MCRegistry = SelectSeq(VariableRegistry, LAMBDA m :
    \E i \in DOMAIN MCRegistry : KeyOf(m) = KeyOf(MCRegistry[i]))

Num(text, n) == [text |-> text, length |-> 2, form |-> "integer", number |-> n,
                 members |-> <<text>>, isDate |-> FALSE, isUrl |-> FALSE]
Word(text) == [Num(text, 0) EXCEPT !.form = "other", !.length = 4]
Long == [Word("Long") EXCEPT !.length = 9]
Empty == [Word("") EXCEPT !.length = 0]
MCRaws == {Num("0", 0), Num("30", 30), Num("60", 60), Num("3", 3), Num("5", 5),
           Num("8", 8), Num("8192", 8192), Num("25", 25), Num("32", 32), Word("true"), Word("false"),
           Word("Acme"), Word("now"), Long, Empty}

Item(component, variable, instance, raw) ==
    [component |-> component, componentInstance |-> "", variable |-> variable,
     exact |-> TRUE, variableInstance |-> instance, attribute |-> "Actual", raw |-> raw]
Heartbeat(raw) == Item("OCPPCommCtrlr", "HeartbeatInterval", "", raw)
Ping(raw) == Item("OCPPCommCtrlr", "WebSocketPingInterval", "", raw)
InOtherLetters(item) == [item EXCEPT !.exact = FALSE]
Auth(raw) == Item("AuthCtrlr", "Enabled", "", raw)
Attempts(raw) == Item("OCPPCommCtrlr", "MessageAttempts", "TransactionEvent", raw)
Remote(raw) == Item("AuthCtrlr", "AuthorizeRemoteStart", "", raw)
Organization(raw) == Item("SecurityCtrlr", "OrganizationName", "", raw)

MCSetRequests ==
    {<<Heartbeat(Num("30", 30)), Heartbeat(Num("60", 60))>>, <<Heartbeat(Num("30", 30))>>,
     <<Ping(Num("0", 0)), Auth(Word("true"))>>,
     <<Attempts(Num("3", 3)), Remote(Word("false"))>>,
     <<InOtherLetters(Heartbeat(Num("30", 30)))>>,
     <<Organization(Word("Acme")), Organization(Long)>>, <<Organization(Empty)>>, <<Heartbeat(Num("0", 0)), Ping(Word("now"))>>,
     <<Item("ClockCtrlr", "TimeZone", "", Word("Acme")),
       Item("SecurityCtrlr", "BasicAuthPassword", "", Word("Acme"))>>,
     <<Item("DeviceDataCtrlr", "BytesPerMessage", "", Num("30", 30)),
       Item("AlignedDataCtrlr", "Enabled", "", Word("true"))>>,
     <<Ping(Num("60", 60)), Auth(Word("false")), Attempts(Num("5", 5))>>,
     <<Ping(Num("60", 60)), Auth(Word("false")), Attempts(Num("5", 5)), Remote(Word("true"))>>,
     <<Item("TxCtrlr", "Enabled", "", Word("true")), [Auth(Word("true")) EXCEPT !.attribute = "Target"]>>}
MCGetRequests ==
    {<<Attempts(Empty), Auth(Empty)>>, <<Item("SecurityCtrlr", "BasicAuthPassword", "", Empty)>>}

MCTemplateKeys == [k \in {Key("HeartbeatInterval"), Key("ConfigurationValueSize"), Key("BytesPerMessage")} |->
    CASE k = Key("HeartbeatInterval") -> "0" [] k = Key("ConfigurationValueSize") -> "8"
      [] k = Key("BytesPerMessage") -> "25"]

\* The whole registry is what the manager relies on, and no two entries share a name.
ASSUME RegistryWellFormed == WellFormed(VariableRegistry)
ASSUME RegistryNames == \A i, j \in DOMAIN VariableRegistry :
    KeyOf(VariableRegistry[i]) = KeyOf(VariableRegistry[j]) => i = j
=============================================================================
