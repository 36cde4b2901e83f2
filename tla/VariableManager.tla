--------------------------- MODULE VariableManager ---------------------------
(***************************************************************************)
(* Variables of OCPP 2.0.1 stations and their persistence: SetVariables    *)
(* and GetVariables of OCPP20IncomingRequestService.ts, the singleton      *)
(* OCPP20VariableManager, the configuration keys of a station and the      *)
(* configuration file it keeps across restarts (saveConfiguration with its *)
(* hash, its lock and the shared LRU cache).                               *)
(*                                                                         *)
(* The stations are those of one worker thread.  A request is handled in   *)
(* one synchronous piece and the writes of the file it asks for are        *)
(* microtasks, which run before the next event of the thread: writes is    *)
(* the queue of AsyncLock, its head the holder.  A write takes the live    *)
(* configuration keys, by reference, and the hash of the time of the save. *)
(*                                                                         *)
(* Persistence is on (the default), for the OCPP configuration and for the *)
(* station information, which is a constant here; status stands for the    *)
(* connectors' statuses, the other changing part of a configuration.  A    *)
(* write that fails raises an unhandled rejection and is not modelled      *)
(* apart from the death of the worker.                                     *)
(***************************************************************************)
EXTENDS DeviceModel

CONSTANTS Stations,        \* the stations of one worker
          Registry,        \* the variables of the device model, in order
          Raws,            \* the raw values that occur
          SetRequests,     \* the SetVariables requests: sequences of items
          GetRequests,     \* the GetVariables requests: sequences of items
          TemplateKeys,    \* the configuration keys a station without a file starts with
          RebootKeys,      \* those the template marks as needing a reboot
          CachedStations,  \* those whose configuration the LRU cache accepts
          BootInterval,    \* the heartbeat interval of the central system
          ItemBytes,       \* the bytes of an item of a request
          ResultBytes      \* the bytes of an item of a response

Components == {"AuthCtrlr", "ChargingStation", "ClockCtrlr", "DeviceDataCtrlr",
               "OCPPCommCtrlr", "SampledDataCtrlr", "SecurityCtrlr", "TxCtrlr"}

SizeLimits == {"ConfigurationValueSize", "ValueSize", "ReportingValueSize"}
AbsoluteMaxLength == 2500
DefaultPingInterval == "30"

Key(name) == <<name, Unset>>             \* the configuration key of a variable without instance

Texts == {r.text : r \in Raws} \union {Registry[i].default : i \in DOMAIN Registry}

Items == [component : STRING, componentInstance : STRING, variable : STRING,
          exact : BOOLEAN, variableInstance : STRING, attribute : STRING, raw : Raws]

TimerVariables == {"HeartbeatInterval", "WebSocketPingInterval"}

\* What the manager relies on of its registry.  The variables of Components support
\* the attribute Actual only: the branches for MinSet, MaxSet and Target are out of
\* reach, and are left out.
WellFormed(registry) ==
    /\ DOMAIN registry \subseteq Nat
    /\ \A i \in DOMAIN registry :
         LET m == registry[i]
         IN  /\ m.persistence \in {P, V}
             /\ m.component \in Components => m.attributes = {"Actual"}
             /\ m.persistence = V /\ m.mutability # RO => m.instance = Unset
             /\ m.variable \in TimerVariables =>
                  m.dataType = "integer" /\ m.min \in Nat
             /\ m.variable = "HeartbeatInterval" => m.min > 0
             /\ m.variable = "WebSocketPingInterval" => m.default = DefaultPingInterval

\* The template defines the heartbeat interval, as the initialisation of a station
\* does, and the default interval of the ping is a number of seconds.
ASSUME VariablesAssumption ==
    /\ WellFormed(Registry)
    /\ Key("HeartbeatInterval") \in DOMAIN TemplateKeys
    /\ \A k \in DOMAIN TemplateKeys : TemplateKeys[k] \in Texts
    /\ BootInterval \in Texts
    /\ SetRequests \union GetRequests \subseteq Seq(Items)
    /\ \A r \in Raws : r.number \in Int
    /\ \E r \in Raws : r.text = DefaultPingInterval
    /\ \A r \in Raws : r.text = DefaultPingInterval => r.form = "integer" /\ r.number > 0

None == "none"
NoKeys == <<>>                        \* a configuration without configurationKey
NoFile == [keys |-> NoKeys, status |-> None, hash |-> <<>>]
NoAnswer == [kind |-> None, station |-> None, request |-> <<>>, results |-> <<>>]

VARIABLES keys,       \* ocppConfiguration.configurationKey of a station: name -> value
          status,     \* the status of its connectors
          file,       \* its configuration file, with the configurationHash in it
          fileHash,   \* configurationFileHash: the hash of the last write
          cached,     \* the LRU cache has the configuration of fileHash
          writes,     \* the writes that wait for or hold the lock
          overrides,  \* runtimeOverrides of the singleton
          life,       \* "down", "initialised", "registered" or "stopped"
          heartbeat,  \* the interval its heartbeat runs with, None when it does not
          ping,       \* the same of its WebSocket ping
          stale,      \* history: the timers' variables last set under a name in other
                      \* letters than the registry's since the timers started
          setBack,    \* history: the last request that saved, before the connectors had
                      \* their statuses, changed keys again after its last save
          answer      \* the last answer to a request, until the life of a station changes

vars == <<keys, status, file, fileHash, cached, writes, overrides, life, heartbeat, ping,
          stale, setBack, answer>>

-----------------------------------------------------------------------------
(* Configuration keys.                                                      *)

KeyName(m) ==
    IF m.variable = "MessageAttemptInterval" THEN Key(m.variable) ELSE <<m.variable, m.instance>>

HasKey(ks, k) == k \in DOMAIN ks

\* addConfigurationKey without overwrite, by a caller that has found no such key.
AddKey(ks, k, value) == [x \in DOMAIN ks \union {k} |-> IF x = k THEN value ELSE ks[x]]

RawOf(text) == CHOOSE r \in Raws : r.text = text

\* The integer a value stands for, 0 for none: convertToIntOrNaN in the
\* comparisons of the callers.
IntOf(ks, name) ==
    IF HasKey(ks, Key(name)) /\ \E r \in Raws : r.text = ks[Key(name)] /\ r.form = "integer"
    THEN RawOf(ks[Key(name)]).number ELSE 0

Stored(m) == m.persistence = P /\ m.mutability # WO

\* The entries validatePersistentMappings looks at, those with a default and the
\* keys it creates: the first entry of a shared key gives its value.
Mapped == {i \in DOMAIN Registry :
             Stored(Registry[i]) /\ Registry[i].variable \notin SizeLimits
             /\ Registry[i].instance = Unset}
WithDefault == {i \in Mapped : Registry[i].default # Unset}

ValidatePersistentMappings(ks) ==
    LET missing == {KeyName(Registry[i]) : i \in WithDefault} \ DOMAIN ks
        first(k) == CHOOSE i \in WithDefault :
            /\ KeyName(Registry[i]) = k
            /\ \A j \in WithDefault : KeyName(Registry[j]) = k => i <= j
    IN  [k \in DOMAIN ks \union missing |->
            IF k \in DOMAIN ks THEN ks[k] ELSE Registry[first(k)].default]

\* invalidVariables: entries without default that found no key, not even one
\* that an earlier entry had created.
InvalidVariables(ks) ==
    {KeyOf(Registry[i]) : i \in {i \in Mapped \ WithDefault :
        /\ ~HasKey(ks, KeyName(Registry[i]))
        /\ \A j \in WithDefault : j < i => KeyName(Registry[j]) # KeyName(Registry[i])}}

\* What a request works on: the keys and the invalid variables of its
\* validatePersistentMappings, the overrides, the writes it asks for, the
\* timers it restarts, and the results so far.
Context(s) ==
    [keys |-> ValidatePersistentMappings(keys[s]), invalid |-> InvalidVariables(keys[s]),
     overrides |-> overrides, station |-> s, status |-> status[s], hash |-> fileHash[s],
     writes |-> <<>>, heartbeat |-> heartbeat[s], ping |-> ping[s], stale |-> stale[s],
     results |-> <<>>]

Answered(c, st, reason, text, shown) ==
    [c EXCEPT !.results =
        Append(@, [status |-> st, reason |-> reason, text |-> text, shown |-> shown])]

Refused(c, st, reason) == Answered(c, st, reason, Unset, 0)

\* An item names [component, componentInstance, variable, exact, variableInstance,
\* attribute, raw]; exact when the letters of its variable are those of the registry,
\* which only the restart of the timers asks for.  The key of overrides takes the
\* instance of its component.
Candidates(item) ==
    GetVariableMetadata(Registry, item.component, item.variable,
        IF item.variableInstance # Unset THEN item.variableInstance ELSE item.componentInstance)

Metadata(item) == Registry[CHOOSE i \in Candidates(item) : TRUE]

VariableKey(item) == CompositeKey(item.component, item.componentInstance, item.variable)

-----------------------------------------------------------------------------
(* GetVariables.                                                            *)

\* resolveVariableValue: a missing key is created with the default.  (The
\* fallbacks for an empty heartbeat, ping or update interval are out of reach:
\* the registry gives each a default.)
Resolved(c, item) ==
    LET m == Metadata(item)
        k == KeyName(m)
        created == IF Stored(m) /\ ~HasKey(c.keys, k)
                   THEN [c EXCEPT !.keys = AddKey(@, k, ResolveValue(m))] ELSE c
        value == IF Stored(m) THEN IF created.keys[k] # Unset THEN created.keys[k] ELSE ResolveValue(m)
                 ELSE IF m.persistence = V /\ m.mutability # RO /\ VariableKey(item) \in DOMAIN c.overrides
                      THEN c.overrides[VariableKey(item)] ELSE ResolveValue(m)
    IN  [context |-> created, value |-> value]

LengthOf(text) ==
    IF \E r \in Raws : r.text = text THEN RawOf(text).length ELSE 4

GetVariable(c, item) ==
    LET m == Metadata(item)
        r == Resolved(c, item)
        limited == EnforceReportingValueSize(
                     EnforceReportingValueSize(LengthOf(r.value), IntOf(r.context.keys, "ValueSize")),
                     IntOf(r.context.keys, "ReportingValueSize"))
    IN  IF item.component \notin Components THEN Refused(c, "UnknownComponent", "NotFound")
        ELSE IF Candidates(item) = {} THEN Refused(c, "UnknownVariable", "NotFound")
        ELSE IF m.mutability = WO /\ item.attribute = "Actual" THEN Refused(c, "Rejected", "WriteOnly")
        ELSE IF item.attribute \notin m.attributes
             THEN Refused(c, "NotSupportedAttributeType", "UnsupportedParam")
        ELSE IF VariableKey(item) \in c.invalid THEN Refused(c, "Rejected", "InternalError")
        ELSE IF r.value = Unset THEN Refused(r.context, "Rejected", "InvalidValue")
        ELSE Answered(r.context, "Accepted", "NoError", r.value,
                      EnforceReportingValueSize(limited, AbsoluteMaxLength))

-----------------------------------------------------------------------------
(* SetVariables.                                                            *)

\* saveConfiguration: a write of the keys and the status of station s, unless their
\* hash is the one of the last write; the hash is injective, so the content stands
\* for it.
Content(ks, st) == <<ks, st>>

SaveConfiguration(s, content, hash) ==
    IF content = hash THEN <<>> ELSE <<[station |-> s, hash |-> content]>>

SaveOcppConfiguration(c) ==
    [c EXCEPT !.writes = @ \o SaveConfiguration(c.station, Content(c.keys, c.status), c.hash)]

EffectiveLimit(ks) ==
    LET limits == {l \in {IntOf(ks, "ConfigurationValueSize"), IntOf(ks, "ValueSize"),
                          AbsoluteMaxLength} : l > 0}
    IN  CHOOSE l \in limits : \A o \in limits : l <= o

StoreKeyUnsaved(c, k, value) == [c EXCEPT !.keys = AddKey(@, k, value)]
StoreKeyOnce(c, k, value) == IF HasKey(c.keys, k) THEN c ELSE [c EXCEPT !.keys = AddKey(@, k, value)]

\* addConfigurationKey does not save, setConfigurationKeyValue does.
StoreKey(c, k, value) ==
    IF ~HasKey(c.keys, k) THEN [c EXCEPT !.keys = AddKey(@, k, value)]
    ELSE IF c.keys[k] # value THEN SaveOcppConfiguration([c EXCEPT !.keys[k] = value])
    ELSE c

HeartbeatInterval(ks) ==
    IF IntOf(ks, "HeartbeatInterval") > 0 THEN ks[Key("HeartbeatInterval")] ELSE None
PingInterval(ks) ==
    IF ~HasKey(ks, Key("WebSocketPingInterval")) THEN DefaultPingInterval
    ELSE IF IntOf(ks, "WebSocketPingInterval") > 0 THEN ks[Key("WebSocketPingInterval")] ELSE None

NoteTimer(item, names) ==
    IF item.variable \notin TimerVariables THEN names
    ELSE IF item.exact THEN names \ {item.variable} ELSE names \union {item.variable}

RestartTimersHeartbeatOnly(c, item) ==
    [c EXCEPT !.heartbeat = IF /\ item.variable = "HeartbeatInterval" /\ item.exact
                               /\ item.raw.form # "other" /\ item.raw.number > 0
                            THEN HeartbeatInterval(c.keys) ELSE @,
              !.stale = NoteTimer(item, @)]

RestartTimers(c, item) ==
    [c EXCEPT !.heartbeat = IF /\ item.variable = "HeartbeatInterval" /\ item.exact
                               /\ item.raw.form # "other" /\ item.raw.number > 0
                            THEN HeartbeatInterval(c.keys) ELSE @,
              !.ping = IF /\ item.variable = "WebSocketPingInterval" /\ item.exact
                          /\ item.raw.form # "other" /\ item.raw.number >= 0
                       THEN PingInterval(c.keys) ELSE @,
              !.stale = NoteTimer(item, @)]

\* The stores of an item whose value is valid.
Store(c, item) ==
    LET m == Metadata(item)
        k == KeyName(m)
        text == item.raw.text
        previous == IF HasKey(c.keys, k) THEN c.keys[k] ELSE None
        stored == IF Stored(m) THEN StoreKey(c, k, text) ELSE c
        restarted == RestartTimers(stored, item)
        overridden == IF m.persistence = V
                      THEN [restarted EXCEPT !.overrides = AddKey(@, VariableKey(item), text)]
                      ELSE restarted
        reboot == Stored(m) /\ (m.rebootRequired \/ k \in RebootKeys) /\ previous # text
    IN  Answered(overridden, IF reboot THEN "RebootRequired" ELSE "Accepted", "NoError", text, 0)

SetVariable(c, item) ==
    LET m == Metadata(item)
        \* AuthorizeRemoteStart has a check of its own, with the same outcome
        reason == ValidateValue(m, item.raw)
    IN  IF item.component \notin Components THEN Refused(c, "UnknownComponent", "NotFound")
        ELSE IF Candidates(item) = {} THEN Refused(c, "UnknownVariable", "NotFound")
        ELSE IF item.attribute \notin m.attributes
             THEN Refused(c, "NotSupportedAttributeType", "UnsupportedParam")
        ELSE IF VariableKey(item) \in c.invalid /\ m.mutability # WO
             THEN Refused(c, "Rejected", "InternalError")
        ELSE IF m.mutability = RO THEN Refused(c, "Rejected", "ReadOnly")
        ELSE IF item.raw.length > EffectiveLimit(c.keys)
             THEN Refused(c, "Rejected", "TooLargeElement")
        ELSE IF reason # "NoError" THEN Refused(c, "Rejected", reason)
        ELSE Store(c, item)

-----------------------------------------------------------------------------
(* The requests.  The limits are read before anything is created.           *)

ItemsLimit(s) == IntOf(keys[s], "ItemsPerMessage")
BytesLimit(s) == IntOf(keys[s], "BytesPerMessage")

RefuseAll(request, st, reason) ==
    [i \in DOMAIN request |-> [status |-> st, reason |-> reason, text |-> Unset, shown |-> 0]]

EnforceMessageLimits(s, request) ==
    IF ItemsLimit(s) > 0 /\ Len(request) > ItemsLimit(s) THEN "TooManyElements"
    ELSE IF BytesLimit(s) > 0 /\ Len(request) * ItemBytes > BytesLimit(s) THEN "TooLargeElement"
    ELSE "NoError"

\* The limit on the answer is checked when the variables have been set.
EnforcePostCalculationBytesLimit(s, request, results) ==
    IF BytesLimit(s) > 0 /\ Len(results) * ResultBytes > BytesLimit(s)
    THEN RefuseAll(request, "Rejected", "TooLargeElement") ELSE results

Apply(kind, c, item) == IF kind = "set" THEN SetVariable(c, item) ELSE GetVariable(c, item)

\* The items of a request are handled one after the other.
Outcomes(s, request, kind) ==
    LET after[n \in 0..Len(request)] ==
          IF n = 0 THEN Context(s) ELSE Apply(kind, after[n - 1], request[n])
    IN  after

Refuse(s, request, kind, reason) ==
    /\ answer' = [kind |-> kind, station |-> s, request |-> request,
                  results |-> RefuseAll(request, "Rejected", reason)]
    /\ UNCHANGED <<keys, overrides, heartbeat, ping, stale, setBack, writes>>

Accept(s, request, kind, done) ==
    /\ answer' = [kind |-> kind, station |-> s, request |-> request,
                  results |-> EnforcePostCalculationBytesLimit(s, request, done.results)]
    /\ keys' = [keys EXCEPT ![s] = done.keys]
    /\ overrides' = done.overrides
    /\ heartbeat' = [heartbeat EXCEPT ![s] = done.heartbeat]
    /\ ping' = [ping EXCEPT ![s] = done.ping]
    /\ stale' = [stale EXCEPT ![s] = done.stale]
    /\ writes' = done.writes
    /\ setBack' = [setBack EXCEPT ![s] =
         IF done.writes = <<>> THEN @ ELSE status[s] = None /\ done.writes[Len(done.writes)].hash[1] # done.keys]

Handle(s, request, kind) ==
    /\ life[s] = "registered"
    /\ writes = <<>>
    /\ LET reason == EnforceMessageLimits(s, request)
       IN  \/ reason # "NoError" /\ Refuse(s, request, kind, reason)
           \/ /\ reason = "NoError"
              /\ Accept(s, request, kind, Outcomes(s, request, kind)[Len(request)])
    /\ UNCHANGED <<status, file, fileHash, cached, life>>

SetVariables(s) == \E request \in SetRequests : Handle(s, request, "set")
GetVariables(s) == \E request \in GetRequests : Handle(s, request, "get")

-----------------------------------------------------------------------------
(* The configuration file.                                                  *)

\* The function AsyncLock runs exclusively: the keys are those of the moment.
Write ==
    /\ writes # <<>>
    /\ LET w == Head(writes)
           s == w.station
           ks == IF w.hash[1] = NoKeys THEN NoKeys ELSE keys[s]
       IN  /\ file' = [file EXCEPT ![s] = [keys |-> ks, status |-> w.hash[2], hash |-> w.hash]]
           /\ fileHash' = [fileHash EXCEPT ![s] = w.hash]
           /\ cached' = [cached EXCEPT ![s] = s \in CachedStations /\ ks # NoKeys]
    /\ writes' = Tail(writes)
    /\ UNCHANGED <<keys, status, overrides, life, heartbeat, ping, stale, setBack, answer>>

OcppConfigurationOfFile(found) == found

\* The configuration keys getOcppConfiguration finds.
OcppConfiguration(found) == IF found = NoKeys THEN TemplateKeys ELSE found

\* A new process: initialize() saves the station information before it has the
\* OCPP configuration, then the whole.
Boot(s) ==
    LET ks == OcppConfiguration(file[s].keys)
        hash == file[s].hash
    IN  /\ life[s] = "down"
        /\ writes = <<>>
        /\ life' = [life EXCEPT ![s] = "initialised"]
        /\ keys' = [keys EXCEPT ![s] = ks]
        /\ status' = [status EXCEPT ![s] = file[s].status]
        /\ fileHash' = [fileHash EXCEPT ![s] = hash]
        /\ cached' = [cached EXCEPT ![s] = s \in CachedStations /\ file[s].keys # NoKeys]
        /\ writes' = SaveConfiguration(s, Content(NoKeys, file[s].status), hash)
                       \o SaveConfiguration(s, Content(ks, file[s].status), hash)
        /\ setBack' = [setBack EXCEPT ![s] = FALSE]
        /\ answer' = NoAnswer
        /\ UNCHANGED <<file, overrides, heartbeat, ping, stale>>

\* start(), the connection and the answer of the BootNotification, which
\* overwrites the heartbeat interval; the connectors' statuses are still to come.
Register(s) ==
    LET ks == [keys[s] EXCEPT ![Key("HeartbeatInterval")] = BootInterval]
    IN  /\ life[s] = "initialised"
        /\ writes = <<>>
        /\ life' = [life EXCEPT ![s] = "registered"]
        /\ keys' = [keys EXCEPT ![s] = ks]
        /\ writes' = SaveConfiguration(s, Content(ks, status[s]), fileHash[s])
        /\ heartbeat' = [heartbeat EXCEPT ![s] = HeartbeatInterval(ks)]
        /\ ping' = [ping EXCEPT ![s] = PingInterval(keys[s])]
        /\ answer' = NoAnswer
        /\ UNCHANGED <<status, file, fileHash, cached, overrides, stale, setBack>>

\* The StatusNotification of the message sequence is answered: the connectors have
\* a status, which is not saved.  A connector that has one keeps it.
StatusNotified(s) ==
    /\ life[s] = "registered" /\ status[s] = None
    /\ writes = <<>>
    /\ status' = [status EXCEPT ![s] = "Available"]
    /\ UNCHANGED <<keys, file, fileHash, cached, writes, overrides, life, heartbeat, ping,
                   stale, setBack, answer>>

StopSavingFirst(s) ==
    /\ life[s] \in {"initialised", "registered"}
    /\ writes = <<>>
    /\ life' = [life EXCEPT ![s] = "stopped"]
    /\ overrides' = <<>>
    /\ status' = [status EXCEPT ![s] = "none"]
    /\ heartbeat' = [heartbeat EXCEPT ![s] = None]
    /\ ping' = [ping EXCEPT ![s] = None]
    /\ stale' = [stale EXCEPT ![s] = {}]
    /\ writes' = SaveConfiguration(s, Content(keys[s], status[s]), fileHash[s])
    /\ cached' = [cached EXCEPT ![s] = FALSE]
    /\ answer' = NoAnswer
    /\ UNCHANGED <<keys, file, fileHash, setBack>>

\* stop(): OCPP20IncomingRequestService.stop clears the overrides of all
\* stations; the statuses of the connectors are deleted before the save.
Stop(s) ==
    /\ life[s] \in {"initialised", "registered"}
    /\ writes = <<>>
    /\ life' = [life EXCEPT ![s] = "stopped"]
    /\ overrides' = <<>>
    /\ status' = [status EXCEPT ![s] = "none"]
    /\ heartbeat' = [heartbeat EXCEPT ![s] = None]
    /\ ping' = [ping EXCEPT ![s] = None]
    /\ stale' = [stale EXCEPT ![s] = {}]
    /\ writes' = SaveConfiguration(s, Content(keys[s], "none"), fileHash[s])
    /\ cached' = [cached EXCEPT ![s] = FALSE]
    /\ answer' = NoAnswer
    /\ UNCHANGED <<keys, file, fileHash, setBack>>

\* reset() after the stop and its sleep: initialize() in the same process.
Reset(s) ==
    \E hit \in {FALSE, cached[s]} :      \* the LRU cache may have evicted it
    LET ks == IF hit THEN keys[s] ELSE OcppConfiguration(file[s].keys)
    IN  /\ life[s] = "stopped"
        /\ writes = <<>>
        /\ life' = [life EXCEPT ![s] = "initialised"]
        /\ keys' = [keys EXCEPT ![s] = ks]
        /\ status' = [status EXCEPT ![s] = file[s].status]
        /\ writes' = SaveConfiguration(s, Content(keys[s], file[s].status), fileHash[s])
                       \o SaveConfiguration(s, Content(ks, file[s].status), fileHash[s])
        /\ cached' = [cached EXCEPT ![s] = s \in CachedStations]
        /\ setBack' = [setBack EXCEPT ![s] = FALSE]
        /\ answer' = NoAnswer
        /\ UNCHANGED <<file, fileHash, overrides, heartbeat, ping, stale>>

\* start() of a stopped station.
Start(s) ==
    /\ life[s] = "stopped"
    /\ writes = <<>>
    /\ life' = [life EXCEPT ![s] = "initialised"]
    /\ answer' = NoAnswer
    /\ UNCHANGED <<keys, status, file, fileHash, cached, writes, overrides, heartbeat, ping,
                   stale, setBack>>

\* The worker ends or dies, possibly before a write.
Crash ==
    /\ \E s \in Stations : life[s] # "down"
    /\ life' = [s \in Stations |-> "down"]
    /\ writes' = <<>>
    /\ overrides' = <<>>
    /\ heartbeat' = [s \in Stations |-> None]
    /\ ping' = [s \in Stations |-> None]
    /\ stale' = [s \in Stations |-> {}]
    /\ cached' = [s \in Stations |-> FALSE]
    /\ answer' = NoAnswer
    /\ UNCHANGED <<keys, status, file, fileHash, setBack>>

Init ==
    /\ keys = [s \in Stations |-> TemplateKeys]
    /\ status = [s \in Stations |-> "none"]
    /\ file = [s \in Stations |-> NoFile]
    /\ fileHash = [s \in Stations |-> <<>>]
    /\ cached = [s \in Stations |-> FALSE]
    /\ writes = <<>>
    /\ overrides = <<>>
    /\ life = [s \in Stations |-> "down"]
    /\ heartbeat = [s \in Stations |-> None]
    /\ ping = [s \in Stations |-> None]
    /\ stale = [s \in Stations |-> {}]
    /\ setBack = [s \in Stations |-> FALSE]
    /\ answer = NoAnswer

Next ==
    \/ Write
    \/ Crash
    \/ \E s \in Stations :
         \/ SetVariables(s) \/ GetVariables(s)
         \/ Boot(s) \/ Register(s) \/ StatusNotified(s) \/ Stop(s) \/ Reset(s) \/ Start(s)

Spec == Init /\ [][Next]_vars
-----------------------------------------------------------------------------
(* Properties.                                                              *)

Settled(s) == writes = <<>> /\ life[s] # "down"

Statuses == {None, "Available"}
TypeOK ==
    /\ status \in [Stations -> Statuses]
    /\ life \in [Stations -> {"down", "initialised", "registered", "stopped"}]
    /\ cached \in [Stations -> BOOLEAN]
    /\ stale \in [Stations -> SUBSET TimerVariables]
    /\ setBack \in [Stations -> BOOLEAN]
    /\ \A s \in Stations :
         /\ DOMAIN TemplateKeys \subseteq DOMAIN keys[s]
         /\ \A k \in DOMAIN keys[s] : keys[s][k] \in Texts
         /\ file[s].keys = NoKeys \/ DOMAIN TemplateKeys \subseteq DOMAIN file[s].keys
         /\ heartbeat[s] \in Texts \union {None}
         /\ ping[s] \in Texts \union {None, DefaultPingInterval}
    /\ \A i \in DOMAIN writes : writes[i].station \in Stations

Extends(ks, old) == \A k \in DOMAIN old : k \in DOMAIN ks /\ ks[k] = old[k]

\* A station has all the values of its file, or all those its file's hash was taken of,
\* and besides them only keys that were created, which does not save.  The two differ
\* when a request sets a value and sets it back before the write, which takes the keys
\* as they are; a later save of the values in the hash is then skipped.  The file has
\* keys at all, except from the second boot, whose save of them is skipped when the
\* one before it was written without, to the registration.
FileOrHashIsCurrent ==
    \A s \in Stations : Settled(s) =>
        /\ Extends(keys[s], file[s].keys) \/ Extends(keys[s], file[s].hash[1])
        /\ life[s] # "initialised" => file[s].keys # NoKeys /\ file[s].hash[1] # NoKeys

\* A station that has stopped has the hash of all its keys, of connectors without
\* status, in its file, and the keys themselves: whatever was created unsaved, skipped
\* or lost before, unless a request changed keys again after a save that it asked for
\* before the connectors had their statuses, which lets stop() skip its own.
StoppedIsSaved ==
    \A s \in Stations :
        Settled(s) /\ life[s] = "stopped" =>
            /\ file[s].hash = Content(keys[s], None)
            /\ file[s].keys = keys[s] \/ setBack[s]

\* The heartbeat and the ping of a registered station run with the intervals of its
\* configuration keys, whoever changed them; unless the last to set one named it in
\* other letters than the registry: setVariable finds the variable all the same, and
\* stores the value, but restarts a timer for the exact name only.
TimersFollowKeys ==
    \A s \in Stations : life[s] = "registered" =>
        /\ "HeartbeatInterval" \notin stale[s] => heartbeat[s] = HeartbeatInterval(keys[s])
        /\ "WebSocketPingInterval" \notin stale[s] => ping[s] = PingInterval(keys[s])

\* What GetVariables would answer for an item of a request just answered.
ReadBack(s, item) == GetVariable(Context(s), item).results[1]

\* A value accepted by SetVariables is the one GetVariables reports, for every
\* item of the request that no later item of it overwrites under a shared key; a
\* write-only variable aside, and an empty value, for which the default is reported.
AcceptedReadsBack ==
    answer.kind = "set" =>
        \A i \in DOMAIN answer.request :
            LET item == answer.request[i]
            IN  /\ answer.results[i].status \in {"Accepted", "RebootRequired"}
                /\ Metadata(item).mutability # WO /\ item.raw.text # Unset
                /\ \A j \in DOMAIN answer.request : j > i =>
                     KeyName(Metadata(answer.request[j])) # KeyName(Metadata(item))
                => ReadBack(answer.station, item).text = item.raw.text

=============================================================================
