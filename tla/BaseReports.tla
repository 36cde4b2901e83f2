------------------------------ MODULE BaseReports ------------------------------
(***************************************************************************)
(* GetBaseReport of OCPP 2.0.1: the content of a report and its delivery   *)
(* in NotifyReport messages.                                               *)
(*                                                                         *)
(* The service that handles the requests is one object per worker, and     *)
(* its cache of reports is keyed by the requestId, which a central system  *)
(* chooses: the stations of the worker share it.  A report is built when   *)
(* the request is handled, looked up again when its answer has been sent   *)
(* and forgotten when its last message has been answered.                  *)
(***************************************************************************)
EXTENDS Integers, Sequences, FiniteSets

CONSTANTS Stations,        \* the stations of one worker
          RequestIds,      \* the requestIds that occur
          Bases,           \* the report bases asked for
          Parts,           \* how many messages the report of a base takes, 0 an empty one
          MaxVersion,      \* bound: changes of a station's device model
          MaxReports       \* bound: a report is among the first requests

ReportBases == {"ConfigurationInventory", "FullInventory", "SummaryInventory"}
NoReport == [station |-> "", base |-> "", version |-> 0]

VARIABLES version,         \* how often the device model of a station has changed
          requests,        \* requests made so far
          reportDataCache, \* requestId -> what the report was built from
          reports,         \* the requests whose report is not complete
          unanswered       \* requestIds whose answer failed, with the report cached

reportVars == <<version, reportDataCache, reports, unanswered>>

-----------------------------------------------------------------------------
(* The content of a report: a sequence of [component, evse, connector,     *)
(* variable, values].  A station is given by its information (the fields   *)
(* that are set), its configuration keys, the values its variables are     *)
(* read with, and its EVSEs with their connectors.                         *)

Item(component, variable, value) ==
    [component |-> component, evse |-> 0, connector |-> 0, variable |-> variable, value |-> value]

Information(info, variables) ==
    LET known == SelectSeq(variables, LAMBDA v : v \in DOMAIN info)
    IN  [i \in DOMAIN known |-> Item("ChargingStation", known[i], info[known[i]])]

ConfigurationKeys(keys) ==
    [i \in DOMAIN keys |-> Item("OCPPCommCtrlr", keys[i].key, keys[i].value)]

\* Each variable of the registry is read; those that are not read are left out.
\* The components the manager accepts have the attribute Actual only.
Variables(registry, read) ==
    LET accepted == SelectSeq(registry, LAMBDA m : read[m] # "")
    IN  [i \in DOMAIN accepted |-> Item(accepted[i].component, accepted[i].variable, read[accepted[i]])]

\* The connectors of an EVSE, after its availability.
Evse(evse) ==
    <<[Item("EVSE", "AvailabilityState", evse.availability) EXCEPT !.evse = evse.id]>> \o
    [i \in DOMAIN evse.connectors |->
        [Item("EVSE", "ConnectorType", evse.connectors[i].type)
           EXCEPT !.evse = evse.id, !.connector = evse.connectors[i].id]]

Connectors(station, variable, Value(_)) ==
    LET real == SelectSeq(station.connectors, LAMBDA c : c.id > 0)
    IN  [i \in DOMAIN real |->
           [Item("Connector", variable, Value(real[i])) EXCEPT !.evse = 1, !.connector = real[i].id]]

Flat(parts) ==
    LET f[n \in 0..Len(parts)] == IF n = 0 THEN <<>> ELSE f[n - 1] \o parts[n]
    IN  f[Len(parts)]

FullInventory(station, registry) ==
    Information(station.info, <<"Model", "VendorName", "SerialNumber", "FirmwareVersion">>)
    \o ConfigurationKeys(station.keys)
    \o Variables(registry, station.read)
    \o IF station.evses # <<>> THEN Flat([i \in DOMAIN station.evses |-> Evse(station.evses[i])])
       ELSE Connectors(station, "ConnectorType", LAMBDA c : c.type)

SummaryInventory(station) ==
    Information(station.info, <<"Model", "VendorName", "FirmwareVersion">>)
    \o <<Item("ChargingStation", "AvailabilityState",
              IF station.accepted THEN "Available" ELSE "Unavailable")>>
    \o IF station.evses # <<>> THEN [i \in DOMAIN station.evses |-> Evse(station.evses[i])[1]]
       ELSE Connectors(station, "AvailabilityState", LAMBDA c : c.status)

BuildReportData(station, registry, base) ==
    CASE base = "ConfigurationInventory" -> ConfigurationKeys(station.keys)
      [] base = "FullInventory" -> FullInventory(station, registry)
      [] base = "SummaryInventory" -> SummaryInventory(station)
      [] OTHER -> <<>>

MaxItemsPerMessage == 100

\* The messages a report is sent in: an empty report takes one, too.
Chunks(report) ==
    LET n == (Len(report) + MaxItemsPerMessage - 1) \div MaxItemsPerMessage
        last(i) == IF i < n THEN i * MaxItemsPerMessage ELSE Len(report)
    IN  IF report = <<>> THEN << <<>> >>
        ELSE [i \in 1..n |-> SubSeq(report, (i - 1) * MaxItemsPerMessage + 1, last(i))]

-----------------------------------------------------------------------------
(* The handling of the requests.                                           *)

\* What the report of a station would be built from now.
Built(s, base) == [station |-> s, base |-> base, version |-> version[s]]

Cached(id, s, base) ==
    IF reportDataCache[id] # NoReport THEN reportDataCache[id] ELSE Built(s, base)

\* A report without content is answered EmptyResultSet and neither cached nor sent,
\* unless another one is cached under its requestId.
HasContent(id, base) == Parts[base] > 0 \/ reportDataCache[id] # NoReport

\* An empty report takes one message, too.
Messages(data) == IF Parts[data.base] = 0 THEN 1 ELSE Parts[data.base]

\* handleRequestGetBaseReport; an unknown base is answered NotSupported.
GetBaseReport(s) ==
    \E id \in RequestIds, base \in Bases :
        /\ requests < MaxReports
        /\ requests' = requests + 1
        /\ IF base \in ReportBases /\ HasContent(id, base)
           THEN LET shared == id \in unanswered \/ \E t \in reports : t.id = id
                    t == [n |-> requests, station |-> s, id |-> id, base |-> base, asked |-> version[s],
                          alone |-> ~shared, stage |-> "answer", data |-> NoReport, left |-> 0]
                IN  /\ reportDataCache' = [reportDataCache EXCEPT ![id] = Cached(id, s, base)]
                    /\ reports' = {IF u.id = id THEN [u EXCEPT !.alone = FALSE] ELSE u : u \in reports}
                                  \union {t}
           ELSE UNCHANGED <<reportDataCache, reports>>
        /\ UNCHANGED <<version, unanswered>>

\* The answer has been sent: the event starts sendNotifyReportRequest.
AnswerSent(t) ==
    /\ t.stage = "answer"
    /\ reports' = (reports \ {t}) \union
         {[t EXCEPT !.stage = "notify", !.data = Cached(t.id, t.station, t.base),
                    !.left = Messages(Cached(t.id, t.station, t.base))]}
    /\ UNCHANGED <<version, requests, reportDataCache, unanswered>>

\* The answer is refused or buffered by a closed connection, and later sent: no
\* event, no report, and the cache keeps what was built.
AnswerFails(t) ==
    /\ t.stage = "answer"
    /\ reports' = reports \ {t}
    /\ unanswered' = unanswered \union {t.id}
    /\ UNCHANGED <<version, requests, reportDataCache>>

\* A NotifyReport is answered, or fails, which is not noticed.
NotifiedKeepingCache(t) ==
    /\ t.stage = "notify"
    /\ reports' = IF t.left > 1 THEN (reports \ {t}) \union {[t EXCEPT !.left = @ - 1]} ELSE reports \ {t}
    /\ UNCHANGED <<version, requests, reportDataCache, unanswered>>

Notified(t) ==
    /\ t.stage = "notify"
    /\ IF t.left > 1
       THEN /\ reports' = (reports \ {t}) \union {[t EXCEPT !.left = @ - 1]}
            /\ UNCHANGED reportDataCache
       ELSE /\ reports' = reports \ {t}
            /\ reportDataCache' = [reportDataCache EXCEPT ![t.id] = NoReport]
    /\ UNCHANGED <<version, requests, unanswered>>

\* SetVariables, or anything else that changes what a report says.
Change(s) ==
    /\ version[s] < MaxVersion
    /\ version' = [version EXCEPT ![s] = @ + 1]
    /\ UNCHANGED <<requests, reportDataCache, reports, unanswered>>

ReportInit ==
    /\ version = [s \in Stations |-> 0]
    /\ requests = 0
    /\ reportDataCache = [id \in RequestIds |-> NoReport]
    /\ reports = {}
    /\ unanswered = {}

Reporting == \E t \in reports : AnswerSent(t) \/ AnswerFails(t) \/ Notified(t)

-----------------------------------------------------------------------------

\* A report is built from the station and the base that were asked for, at the time
\* of the request or later, as long as no request with the same requestId, of any
\* station of the worker, is not complete or was left unanswered.
ReportIsCurrent ==
    \A t \in reports : t.stage = "notify" /\ t.alone =>
        /\ t.data.station = t.station /\ t.data.base = t.base
        /\ t.data.version >= t.asked
===============================================================================
