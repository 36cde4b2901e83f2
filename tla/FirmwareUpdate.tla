--------------------------- MODULE FirmwareUpdate ---------------------------
(***************************************************************************)
(* UpdateFirmware of an OCPP 1.6 charging station (updateFirmwareSimulation) *)
(* beside its reservations and transactions: the update takes the connectors *)
(* out of service one by one, waits for the running transactions to end and  *)
(* restarts the station.                                                     *)
(***************************************************************************)
EXTENDS Reservations

CONSTANTS
  FailureStatuses, \* values firmwareUpgrade.failureStatus may have
  FirmwareReset,   \* firmwareUpgrade.reset
  MaxUpdates       \* bound: UpdateFirmware requests that are not ignored

ASSUME FirmwareAssumption ==
  /\ FailureStatuses \subseteq {"DownloadFailed", "InstallationFailed"}
  /\ FirmwareReset \in BOOLEAN /\ MaxUpdates \in Nat

Updates == 1..MaxUpdates

VARIABLES
  firmware, \* firmwareStatus
  update    \* activations of updateFirmwareSimulation

firmwareVars == <<firmware, update>>
stationVars == <<vars, firmwareVars>>

NoUpdate(pc) == [pc |-> pc, at |-> 0, waited |-> FALSE]

FirmwareInit ==
  /\ Init
  /\ firmware = "none"
  /\ update = [u \in Updates |-> NoUpdate("idle")]

UpdateAt(u, pc, at) == update' = [update EXCEPT ![u].pc = pc, ![u].at = at]

\* An action of the update alone.
Only == UNCHANGED <<reservationVars, running, requests, events, mishaps>>

\* The loop over the connectors from i on, up to the first to be notified
\* 'Unavailable': "closing" takes those without a transaction, "sealing" those
\* that are not Unavailable.  After the last one comes the state after.
TakeOut(u, pc, i, out, after) ==
  LET left == {c \in i..MaxConnectors : c \in out} IN
  IF left = {} THEN UpdateAt(u, after, 0) ELSE UpdateAt(u, pc, First(left))

Free == {c \in Connectors : ~running[c]}
InService == {c \in Connectors : status[c] # "Unavailable"}

CloseFrom(u, i) == TakeOut(u, "closing", i, Free, "starting")
SealFrom(u, i) ==
  TakeOut(u, "sealing", i, InService, IF update[u].waited THEN "installing" ELSE "pausing")

\* handleRequestUpdateFirmware: the request counts unless an update has changed
\* the firmware status.
UpdateFirmware(u) ==
  /\ Request(update, u, 2)
  /\ firmware \in {"none", "Installed"}
  /\ UpdateAt(u, "scheduled", 0)
  /\ UNCHANGED <<reservationVars, running, events, mishaps, status, firmware>>

\* The retrieveDate has come, or had passed before.
Retrieve(u) ==
  /\ update[u].pc = "scheduled"
  /\ CloseFrom(u, 1)
  /\ UNCHANGED <<status, firmware>> /\ Only

\* 'Unavailable' is answered.
Closed(u) ==
  LET c == update[u].at IN
  /\ update[u].pc = "closing"
  /\ status' = [status EXCEPT ![c] = "Unavailable"]
  /\ CloseFrom(u, c + 1)
  /\ UNCHANGED firmware /\ Only

Sealed(u) ==
  LET c == update[u].at IN
  /\ update[u].pc = "sealing"
  /\ status' = [status EXCEPT ![c] = "Unavailable"]
  /\ SealFrom(u, c + 1)
  /\ UNCHANGED firmware /\ Only

\* The notification of a firmware status is answered: the station takes it.
Notified(u, from, new, pc) ==
  /\ update[u].pc = from
  /\ firmware' = new
  /\ UpdateAt(u, pc, 0)
  /\ UNCHANGED status /\ Only

\* Whether the template has a failureStatus is open: the update may fail.
Downloading(u) ==
  \/ Notified(u, "starting", "Downloading", "fetching")
  \/ "DownloadFailed" \in FailureStatuses /\ Notified(u, "starting", "Downloading", "failing")
DownloadFailed(u) == Notified(u, "failing", "DownloadFailed", "done")
Installing(u) ==
  \/ Notified(u, "installing", "Installing", IF FirmwareReset THEN "resetting" ELSE "done")
  \/ "InstallationFailed" \in FailureStatuses /\ Notified(u, "installing", "Installing", "breaking")
InstallationFailed(u) == Notified(u, "breaking", "InstallationFailed", "done")
Installed(u) == Notified(u, "booted", "Installed", "done")

\* Faulty: transactionsStarted is never reset.
DrainForever(u) ==
  update' = [update EXCEPT ![u] = [pc |-> "waiting", at |-> 0, waited |-> TRUE]]

\* The do-while: it waits while there are transactions.
Drain(u) ==
  IF \E c \in Connectors : running[c]
  THEN update' = [update EXCEPT ![u] = [pc |-> "waiting", at |-> 0, waited |-> TRUE]]
  ELSE SealFrom(u, 1)

\* 'Downloaded' is answered.
Downloaded(u) ==
  /\ update[u].pc = "fetching"
  /\ firmware' = "Downloaded"
  /\ Drain(u)
  /\ UNCHANGED status /\ Only

\* 15 s have passed.
Waited(u) ==
  /\ update[u].pc = "waiting"
  /\ Drain(u)
  /\ UNCHANGED <<status, firmware>> /\ Only

\* The sleep of an update that has not waited for a transaction is over.
Paused(u) ==
  /\ update[u].pc = "pausing"
  /\ UpdateAt(u, "installing", 0)
  /\ UNCHANGED <<status, firmware>> /\ Only

\* reset: the station stops, with its transactions, and starts again from its
\* configuration file, which keeps the reservations and connector 0 but no
\* status of another connector.  No other handler awaits at that time.
Quiescent ==
  /\ \A k \in Asks : ask[k].pc \in {"idle", "done"}
  /\ \A k \in Cancels : cancel[k].pc \in {"idle", "done"}
  /\ \A s \in Starts : start[s].pc \in {"idle", "done"}
  /\ stopping = {}

Reset(u) ==
  /\ update[u].pc = "resetting"
  /\ Quiescent
  /\ \A v \in Updates \ {u} : update[v].pc \in {"idle", "done", "scheduled"}
  /\ status' = [c \in AllConnectors |-> IF c = 0 THEN status[0] ELSE "Available"]
  /\ running' = [c \in Connectors |-> FALSE]
  /\ UpdateAt(u, "booted", 0)
  /\ UNCHANGED <<reservationVars, requests, events, mishaps, firmware>>

\* A notification of the update fails: the update is over, the status stays.
UpdateFailed(u) ==
  /\ Fail
  /\ update[u].pc \in {"closing", "sealing", "starting", "fetching", "failing", "installing",
                       "breaking", "booted"}
  /\ update' = [update EXCEPT ![u] = NoUpdate("done")]
  /\ UNCHANGED <<connectorVars, ask, cancel, start, stopping, requests, granted, firmware>>

UpdateProgress(u) ==
  \/ Retrieve(u) \/ Closed(u) \/ Downloading(u) \/ DownloadFailed(u) \/ Downloaded(u)
  \/ Waited(u) \/ Sealed(u) \/ Paused(u) \/ Installing(u) \/ InstallationFailed(u)
  \/ Reset(u) \/ Installed(u)

FirmwareStep ==
  \E u \in Updates :
    \/ UpdateFirmware(u)
    \/ UpdateProgress(u)
    \/ UpdateFailed(u)

Next ==
  \/ (ReservationStep \/ TransactionStep) /\ UNCHANGED firmwareVars
  \/ FirmwareStep

Spec == FirmwareInit /\ [][Next]_stationVars

\* The server answers, timers fire, and transactions end.
Settling ==
  \/ \E k \in Asks : (\E d \in Connectors : Purged(k, d, TRUE)) \/ Replaced(k) \/ Reserved(k)
  \/ \E k \in Cancels : Cancelled(k)
  \/ \E s \in Starts : Prepared(s) \/ StartAccepted(s) \/ StartIgnored(s) \/ StartRejected(s)
                         \/ StartNotified(s)
  \/ \E c \in Connectors : StopAnswered(c) \/ Stopped(c)

Fairness ==
  /\ WF_stationVars(Settling /\ UNCHANGED firmwareVars)
  /\ \A u \in Updates : WF_stationVars(UpdateProgress(u))

FairSpec == Spec /\ Fairness

-----------------------------------------------------------------------------
(* Properties *)

Statuses == {"Available", "Reserved", "Preparing", "Charging", "Unavailable"}
Reservation == {None} \cup [id : Ids, tag : Tags, live : BOOLEAN]
AskRecords ==
  [pc : {"idle", "purging", "replacing", "reserving", "done"}, connector : AllConnectors,
   id : Ids \cup {NoId}, tag : Tags \cup {NoTag}, left : SUBSET Connectors]
CancelRecords ==
  [pc : {"idle", "cancelling", "done"}, connector : AllConnectors, id : Ids \cup {NoId}]
StartRecords ==
  [pc : {"idle", "preparing", "requested", "notifying", "done"}, connector : AllConnectors,
   tag : Tags \cup {NoTag}, id : Ids \cup {NoId}, target : Statuses \cup {"none"}]
UpdateRecords ==
  [pc : {"idle", "scheduled", "closing", "starting", "failing", "fetching", "waiting", "sealing",
         "pausing", "installing", "breaking", "resetting", "booted", "done"},
   at : AllConnectors, waited : BOOLEAN]
FirmwareStatuses ==
  {"none", "Downloading", "DownloadFailed", "Downloaded", "Installing", "InstallationFailed",
   "Installed"}

\* Type invariant: the variables have their types.
TypeOK ==
  /\ status \in [AllConnectors -> Statuses]
  /\ reservation \in [AllConnectors -> Reservation]
  /\ running \in [Connectors -> BOOLEAN]
  /\ ask \in [Asks -> AskRecords]
  /\ cancel \in [Cancels -> CancelRecords]
  /\ start \in [Starts -> StartRecords]
  /\ stopping \subseteq Connectors
  /\ requests \in 0..MaxRequests /\ events \in 0..MaxEvents
  /\ granted \subseteq [connector : AllConnectors, id : Ids, tag : Tags]
  /\ mishaps \subseteq Mishaps
  /\ firmware \in FirmwareStatuses
  /\ update \in [Updates -> UpdateRecords]

Live == {c \in AllConnectors : reservation[c].live}

\* No reservation id and no idTag is reserved twice at a time: isConnectorReservable
\* looks at the first match only and addReservation may await, and both are
\* harmless as long as no reservation is made while an expired one, whose
\* removal failed or came too early for it, hides a later match.
NothingReservedTwice ==
  "unpurged" \notin mishaps =>
    \A c, d \in Live :
      c # d => /\ reservation[c].id # reservation[d].id
               /\ reservation[c].tag # reservation[d].tag

\* Server and station agree on the reservations: the station holds exactly those
\* it has granted and that are not cancelled, expired, used by a transaction or
\* replaced on their connector, also across the restart of a firmware update.
\* Excused: a failed notification leaves the reservation of a request that is
\* answered Faulted, and a removal deletes, after its await, whatever
\* reservation the connector has by then (ChargingStation.ts:817).
ReservationsAgree ==
  mishaps \cap {"failed", "overtaken"} = {} =>
    granted = {Grant(c, reservation[c].id, reservation[c].tag) : c \in Live}

\* An update that has begun to download ends, with a failure status or after the
\* restart, unless a request of the station fails: it waits for the transactions
\* without missing the last one's end, and nothing that uses the connectors
\* meanwhile holds it up.
UpdateSettles ==
  firmware = "Downloading" ~>
    firmware \in {"DownloadFailed", "InstallationFailed", "Installed"} \/ "failed" \in mishaps
=============================================================================
