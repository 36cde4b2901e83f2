---------------------------- MODULE Transactions ----------------------------
(***************************************************************************)
(* The OCPP 1.6 transactions of one charging station: StartTransaction and  *)
(* StopTransaction with the handlers of their answers, remote start, remote  *)
(* stop and unlock requests, availability changes, and the transaction loops *)
(* of the automatic transaction generator (ATG), one per connector.          *)
(*                                                                          *)
(* One JavaScript thread: an action runs from one await to the next.  What  *)
(* is awaited is the answer of the server to a request of the station; it   *)
(* may come in any order, fail, or never come.  Identification is local     *)
(* (LocalAuthListEnabled, no remoteAuthorization), connectors are not       *)
(* grouped in EVSEs and nothing is reserved.                                *)
(***************************************************************************)
EXTENDS Integers, FiniteSets

CONSTANTS
  MaxConnectors, \* connectors of the station, besides connector 0
  Tags,          \* idTags
  LocalTags,     \* the idTags of the local authorization list
  NoTag,         \* no idTag
  AuthorizeRemoteTxRequests, \* the configuration key of that name
  RequireAuthorize, \* requireAuthorize of the ATG configuration
  OutOfOrderEnd, \* outOfOrderEndMeterValues takes effect
  MaxStarts,     \* bound: StartTransaction requests
  MaxStops,      \* bound: StopTransaction requests and unlocks
  MaxLoops,      \* bound: ATG loops at a time
  MaxChanges,    \* bound: ChangeAvailability requests
  MaxEvents      \* bound: starts of the ATG, ChangeAvailability requests and
                 \* failures of requests of the station, together

ASSUME TransactionsAssumption ==
  /\ MaxConnectors \in Nat /\ MaxStarts \in Nat /\ MaxStops \in Nat
  /\ MaxLoops \in Nat /\ MaxChanges \in Nat /\ MaxEvents \in Nat
  /\ LocalTags \subseteq Tags /\ NoTag \notin Tags
  /\ AuthorizeRemoteTxRequests \in BOOLEAN /\ RequireAuthorize \in BOOLEAN
  /\ OutOfOrderEnd \in BOOLEAN

Connectors == 1..MaxConnectors
Starts == 1..MaxStarts   \* also the transaction id the server gives
Stops == 1..MaxStops
Loops == 1..MaxLoops
Changes == 1..MaxChanges
NoTx == 0                \* no transaction id
Nobody == 0              \* no ATG loop

VARIABLES
  tx,        \* transactionId, NoTx unless transactionStarted
  status,    \* status, per connector and for connector 0
  operative, \* availability is Operative, per connector and for connector 0
  remote,    \* transactionRemoteStarted
  auth,      \* localAuthorizeIdTag if idTagLocalAuthorized
  metering,  \* transactionSetInterval refers to a live interval
  leaked,    \* live intervals that nothing refers to any more
  divider,   \* powerDivider, with powerSharedByConnectors
  start,     \* StartTransaction requests
  stop,      \* StopTransaction requests, remote stops and unlocks
  change,    \* ChangeAvailability requests
  run,       \* connectorsStatus.get(connectorId).start of the ATG
  loop,      \* activations of internalStartConnector
  events,    \* what MaxEvents bounds, so far
  open,      \* server: transactions started and not stopped
  mishaps    \* history: kinds of anomalies met, see Mishaps

connectorVars == <<tx, remote, auth, metering, leaked, divider>>
statusVars == <<status, operative>>
loopVars == <<run, loop>>
historyVars == <<events, mishaps>>
vars == <<connectorVars, statusVars, start, stop, change, loopVars, open, historyVars>>

\* failed:    a request of the station failed
\* refused:   the station drops a transaction the server has accepted
\* erased:    a failed start wipes the running transaction of its connector
\* late:      a start completes on a connector that runs another transaction
\* overtaken: a stop completes on a connector without its transaction
Mishaps == {"failed", "refused", "erased", "late", "overtaken"}
Note(kind, happened) == mishaps' = mishaps \cup {k \in {kind} : happened}

EmptyStart(pc) == [pc |-> pc, connector |-> 0, tag |-> NoTag, owner |-> Nobody, accepted |-> FALSE]
EmptyStop(pc) == [pc |-> pc, connector |-> 0, tx |-> NoTx, target |-> "none", owner |-> Nobody]
NoLoop == [pc |-> "idle", connector |-> 0]
EmptyChange(pc) == [pc |-> pc, type |-> TRUE, at |-> 0, last |-> 0]

Init ==
  /\ tx = [c \in Connectors |-> NoTx]
  /\ status = [c \in 0..MaxConnectors |-> "Available"]
  /\ operative = [c \in 0..MaxConnectors |-> TRUE]
  /\ remote = [c \in Connectors |-> FALSE] /\ auth = [c \in Connectors |-> NoTag]
  /\ metering = [c \in Connectors |-> FALSE] /\ leaked = [c \in Connectors |-> 0]
  /\ divider = 0
  /\ start = [s \in Starts |-> EmptyStart("idle")] /\ stop = [x \in Stops |-> EmptyStop("idle")]
  /\ change = [k \in Changes |-> EmptyChange("idle")]
  /\ run = [c \in Connectors |-> FALSE] /\ loop = [l \in Loops |-> NoLoop]
  /\ events = 0 /\ open = {} /\ mishaps = {}

Happens == events < MaxEvents /\ events' = events + 1

\* The identities of a kind are used in their order.
Unused(activation, i) ==
  activation[i].pc = "idle" /\ \A j \in 1..(i - 1) : activation[j].pc # "idle"

-----------------------------------------------------------------------------
(* What an ATG loop does when the request it awaits is settled *)

LoopAt(l, pc) ==
  [loop EXCEPT ![l] = IF pc = "idle" THEN NoLoop ELSE [@ EXCEPT !.pc = pc]]

\* The condition of the while of internalStartConnector.
NextIteration(l) == IF run[loop[l].connector] THEN "waiting" ELSE "idle"

Notify(l, pc) == loop' = IF l = Nobody THEN loop ELSE LoopAt(l, pc)

\* An exception ends internalStartConnector, without an effect on start.
LoopDies(l) == Notify(l, "idle")

EndStart(s) == start' = [start EXCEPT ![s] = EmptyStart("done")]

StartSettled(s, accepted) ==
  LET l == start[s].owner IN
  /\ EndStart(s)
  /\ IF l = Nobody
     THEN UNCHANGED loop
     ELSE Notify(l, IF accepted THEN "charging" ELSE NextIteration(l))

EndStop(x) == stop' = [stop EXCEPT ![x] = EmptyStop("done")]

StopSettled(x) ==
  LET l == stop[x].owner IN
  /\ EndStop(x)
  /\ IF l = Nobody THEN UNCHANGED loop ELSE Notify(l, NextIteration(l))

-----------------------------------------------------------------------------
(* Starting a transaction *)

StartRequest(s, pc, c, tag, l) ==
  /\ Unused(start, s)
  /\ start' = [start EXCEPT ![s] =
       [pc |-> pc, connector |-> c, tag |-> tag, owner |-> l, accepted |-> FALSE]]

\* handleRequestRemoteStartTransaction.  A request without a connector id takes
\* the first connector without a transaction: one of the choices made here.
RemoteStart(s, c, tag) ==
  /\ StartRequest(s, "responding", c, tag, Nobody)
  /\ operative[0] /\ operative[c]
  /\ IF AuthorizeRemoteTxRequests
     THEN tag \in LocalTags /\ auth' = [auth EXCEPT ![c] = tag]
     ELSE UNCHANGED auth
  /\ UNCHANGED <<tx, remote, metering, leaked, divider, statusVars, stop, change, loopVars, open, historyVars>>

\* Its response is sent: the delayed StartTransaction.
RemoteStartResponded(s) ==
  /\ start[s].pc = "responding"
  /\ start' = [start EXCEPT ![s].pc = "preparing"]
  /\ remote' = [remote EXCEPT ![start[s].connector] = TRUE]
  /\ UNCHANGED <<tx, auth, metering, leaked, divider, statusVars, stop, change, loopVars, open, historyVars>>

\* The UI's start transaction.
UIStart(s, c, tag) ==
  /\ StartRequest(s, "preparing", c, tag, Nobody)
  /\ UNCHANGED <<connectorVars, statusVars, stop, change, loopVars, open, historyVars>>

\* requestHandler has sent 'Preparing' and sends StartTransaction.
Prepared(s) ==
  /\ start[s].pc = "preparing"
  /\ start' = [start EXCEPT ![s].pc = "requested"]
  /\ status' = [status EXCEPT ![start[s].connector] = "Preparing"]
  /\ UNCHANGED <<connectorVars, operative, stop, change, loopVars, open, historyVars>>

\* resetConnectorStatus and stopMeterValues
ResetConnector(c) ==
  /\ tx' = [tx EXCEPT ![c] = NoTx]
  /\ remote' = [remote EXCEPT ![c] = FALSE]
  /\ auth' = [auth EXCEPT ![c] = NoTag]
  /\ metering' = [metering EXCEPT ![c] = FALSE]
  /\ UNCHANGED leaked

\* The checks of handleResponseStartTransaction before the answer counts.
NotLocallyAuthorized(c) == remote[c] /\ AuthorizeRemoteTxRequests /\ auth[c] = NoTag
OtherTagAuthorized(c, tag) == auth[c] # NoTag /\ auth[c] # tag
Used(c) == tx[c] # NoTx
Startable(c) == status[c] \in {"Available", "Preparing"}

WrongTag(s) ==
  LET c == start[s].connector IN
  NotLocallyAuthorized(c) \/ OtherTagAuthorized(c, start[s].tag)

\* Faulty: the answer is not checked against the running transaction.
BeginTransactionAnyway(s) ==
  LET c == start[s].connector IN
  /\ ~WrongTag(s) /\ Startable(c)
  /\ tx' = [tx EXCEPT ![c] = s]
  /\ start' = [start EXCEPT ![s].pc = "charging", ![s].accepted = TRUE, ![s].tag = NoTag]
  /\ UNCHANGED <<remote, auth, metering, leaked, divider, loop, mishaps>>

\* handleResponseStartTransaction accepts: up to the notification 'Charging'.
BeginTransaction(s) ==
  LET c == start[s].connector IN
  /\ ~WrongTag(s) /\ ~Used(c) /\ Startable(c)
  /\ tx' = [tx EXCEPT ![c] = s]
  /\ start' = [start EXCEPT ![s].pc = "charging", ![s].accepted = TRUE, ![s].tag = NoTag]
  /\ UNCHANGED <<remote, auth, metering, leaked, divider, loop, mishaps>>

\* handleResponseStartTransaction returns without an effect.
IgnoreStart(s, accepted) ==
  LET c == start[s].connector IN
  /\ ~WrongTag(s) /\ (Used(c) \/ ~Startable(c))
  /\ StartSettled(s, accepted)
  /\ Note("refused", accepted)
  /\ UNCHANGED connectorVars

\* resetConnectorOnStartTransactionError
ResetOnStartError(s, accepted) ==
  LET c == start[s].connector IN
  /\ \/ WrongTag(s)
     \/ ~accepted /\ ~Used(c) /\ Startable(c)
  /\ ResetConnector(c)
  /\ mishaps' = mishaps \cup {k \in {"refused"} : accepted} \cup {k \in {"erased"} : Used(c)}
  /\ IF status[c] = "Available"
     THEN StartSettled(s, accepted)
     ELSE /\ start' = [start EXCEPT ![s].pc = "restoring", ![s].accepted = accepted, ![s].tag = NoTag]
          /\ UNCHANGED loop
  /\ UNCHANGED divider

\* The server answers StartTransaction.
StartAnswered(s, accepted) ==
  /\ start[s].pc = "requested"
  /\ open' = open \cup {t \in {s} : accepted}
  /\ \/ accepted /\ BeginTransaction(s)
     \/ IgnoreStart(s, accepted)
     \/ ResetOnStartError(s, accepted)
  /\ UNCHANGED <<statusVars, stop, change, run, events>>

\* Faulty: the meter values start whether or not a transaction is running.
StartMeterValuesAnyway(c) ==
  /\ metering' = [metering EXCEPT ![c] = TRUE]
  /\ leaked' = [leaked EXCEPT ![c] = @ + IF metering[c] THEN 1 ELSE 0]

\* startMeterValues: without a transaction it does nothing; an interval that is
\* still set is overwritten.
StartMeterValues(c) ==
  IF tx[c] = NoTx
  THEN UNCHANGED <<metering, leaked>>
  ELSE /\ metering' = [metering EXCEPT ![c] = TRUE]
       /\ leaked' = [leaked EXCEPT ![c] = @ + IF metering[c] THEN 1 ELSE 0]

\* 'Charging' is answered: the rest of handleResponseStartTransaction.
Charging(s) ==
  LET c == start[s].connector IN
  /\ start[s].pc = "charging"
  /\ status' = [status EXCEPT ![c] = "Charging"]
  /\ divider' = divider + 1
  /\ StartMeterValues(c)
  /\ Note("late", tx[c] \notin {s, NoTx})
  /\ StartSettled(s, TRUE)
  /\ UNCHANGED <<tx, remote, auth, operative, stop, change, run, open, events>>

\* 'Available' is answered at the end of restoreConnectorStatus.
Restored(s) ==
  /\ start[s].pc = "restoring"
  /\ status' = [status EXCEPT ![start[s].connector] = "Available"]
  /\ StartSettled(s, start[s].accepted)
  /\ UNCHANGED <<connectorVars, operative, stop, change, run, open, historyVars>>

Fail ==
  /\ Happens
  /\ Note("failed", TRUE)

\* A request awaited by the start fails.  StartTransaction itself may have been
\* buffered: it is answered later, when nobody awaits it.
StartFailed(s) ==
  /\ Fail
  /\ start[s].pc \in {"responding", "preparing", "requested", "charging", "restoring"}
  /\ \/ EndStart(s)
     \/ start[s].pc = "requested" /\ start' = [start EXCEPT ![s].owner = Nobody]
  /\ LoopDies(start[s].owner)
  /\ UNCHANGED <<connectorVars, statusVars, stop, change, run, open>>

-----------------------------------------------------------------------------
(* Stopping a transaction *)

\* getConnectorIdByTransactionId
ConnectorsOf(t) == {c \in Connectors : t # NoTx /\ tx[c] = t}

StopRequest(x, pc, c, t, l) ==
  /\ Unused(stop, x)
  /\ stop' = [stop EXCEPT ![x] =
       [pc |-> pc, connector |-> c, tx |-> t, target |-> "none", owner |-> l]]

\* handleRequestRemoteStopTransaction
RemoteStop(x, t) ==
  /\ ConnectorsOf(t) # {}
  /\ StopRequest(x, "responding", 0, t, Nobody)
  /\ UNCHANGED <<connectorVars, statusVars, start, change, loopVars, open, historyVars>>

\* Its response is sent: the connector is looked up again, and 'Finishing' is
\* sent unless there is none any more.
RemoteStopResponded(x) ==
  /\ stop[x].pc = "responding"
  /\ IF ConnectorsOf(stop[x].tx) = {}
     THEN stop' = [stop EXCEPT ![x].pc = "requested", ![x].tx = NoTx]
     ELSE \E c \in ConnectorsOf(stop[x].tx) :
            stop' = [stop EXCEPT ![x].pc = "finishing", ![x].connector = c, ![x].tx = NoTx]
  /\ UNCHANGED <<connectorVars, statusVars, start, change, loopVars, open, historyVars>>

\* 'Finishing' is answered; stopTransactionOnConnector reads the transaction id.
Finishing(x) ==
  LET c == stop[x].connector IN
  /\ stop[x].pc = "finishing"
  /\ status' = [status EXCEPT ![c] = "Finishing"]
  /\ stop' = [stop EXCEPT ![x].pc = "requested", ![x].connector = 0, ![x].tx = tx[c]]
  /\ UNCHANGED <<connectorVars, operative, start, change, loopVars, open, historyVars>>

\* handleRequestUnlockConnector
UnlockConnector(x, c) ==
  /\ IF Used(c)
     THEN StopRequest(x, "requested", 0, tx[c], Nobody)
     ELSE StopRequest(x, "unlocking", c, NoTx, Nobody)
  /\ UNCHANGED <<connectorVars, statusVars, start, change, loopVars, open, historyVars>>

Unlocked(x) ==
  /\ stop[x].pc = "unlocking"
  /\ status' = [status EXCEPT ![stop[x].connector] = "Available"]
  /\ EndStop(x)
  /\ UNCHANGED <<connectorVars, operative, start, change, loopVars, open, historyVars>>

\* The UI's stop transaction, offered for the transaction of a connector.
UIStop(x, t) ==
  /\ ConnectorsOf(t) # {}
  /\ StopRequest(x, "requested", 0, t, Nobody)
  /\ UNCHANGED <<connectorVars, statusVars, start, change, loopVars, open, historyVars>>

\* Faulty: no status is decided on.
ReleaseAsIs(x, c) == stop' = [stop EXCEPT ![x].pc = "releasing", ![x].connector = c]

\* handleResponseStopTransaction decides on the status to notify.
ReleaseAs(x, c) ==
  stop' = [stop EXCEPT ![x].pc = "releasing", ![x].connector = c,
    ![x].target = IF operative[0] /\ operative[c] THEN "Available" ELSE "Unavailable"]

\* The server answers StopTransaction.
StopAnswered(x) ==
  LET t == stop[x].tx IN
  /\ stop[x].pc = "requested"
  /\ open' = open \ {t}
  /\ IF ConnectorsOf(t) = {}
     THEN StopSettled(x)
     ELSE /\ \E c \in ConnectorsOf(t) :
               IF OutOfOrderEnd
               THEN stop' = [stop EXCEPT ![x].pc = "metering", ![x].connector = c]
               ELSE ReleaseAs(x, c)
          /\ UNCHANGED loop
  /\ UNCHANGED <<connectorVars, statusVars, start, change, run, historyVars>>

\* The Transaction.End MeterValues sent out of order are answered.
EndMetered(x) ==
  /\ stop[x].pc = "metering"
  /\ ReleaseAs(x, stop[x].connector)
  /\ UNCHANGED <<connectorVars, statusVars, start, change, loopVars, open, historyVars>>

\* Faulty: the power divider stays.
ReleaseWithoutDivider(x) ==
  LET c == stop[x].connector IN
  /\ stop[x].pc = "releasing"
  /\ status' = [status EXCEPT ![c] = stop[x].target]
  /\ ResetConnector(c)
  /\ Note("overtaken", tx[c] # stop[x].tx)
  /\ StopSettled(x)
  /\ UNCHANGED <<divider, operative, start, change, run, open, events>>

\* The status is answered: the rest of handleResponseStopTransaction.
Release(x) ==
  LET c == stop[x].connector IN
  /\ stop[x].pc = "releasing"
  /\ status' = [status EXCEPT ![c] = stop[x].target]
  /\ divider' = divider - 1
  /\ ResetConnector(c)
  /\ Note("overtaken", tx[c] # stop[x].tx)
  /\ StopSettled(x)
  /\ UNCHANGED <<operative, start, change, run, open, events>>

\* A request awaited by the stop fails.
StopFailed(x) ==
  /\ Fail
  /\ stop[x].pc \in {"responding", "finishing", "requested", "metering", "releasing", "unlocking"}
  /\ \/ EndStop(x)
     \/ stop[x].pc = "requested" /\ stop' = [stop EXCEPT ![x].owner = Nobody]
  /\ LoopDies(stop[x].owner)
  /\ UNCHANGED <<connectorVars, statusVars, start, change, run, open>>

-----------------------------------------------------------------------------
(* Changing the availability *)

\* changeAvailability from connector i on: every connector gets its
\* availability up to the first without a transaction, which is notified.
ChangeFrom(k, type, i, last) ==
  LET free == {c \in i..last : c = 0 \/ tx[c] = NoTx}
      SetUntil(until) ==
        operative' = [c \in 0..MaxConnectors |-> IF c \in i..until THEN type ELSE operative[c]]
  IN
  \/ /\ free = {} /\ SetUntil(last)
     /\ change' = [change EXCEPT ![k] = EmptyChange("done")]
  \/ \E at \in free :
       /\ \A c \in free : at <= c
       /\ SetUntil(at)
       /\ change' = [change EXCEPT ![k] =
            [pc |-> "notifying", type |-> type, at |-> at, last |-> last]]

\* handleRequestChangeAvailability
ChangeAvailability(k, c, type) ==
  /\ Unused(change, k) /\ Happens
  /\ c = 0 \/ operative[0] \/ ~type
  /\ ChangeFrom(k, type, c, IF c = 0 THEN MaxConnectors ELSE c)
  /\ UNCHANGED <<connectorVars, status, start, stop, loopVars, open, mishaps>>

\* The status of one connector is answered.
ChangeNotified(k) ==
  LET q == change[k] IN
  /\ q.pc = "notifying"
  /\ status' = [status EXCEPT ![q.at] = IF q.type THEN "Available" ELSE "Unavailable"]
  /\ ChangeFrom(k, q.type, q.at + 1, q.last)
  /\ UNCHANGED <<connectorVars, start, stop, loopVars, open, historyVars>>

ChangeFailed(k) ==
  /\ Fail
  /\ change[k].pc = "notifying"
  /\ change' = [change EXCEPT ![k] = EmptyChange("done")]
  /\ UNCHANGED <<connectorVars, statusVars, start, stop, loopVars, open>>

-----------------------------------------------------------------------------
(* The automatic transaction generator *)

\* startConnector
StartConnector(l, c) ==
  /\ ~run[c] /\ Unused(loop, l) /\ Happens
  /\ run' = [run EXCEPT ![c] = TRUE]
  /\ loop' = [loop EXCEPT ![l] = [pc |-> "waiting", connector |-> c]]
  /\ UNCHANGED <<connectorVars, statusVars, start, stop, change, open, mishaps>>

\* stopConnector
StopConnector(c) ==
  /\ run[c]
  /\ run' = [run EXCEPT ![c] = FALSE]
  /\ UNCHANGED <<connectorVars, statusVars, start, stop, change, loop, open, historyVars>>

\* The three waits are over and canStartConnector agrees: sleep.
LoopDelays(l) ==
  LET c == loop[l].connector IN
  /\ loop[l].pc = "waiting"
  /\ operative[0] /\ operative[c] /\ ~Used(c)
  /\ loop' = LoopAt(l, "delaying")
  /\ UNCHANGED <<connectorVars, statusVars, start, stop, change, run, open, historyVars>>

\* Faulty: the loop ends and the connector stays started.
LoopStopsOnly(l) ==
  /\ loop[l].pc = "waiting"
  /\ loop' = LoopAt(l, "idle")
  /\ UNCHANGED <<connectorVars, statusVars, start, stop, change, run, open, historyVars>>

\* canStartConnector refuses: the stop date is reached, the station is not
\* accepted, or a wait that was over no longer is.
LoopStops(l) ==
  /\ loop[l].pc = "waiting"
  /\ run' = [run EXCEPT ![loop[l].connector] = FALSE]
  /\ loop' = LoopAt(l, "idle")
  /\ UNCHANGED <<connectorVars, statusVars, start, stop, change, open, historyVars>>

\* The sleep ends; the transaction is skipped, by chance or unauthorized.
LoopSkips(l) ==
  /\ loop[l].pc = "delaying"
  /\ loop' = LoopAt(l, NextIteration(l))
  /\ UNCHANGED <<connectorVars, statusVars, start, stop, change, run, open, historyVars>>

\* The sleep ends; startTransaction.
LoopStarts(l, s, tag) ==
  LET c == loop[l].connector IN
  /\ loop[l].pc = "delaying"
  /\ IF RequireAuthorize
     THEN tag \in LocalTags /\ auth' = [auth EXCEPT ![c] = tag]
     ELSE UNCHANGED auth
  /\ StartRequest(s, "preparing", c, tag, l)
  /\ loop' = LoopAt(l, "starting")
  /\ UNCHANGED <<tx, remote, metering, leaked, divider, statusVars, stop, change, run, open, historyVars>>

\* The sleep of the transaction ends; stopTransaction.
LoopEndsCharging(l) ==
  LET c == loop[l].connector IN
  /\ loop[l].pc = "charging"
  /\ IF Used(c)
     THEN /\ \E x \in Stops : StopRequest(x, "requested", 0, tx[c], l)
          /\ loop' = LoopAt(l, "stopping")
     ELSE /\ UNCHANGED stop
          /\ loop' = LoopAt(l, NextIteration(l))
  /\ UNCHANGED <<connectorVars, statusVars, start, change, run, open, historyVars>>

-----------------------------------------------------------------------------

StartStep(s) ==
  \/ RemoteStartResponded(s) \/ Prepared(s)
  \/ \E accepted \in BOOLEAN : StartAnswered(s, accepted)
  \/ Charging(s) \/ Restored(s)

StopStep(x) ==
  \/ RemoteStopResponded(x) \/ Finishing(x) \/ Unlocked(x)
  \/ StopAnswered(x) \/ EndMetered(x) \/ Release(x)

Starting(s) ==
  \/ \E c \in Connectors, tag \in Tags : RemoteStart(s, c, tag) \/ UIStart(s, c, tag)
  \/ StartStep(s) \/ StartFailed(s)

Stopping(x) ==
  \/ \E t \in Starts : RemoteStop(x, t) \/ UIStop(x, t)
  \/ \E c \in Connectors : UnlockConnector(x, c)
  \/ StopStep(x) \/ StopFailed(x)

Changing(k) ==
  \/ \E c \in 0..MaxConnectors, type \in BOOLEAN : ChangeAvailability(k, c, type)
  \/ ChangeNotified(k) \/ ChangeFailed(k)

Generating(l) ==
  \/ \E c \in Connectors : StartConnector(l, c)
  \/ LoopDelays(l) \/ LoopStops(l) \/ LoopSkips(l)
  \/ \E s \in Starts, tag \in Tags : LoopStarts(l, s, tag)
  \/ LoopEndsCharging(l)

Next ==
  \/ \E s \in Starts : Starting(s)
  \/ \E x \in Stops : Stopping(x)
  \/ \E k \in Changes : Changing(k)
  \/ \E l \in Loops : Generating(l)
  \/ \E c \in Connectors : StopConnector(c)

Spec == Init /\ [][Next]_vars

-----------------------------------------------------------------------------
(* Properties *)

StatusValues == {"Available", "Preparing", "Charging", "Finishing", "Unavailable"}

StartRecords ==
  [pc : {"idle", "responding", "preparing", "requested", "charging", "restoring", "done"},
   connector : 0..MaxConnectors, tag : Tags \cup {NoTag},
   owner : Loops \cup {Nobody}, accepted : BOOLEAN]
StopRecords ==
  [pc : {"idle", "responding", "finishing", "requested", "metering", "releasing", "unlocking", "done"},
   connector : 0..MaxConnectors, tx : Starts \cup {NoTx},
   target : StatusValues \cup {"none"}, owner : Loops \cup {Nobody}]
LoopRecords ==
  [pc : {"idle", "waiting", "delaying", "starting", "charging", "stopping"},
   connector : 0..MaxConnectors]

\* Every variable has its type.
TypeOK ==
  /\ tx \in [Connectors -> Starts \cup {NoTx}]
  /\ status \in [0..MaxConnectors -> StatusValues]
  /\ operative \in [0..MaxConnectors -> BOOLEAN]
  /\ remote \in [Connectors -> BOOLEAN] /\ auth \in [Connectors -> Tags \cup {NoTag}]
  /\ metering \in [Connectors -> BOOLEAN] /\ leaked \in [Connectors -> Nat]
  /\ divider \in Int
  /\ start \in [Starts -> StartRecords]
  /\ stop \in [Stops -> StopRecords]
  /\ change \in [Changes -> [pc : {"idle", "notifying", "done"}, type : BOOLEAN,
                             at : 0..MaxConnectors, last : 0..MaxConnectors]]
  /\ run \in [Connectors -> BOOLEAN]
  /\ loop \in [Loops -> LoopRecords]
  /\ events \in 0..MaxEvents
  /\ open \subseteq Starts /\ mishaps \subseteq Mishaps

\* Meter values are sampled during transactions only: the interval of a
\* connector is cleared before its transaction id is, however many starts and
\* stops overlap on it.  An interval is lost for good only after a start has
\* completed on a connector that already ran the transaction of a later one.
MeteringOnlyDuringTransaction ==
  \A c \in Connectors :
    /\ metering[c] => tx[c] # NoTx
    /\ leaked[c] > 0 => "late" \in mishaps

\* handleResponseStartTransaction and handleResponseStopTransaction keep the
\* power divider at the number of running transactions, as getPowerDivider
\* computes it, less those that have yet to notify 'Charging'; it goes wrong
\* only after a request failed, a failed start erased a transaction, or a stop
\* completed after another one had ended its transaction.
DividerCountsTransactions ==
  mishaps \cap {"failed", "erased", "overtaken"} = {} =>
    divider + Cardinality({s \in Starts : start[s].pc = "charging"})
      = Cardinality({c \in Connectors : Used(c)})

BeingReleased(t) == \E x \in Stops : stop[x].pc \in {"metering", "releasing"} /\ stop[x].tx = t

\* Station and server agree on the transactions: those open on the server are
\* those of the connectors, except for the ones whose stop the server has
\* answered and the station has yet to complete.  They come to disagree only by
\* failed requests, refused starts or overlapping stops.
ServerAndStationAgree ==
  mishaps \subseteq {"late"} =>
    open = {t \in Starts : ConnectorsOf(t) # {} /\ ~BeingReleased(t)}

\* A connector the ATG considers started has a loop that serves it, unless a
\* request failed: internalStartConnector ends by an exception then.
StartedConnectorHasLoop ==
  \A c \in Connectors :
    run[c] => \/ \E l \in Loops : loop[l].pc # "idle" /\ loop[l].connector = c
              \/ "failed" \in mishaps

=============================================================================
