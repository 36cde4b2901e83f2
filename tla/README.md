# Formal verification of the e-mobility charging stations simulator

This directory holds TLA+ models of the simulator's core logic, the TLC
configurations that check them on small instances, and TLAPS proofs of what
holds for every instance. `PROJECT.json` maps every definition to the lines of
code it stands for.

## 1. The system

The simulator runs charging stations that talk OCPP-J (1.6 or 2.0) to a central
server over WebSockets.

| Part | State it keeps | Operations | Talks to |
|---|---|---|---|
| `Bootstrap` | started/starting/stopping, per-template counters, set of indexes | start, stop, restart, addChargingStation, events of the workers | worker set, UI server, storage |
| `WorkerSet` (and poolifier pools) | set of worker threads with a count of stations, map of calls awaiting an answer | addElement, start, stop; message, error, exit listeners | worker threads, by messages |
| `ChargingStationWorker` | the stations of one thread | create a station per message | main thread |
| `ChargingStation` | life (started, starting, stopping), `wsConnection`, registration, timers, request cache, message buffer, connectors/EVSEs, configuration hash | start, stop, reset, delete, open/close connection, onOpen/onMessage/onClose/onError, buffer and flush, reservations, persistence | OCPP services, ATG, caches |
| OCPP request / response / incoming request services, 1.6 and 2.0 | schemas, report and variable caches (2.0) | send a call or a reply, handle an answer, handle a request | station, server |
| `AutomaticTransactionGenerator` | per-connector status, one loop per connector | start, stop, startConnector, stopConnector | station, request service |
| UI server, UI services, broadcast channels | pending UI requests, expected and received answers per request | forward a procedure to stations, aggregate answers | browser clients, stations |
| Caches, configuration keys, `AsyncLock`, file storage | LRU of templates and configurations, id tags, lock queues | get, set, delete; run exclusively | station |
| Performance statistics, logging, simulator configuration | measurements, files | record, store, read | everything |

Within one thread everything is a JavaScript event loop: code between two
`await`s is atomic, and everything else interleaves. That is the granularity of
all the models: an action is what runs between two returns to the event loop.

### What is hard, and what makes each part correct

* Messaging: a call may fail at once, time out and succeed later, be answered
  before, after or never; failed messages are buffered and re-sent by a loop
  that three callers start. Correct when nothing buffered is lost, repeated or
  reordered, at most one loop runs, an answer finds its request, and a caller
  that waits can be answered.
* Connection and life: sockets that were superseded keep their listeners, so a
  late `close`, `error` or `open` of an old socket acts on the state of the new
  one; sleeping reconnections and resets wake up in another life of the station.
  Correct when timers do not outlive connections, retries are bounded, and a
  started station always has something that will reconnect or register it.
* Worker set: threads fail, exit and are replaced while calls to them are in
  flight, and the stop iterates over a set others add to. Correct when no call
  is left without an answer, no thread survives the stop, and counts are sound.
* Transactions: starts and stops of one connector by the generator, the UI and
  the server overlap, and each of them awaits requests between its steps.
  Correct when the meter timer and the power divider follow the transactions,
  station and server agree on what is running, and a connector the generator
  considers started has a loop.
* Simulator: commands of UI clients, the simulator's own stop, a reload of its
  configuration and the death of workers overlap, and the main thread knows the
  stations only through events that are still on their way. Correct when a
  stopped simulator runs nothing, the counters that the stop relies on agree
  with the stations, and two stations never get the same identity.
* Variables and persistence (2.0.1): a request sets several variables, some of
  which share a configuration key, keys are saved or not depending on whether
  they existed, and a save is skipped by comparing hashes. Correct when what was
  accepted is read back, timers follow the keys, and the file of a station that
  stopped has all of them.
* Remote transactions and resets (2.0.1): starts, stops, immediate and on-idle
  resets overlap with answers and timers, and a reset replaces the objects that
  suspended handlers hold. Correct when a transaction is cleared only after its
  end was sent and a free connector is left without traces of one.
* Base reports (2.0.1): built, cached and sent in parts. Correct when a report is
  the one asked for, and its parts are the report.
* Reservations and firmware update (1.6): each looks at the connectors, awaits
  and then acts on what it saw. Correct when server and station agree on what is
  reserved, nothing is reserved twice, and an update that began ends.
* Charging profiles: lists with replacement rules, priorities, and limits in
  time. Correct when the limit is that of the profile and period in force.

## 2. Modules

| Module | Models |
|---|---|
| `OcppMessaging` | `OCPPRequestService.internalSendMessage`, the request cache, the answers, `messageQueue` with its flush loop and interval |
| `Outbox` | abstract specification of the buffer: accept messages, deliver them in that order |
| `StationConnection` | start/stop/reset, sockets, reconnect, registration loop of `onOpen`, heartbeat and ping |
| `WorkerSet` | `WorkerSet.ts` and the worker side of its protocol |
| `Transactions` | OCPP 1.6 StartTransaction and StopTransaction with the handlers of their answers, remote start and stop, unlock, ChangeAvailability, the loops of the generator |
| `Simulator` | `Bootstrap`'s start, stop and restart, its statistics and listeners, the broadcast commands and their answers, the stations in their workers |
| `DeviceModel` | the 2.0.1 variable registry, entry by entry |
| `VariableManager` | SetVariables, GetVariables, the configuration keys, `saveConfiguration` with hash, lock and cache, boots, resets and crashes |
| `Requests20` | 2.0.1 RequestStartTransaction, RequestStopTransaction and Reset, the timers they arm, the stop and initialisation a reset goes through; EXTENDS the next two |
| `BaseReports` | GetBaseReport: the content of a report, its cache and its delivery in parts |
| `ChargingProfiles20` | the checks of a charging profile of 2.0.1 |
| `Reservations` | 1.6 ReserveNow, CancelReservation, expiry, and the transactions that use a reservation |
| `FirmwareUpdate` | 1.6 UpdateFirmware; EXTENDS `Reservations`, with which it shares the connectors |
| `ChargingProfiles16` | the lists of charging profiles of 1.6, the limit they impose, composite schedules, as operators |
| `*_proof` | theorems about the module of that name |
| `MC*` | the instance of a module for TLC |

Definitions called *Faulty* in a comment are plausible bugs of the code: they
are part of no specification, and serve to show that each property notices when
the definition after them is replaced.

### OcppMessaging

`promise[m]` is the promise of `internalSendMessage`, `callback` the messages
whose `ws.send` callback is to come, `timer` the armed send timeouts, `requests`
the keys of the cache, `queue` is `messageQueue`, `flushing` is
`flushingMessageBuffer`. `loop[l]` is one activation of `sendMessageBuffer`:
*sending* or *failing* while it awaits `ws.send`, *sleeping* in its backoff, and
*lost* when `wsConnection` was null (`?.send` never calls back) or still
connecting (`send` throws). A throw after a sleep escapes as an unhandled
rejection: `crashed`. `sent`, `answered`, `timedOut`, `pushed` and `flushed` are
history variables that only properties read. A response handler that awaits
(`Slow`) keeps the cache entry meanwhile, so a second answer can be handled
twice; the model does so. Answers are those of a server that answers each
transmission at most once, after the callback of its `ws.send`: an answer that
precedes the callback is out of the model. The registration status is what
restricts sending (`MaySend`; among the replies it lets `Errors` wait for the
acceptance); the content of messages is not modelled. A message sequence ends
with its flush or throws before it (`MessageSequenceFails`).

### StationConnection

`socket[s]` is the readyState of each WebSocket ever created, `current` is
`wsConnection`. A handshake failure is an `error` event (whose listener closes
whatever connection is open) followed by an abnormal `close`. `boot[s]` is the
control state of the loop of the `onOpen` of socket `s` and `via[s]` the socket
its request was written to; its answer can only come while that socket is not
closed. A BootNotification that fails when no response was ever stored ends the
loop by an exception. `asked` is a BootNotification outside of the loop, from
the UI or a TriggerMessage. Intervals are taken to be positive when
registration starts the timers. `lastClose` keeps what the last close was:
normal, abnormal, or *lost*, an abnormal one that met an accepted station with
its heartbeat on (`KindOfClose`). Left out: autoRegister, the template file
watcher, the ATG, `setSupervisionUrl`, `delete`.

### WorkerSet

Workers are numbered in creation order, which is the iteration order of the
JavaScript `Set`. `counted[w]` is `numberOfWorkerElements`, `hosted[w]` the
stations thread `w` really runs. `terminating` is the worker `stop` waits for.
Answers a thread posted are delivered before its exit event, but in any order
with its error event. `workerStartup` is set and reset within one synchronous
call, so no listener ever sees it true: it is left out. Restart on error is on,
as `Bootstrap` configures it.

### Transactions

`tx[c]` is `transactionId` of connector `c` (`NoTx` unless `transactionStarted`;
the code sets and resets both together), `metering[c]` says that
`transactionSetInterval` refers to a live interval and `leaked[c]` counts the
live intervals nothing refers to any more. `start[s]`, `stop[x]` and `change[k]`
are activations of handlers; their `pc` is what they await:

| `start[s].pc` | awaits |
|---|---|
| `responding` | the response to RemoteStartTransaction |
| `preparing` | StatusNotification Preparing, before StartTransaction is sent |
| `requested` | the answer to StartTransaction |
| `charging` | StatusNotification Charging, the transaction already stored |
| `restoring` | StatusNotification Available after a failed start |

and for `stop[x]`: `responding`, `finishing`, `requested`, `metering` (the
out-of-order Transaction.End), `releasing` (the status at the end) and
`unlocking`. `loop[l]` is one activation of `internalStartConnector`, `owner` of
a start or stop the loop that awaits it, `run[c]` the `start` flag of the
connector's generator status. `stop[x].tx` is kept because the handler compares
the connector found before its awaits with what it resets after them.

The server is free: it answers in any order, accepts or refuses every start,
and any request of the station may fail, at each of its awaits (`StartFailed`,
`StopFailed`, `ChangeFailed`). The request that failed may have been buffered,
and be answered later when nobody awaits it. Data the properties do not tell
apart is left out: meter values, energy, limits of charging. A transaction id is
the number of its start.

`mishaps` is a history of the kinds of anomalies that have happened. Overlapping
starts and stops really break the agreement of server, station and power
divider; the properties say which kinds must have happened before, so that no
other interleaving does.

Left out: remote authorization (identification is local), connectors grouped in
EVSEs, reservations (the subject of `Reservations`), `stopRunningTransactions` of a stopping station, the stop
of all transactions by a Reset, meter values at the start of a transaction
(nothing reads state after that await but the connector's own), and `start` and
`stop` of the whole generator, which call `startConnector` and `stopConnector`
for each connector.

### Simulator

`flags` are `Bootstrap`'s booleans; `start`, `stop` and `reload` say what its
methods await: `start()` the workers (`workers`) and then its stations
(`adding`), `stop()` the events of the stations (`waiting`) and then the end of
the workers (`closing`), `restart()` its `stop()` or its `start()`.
`workers.generation` numbers the worker implementations, since a reload replaces
`workerImplementation` by a new one. `stats` is the entry of one template in
`templateStatistics` (its `indexes`, as the code keeps them), `listening` says
that the listeners of the events exist, which `stop()` removes. `known` is the
UI server's cache of stations. A station's hash id is a hash of template and
index, so its index stands for it.

A `ChargingStation` object is `asked` for, `up` or `deleted`; `waiter` is the
command whose `stop()` it awaits. `inbox` holds broadcast commands in order,
`outbox` what its worker posted to the main thread in order: the order between
stations of one worker is not kept, which only adds behaviours. Replies to a
command go over the broadcast channel, and are a set. `adds` are the calls of
`addElement`: *asked* until the worker answers, *answered* during
`elementAddDelay`. A worker here has one station; how workers are shared, and
their end one after the other, is the subject of `WorkerSet`: `StopEnds` takes
the end of them all in one step.

`history` records what the properties except: `overlapped`, a reload that
`stop()` refused while a start or a stop was in progress; `raced`, two
`addChargingStations` requests in flight; `drifted`, a running station lost with
its worker or deleted while stopping, or messages lost at the end of a stop;
`stuck`, a station whose stop failed and that is left *stopping*.

Left out: `gracefulShutdown` (it ends the process), the performance storage, the
HTTP UI server, requests that are refused at once, clients that disconnect, the
other commands (which are modelled where they act), a station that restarts by
a Reset while the simulator stops, and templates other than one.

### DeviceModel and VariableManager

A registry entry is a record with the fields the variable manager reads. Raw
values are records too: what tells values apart is their text, whether they are
an integer, and their length. `keys[s]` are the configuration keys of station
`s`, `file[s]` its configuration file with the hash in it, `fileHash[s]` the hash
of the last write, `writes` the queue of `AsyncLock`. The handlers are
synchronous: SetVariables is one action, which enqueues writes, and the writes
are the microtasks that run before the next event. A write takes the keys by
reference: it writes those of its own time under the hash of the time of the
save. `Stop`, `Reset`, `Start` and `Crash` say what each leaves in memory, in the
LRU cache and in the file. The items of a request are handled by a recursive
function (`Outcomes`). A name is looked up without regard to case, but the timers
restart for the exact name only: `exact` of an item says which it is, and the
history variable `stale` which timers missed a value that way. The answer to the
BootNotification (`Register`) and the connectors getting their statuses
(`StatusNotified`) are two steps: the code awaits each StatusNotification, and
requests are handled meanwhile. One status stands for all connectors, and a
StatusNotification that is answered after `stop()` began is not modelled.
`setBack` is a history of requests that save keys before the statuses are known
and then change them again. An empty value is
stored and then reads back as the default. Out of reach in this code, and left
out: MinSet, MaxSet and Target, which no variable of an accepted component
supports (a part of `WellFormed`, which TLC evaluates for the whole registry).
Failing writes are not modelled.

### Requests20, BaseReports, ChargingProfiles20

`tx`, `status` and `profiles` are the fields of a connector *object*;
`generation` numbers the objects, since `initialize()` replaces them and a task
that was suspended before keeps the old ones. `connectorOf[e]` is the number
under which the EVSE `e` has its connector, which a reset changes. `saved` is what
the last save wrote of the connectors, transaction and status, and what
`Initialize` reads back; when the cache still holds the objects of the last
initialisation (`linked`) they are taken as they are by then (`Reinitialize`).
Profiles are tracked where their clearing is in question: TxProfiles, with whether
they name a transaction, since `resetConnectorStatus` keeps those that name
another one; a profile of another purpose is accepted and stays for good. A stop
looks its connector up again after the Ended, for the status. `late` is a history
of the connectors an Occupied came to when they had no transaction. `tasks` is a
bag of everything suspended: handlers that await an answer, notifications, timers
and intervals. `life` is *wedged* when a stop failed. A report without content is
answered EmptyResultSet, and neither cached nor sent. A report is known by what it
was built from (station, base, version of the device model); its content is an
operator, checked on the station of the instance, and its delivery in parts a
task per request.

### Reservations and FirmwareUpdate

`status`, `reservation` and `running` are fields of a connector, connector 0
included. `ask[k]`, `cancel[k]` and `start[s]` are activations of handlers with
what they await; `ask[k].left` are the removals a ReserveNow awaits
(`Promise.allSettled` of the expired ones, then the one it replaces).
`granted` is the server's view: the reservations that were accepted and that are
not cancelled, expired, used or replaced. `update[u]` is an activation of
`updateFirmwareSimulation`: *closing* and *sealing* are its two loops over the
connectors, `at` the connector it notifies. The `Reset` at the end is the stop and
start of the station, taken as one step when no other handler awaits
(`Quiescent`): what overlapping awaits do to a stop is the subject of
`StationConnection` and `Transactions`.

`mishaps` records the anomalies that the properties except, as in
`Transactions`.

### ChargingProfiles16

Operators only: the handlers do not await. Times are seconds, an optional member
is a set of at most one element. `SetChargingProfile` and
`ClearChargingProfiles` take and give the list of a connector,
`ConnectorChargingProfiles` orders the profiles that compete,
`ChargingProfilesLimit` finds the one in force and its period, `ComposeSchedule`
cuts one schedule to an interval. `MCFirmwareUpdate` checks them by assumptions
on all inputs of small size, against what they promise.

## 3. Runs

| Run | Checks | Result |
|---|---|---|
| `messaging` | `BufferKeepsOrder`, `OneFlushLoop`, `PendingIsAnswerable`, `AnswerFindsRequest`, `DuplicateOnlyAfterTimeout`, refinement of `Outbox`, `BufferDrains` | holds |
| `messaging_flush_lost` | `FlushedOnceAccepted` | violated |
| `connection` | `NoTimerWithoutSocket`, `DisconnectedIsRecovering`, `UnregisteredIsBooting` | holds |
| `reconnection` | `ReconnectionRestartsSequence` | violated |
| `worker_set` | type, `StopLeavesNoWorker`, `OnlyCreatorsAreStranded`, `CountCoversStations`, `CallsOfLiveWorkersSettle`, `StopEnds` | holds |
| `transactions` | type, `MeteringOnlyDuringTransaction`, `DividerCountsTransactions`, `ServerAndStationAgree`, `StartedConnectorHasLoop` | holds |
| `simulator` | type, `Quiet`, `Counted`, `UniqueIndexes`, `Visible`, `StopCommitted` | holds |
| `ui_answer` | `ClientAnswered` | violated |
| `variables` | type, `FileOrHashIsCurrent`, `StoppedIsSaved`, `TimersFollowKeys`, `AcceptedReadsBack` | holds |
| `requests20` | type, `ReportIsCurrent`, `SettledConnector`, `ClearedAfterEnded` | holds |
| `evse_numbers` | `ConnectorsKeepNumbers` | violated |
| `station16` | type, `NothingReservedTwice`, `ReservationsAgree`, `UpdateSettles` | holds |

The types of `OcppMessaging` and `StationConnection` are proved (section 4) and
not checked again by their runs.

The pure operators are checked by assumptions of the MC modules, which TLC
evaluates before a run: `MCVariableManager` (facts about the whole registry),
`MCRequests20` (parts of a report, checks of a profile) and `MCFirmwareUpdate`
(charging profiles of 1.6 over all lists of up to three of eight profiles, and
schedules of two periods over small times):

* `ClearedMatched`: clearing removes only what meets the criteria, and something
  if anything does.
* `HighestPriorityFirst`: the order in which profiles compete.
* `LimitOfLatestPeriod`: the limit in force is that of the latest period begun,
  within the recurrence of a recurring profile.
* `CompositeOfLaterSchedule`: a composite of a schedule that begins in the
  interval allows what the schedule allows.

The violations are disagreements between the code and its documents:

* `messaging_flush_lost`: a flush loop that wakes up while `wsConnection` is
  null waits for ever with `flushingMessageBuffer` set, and no later flush of
  this station does anything (`ChargingStation.ts:2347`).
* `reconnection`: after an abnormal close in the accepted state the reconnection
  does not start the message sequence again: no heartbeat, no generator, no
  flush (`ChargingStation.ts:2106`). The property is about reconnections only
  (`Reconnected`): the socket that opens was made by the station itself after a
  close that took the heartbeat of an accepted station. TLC's trace is the
  shortest one: start, open, accepted, abnormal close, reconnect, open.
* `ui_answer`: a command for stations makes `requestHandler` resolve as soon as
  it is posted, and the WebSocket server then deletes the response handler of the
  request: the answer gathered from the stations finds no handler and is dropped
  (`UIWebSocketServer.ts:127`).
* `evse_numbers`: the configuration file keeps the connectors of an EVSE as an
  array, and a start from the file takes the index in the array for the number:
  after a reset every EVSE has the connector 0, and a request for EVSE 1 acts on
  the connector of EVSE 0 (`ChargingStation.ts:1712`).

Other behaviour of the code that the properties had to admit, and that a reader
should know. Messaging and connection:

* a rejected station keeps its registration loop but `internalSendMessage`
  refuses each request (`RejectedSendsNothing`); a failed first BootNotification
  leaves a connected station unregistered (`bootFailed`);
* a message whose send timed out may be received twice
  (`DuplicateOnlyAfterTimeout`);
* a flush interval that fires while the connection is not open disarms itself,
  and leaves the buffer to the next message that is buffered (`BufferDrains`).

Worker set and simulator:

* a call of `addElement` that started its worker is never answered when that
  worker is gone before `workerStartDelay` ends (`OnlyCreatorsAreStranded`
  excepts exactly these calls); calls made before the first answers, as
  `Bootstrap.start` makes them, all choose the same worker and exceed
  `elementsPerWorker`;
* a reload during a start or a stop replaces the workers under it, and the old
  ones run on (`overlapped`); two additions of stations in flight get one index
  (`raced`); a station deleted while it stops never reports its stop, and the
  next stop of the simulator times out (`drifted`); a stop that timed out leaves
  `stopping` set, so that no stop or start has an effect afterwards.

Transactions of 1.6:

* a start with another idTag than the connector's authorized one erases the
  running transaction of the connector, which the server keeps open (`erased`);
  two stops of one transaction lower the power divider twice (`overtaken`); the
  generator looks for a running transaction, sleeps, and starts one without
  looking again; an exception in a loop of the generator leaves its connector
  started (`StartedConnectorHasLoop` excepts it).

Reservations and firmware of 1.6:

* a removal deletes, after its await, whatever reservation the connector has by
  then (`overtaken`); a notification that fails leaves the reservation of a
  request answered Faulted (`failed`); a reservation made while an expired one is
  still in place, because its removal failed or came too early for it, may be of
  an id or an idTag that is reserved: `getReservationBy` looks at the first match
  only, and `addReservation` awaits the removal of a reservation with the same id
  after the check (`unpurged`);
* a transaction that uses the reservation of connector 0 leaves the status of
  connector 0 *Reserved*: it can never be reserved again, and a later start with
  a reservation of its own throws at a non-null assertion (`unfound`,
  `OCPP16RequestService.ts:206`). While connector 0 is reserved, every start with
  a reservation refers to that one, whoever's it is (`misused`);
* a start with another idTag on a reserved connector is not refused, and when it
  ends the connector is *Available* with its reservation kept; after a restart a
  reserved connector is *Available*, too;
* a RemoteStartTransaction without a connector takes the first one that is *not*
  reserved for the idTag (`OCPP16IncomingRequestService.ts:1085`);
* a failed download or installation, or a failed notification, leaves a
  `firmwareStatus` with which every later UpdateFirmware is ignored; two updates
  scheduled before either begins both run.

Charging profiles of 1.6:

* a profile with the id of one entry and the level and purpose of another
  replaces both, and is in the list twice; clearing skips the neighbour of a
  cleared entry (a `splice` inside `forEach`), and an empty filter clears nothing;
* a composite of a schedule that began before the interval keeps at most the
  periods that follow in it, at their old offsets, and loses a single one;
* finding a limit writes start and duration into the stored profile: a profile
  without a start is pinned to the first transaction that used it.

Variables, requests and reports of 2.0.1:

* variables share configuration keys, defaults are those of the first entry, and
  overrides are those of all stations of a worker; a request over the limit on
  the bytes of its answer is answered Rejected and takes effect; an interval set
  under a name in other letters is stored, but its timer goes on as before; a second boot
  writes a file without OCPP parameters until the BootNotification is answered
  (`FileOrHashIsCurrent` asks for keys in the file from then on);
* a save compares the hash of its own time and its write takes the keys of a later
  one: a value set and set back by one request leaves a file whose hash is not that
  of its keys, and the next save of the keys in the hash is skipped. So the values
  of a station are those of its file or those of the hash (`FileOrHashIsCurrent`).
  Where it happens before the connectors have their statuses, even `stop()` finds
  the hash it wants and saves nothing (`setBack` in `StoppedIsSaved`);
* a save between an Ended and the answer to Available writes a connector Occupied
  without transaction, and the next reset reads it back: `SettledConnector` is
  about the time until then. An Occupied that is answered when its transaction is
  over leaves the connector Occupied, with the profile of the request (`late`);
* a stop during a transaction fails, because the version has no StopTransaction,
  and the station neither stops nor restarts (*wedged*); two stops of one
  transaction send Ended twice, and the second answer clears what runs by then;
  the timer that restores an EVSE shows *Available* during a new transaction;
  monitors of on-idle resets survive the stop of the station; transactions on
  EVSE 0 are not counted;
* the stack level 0 is refused, although the comment says 0 to 9; a report is
  cached under a requestId that the stations of a worker share.

### Bounds

* `messaging`: a BootNotification, a call whose response handler awaits, one
  reply, two activations of the flush loop (one more than `OneFlushLoop` allows,
  so that a second one could appear) and two losses of the connection, enough
  for a loss during a flush and one during the recovery. `BufferDrains` is about
  behaviours in which the connection stays up in the end and no loop was lost to
  the finding above.
* `connection`: two sockets (a current and a superseded one), one reconnection
  retry before exhaustion, one registration retry, one reset, one
  BootNotification outside of the loop; starts and stops are unbounded. The
  theorems below are for any bounds.
* `worker_set`: three calls, workers of one element, three workers, one failure:
  an overfull worker, a worker started by a call, and a replacement.
* `transactions`: one connector, two starts and two stops, so that each start
  and each stop has one to overlap with, two generator loops (a connector stopped
  and started again during the sleep of its loop has two), one availability
  change, two idTags of which one is authorized, and two events (`MaxEvents`:
  starts of the generator, availability changes, failures of requests), so that
  a loop can meet a failure or a second loop. All properties are about single connectors and
  the sum over connectors (`divider`), and no action couples two connectors
  except `divider` and an availability change of connector 0. Every kind of
  mishap is reachable with these bounds. The authorization switches are on: they
  only add checks.
* `simulator`: two stations of which one is configured, so that one is added by
  a client, two client requests (two additions can race, a command can meet a
  deletion), both values of autoStart, two counted additions, which allow a
  restart, and one mishap (a crash, a failing stop, a timeout or a reload): each
  meets every other step, but not another mishap, which `StoppedIsQuiet` covers
  for `Quiet` only. Stations and requests
  are symmetric: no action or property tells one from another. `ui_answer` needs
  one command.

* `variables`: one station (the handlers are synchronous, what stations share are
  the overrides and the lock, which one station meets by its own requests), and
  every entry kind of the registry: shared keys, volatile, without default, with
  an instance, reboot required, read-only, write-only. Requests set a value
  and set it back (before and after the connectors have their statuses), set shared keys, name a variable in other letters, set an empty
  value, exceed the limits on items and on bytes, and fail in one of several items.
* `requests20`: one EVSE beside EVSE 0, three requests (starts, stops, saves and
  resets in any order), two reports (two bases; one request id, one station), one
  initialisation of the station, four profiles (a TxProfile without and with the id
  of a transaction, a TxDefaultProfile, an invalid one). A stop of a connector twice
  and a start that follows take four requests, so that the exception of
  `ClearedAfterEnded` is not met by the run; the theorem covers it. With one station
  and one id only the version in `ReportIsCurrent` can go wrong in the run; the
  theorem is about any of them. `evse_numbers` has two EVSEs, so that numbers can be mistaken.
* `station16`: connector 0 and two more, two idTags, two reservation ids, four
  requests in all of which a firmware update counts two, so that an update meets
  two others and three reservations meet a cancellation or a start; two expiries
  or failures. Both starts are on connector 1: one with and one without a
  reservation.

`CHECK_DEADLOCK FALSE` is there because the bounded systems may stop: a stopped
station, a stopped set, or all messages, starts and stops used up.

### Fairness

`messaging` assumes weak fairness of callbacks, sleeps, the interval and the end
or failure of a message sequence, which the event loop of node provides, and strong fairness
of a successful send of the loop: a transmission tried again and again on an open
connection succeeds in the end. Nothing is assumed of the connection, and
`BufferDrains` is about stations that end up connected and accepted.
`worker_set` assumes weak fairness of the ends of sleeps, of running threads, of
message delivery and exit events, and of the iteration of `stop`; failures and
calls are not fair. `station16` assumes that the server answers, that timers
fire, and that a transaction is stopped in the end (by the driver, the generator
or the server: an update waits as long as it runs); requests, expiries and
failures are not fair.

## 4. Proofs

Proved by TLAPS for all values of the constants, under the named assumptions
of each module (`MessagesAssumption`, `ConnectionAssumption`, `TransactionsAssumption`,
`SimulatorAssumption`, `WorkerSetAssumption`, `ReservationsAssumption`,
`FirmwareAssumption`, `RequestsAssumption`, `VariablesAssumption`), which TLC
evaluates on the instances.
They say that the sets are finite and numbered as the code numbers them, that the
bounds are natural numbers, and that names are not confused (a request of the
simulator is none of the three internal waiters). That of `VariableManager` says
what the manager relies on of its registry (`WellFormed`: only Actual is supported,
an interval of a timer is an integer with a least value, the default of the ping is
the one of the code) and of the template (it has a heartbeat interval); TLC evaluates
`WellFormed` on the whole registry of the source.

* `OcppMessaging_proof`. `BufferInv` strengthens `OneFlushLoop` and
  `BufferKeepsOrder` by `LoopHoldsHead`: an activation that awaits `ws.send`
  holds the head of the queue, which is what makes the shift after success
  remove the message that was sent; it is inductive because a second loop cannot
  start while `flushing` is set. From it follow `FlushIsExclusive`,
  `BufferIsFifo` and `BufferIsAnOutbox`. `CacheInv` relates promise, callback,
  cache, buffer and history of each call; `AnswersFindTheirRequest` and
  `PendingCallsAreAnswerable` follow. `DuplicatesNeedTimeouts` rests on
  `TransmissionInv`: a message that has not timed out is in one place at most,
  written, in the buffer or on its way, which needs that the loop holds the head
  (or the shift would remove another message and leave a copy).
* `StationConnection_proof`. `ConnectionInv` is the conjunction of type,
  `RetriesBounded` and `NoTimerWithoutSocket`. A step that can set a timer is
  the event of a socket that is not closed, and a step that closes a socket
  clears both timers; whatever else closes, opens or supersedes sockets keeps
  those that are alive. `RejectedSendsNothing` uses typing only.
  `DisconnectionIsRecovered` is inductive with `ConnectionInv`: a close asks for a
  reconnection unless it is normal or the retries are used up, and only an answer,
  which needs a live socket, resets the retries. `ConnectionRegisters` goes through
  `Booting`, which drops the life of the station and adds that an answer awaited
  was counted; a loop ends only registered or failed.
* `Transactions_proof`. `TypeOK` is not inductive: a settled request resumes the
  loop that awaits it without a check. `Activations` adds what makes it so: each
  owner of a request is at the await (`starting` or `stopping`) and owns no other
  one, and connectors and statuses are set before they are used. `Metering`
  strengthens its property by `ChargingUnmetered`: a start that has yet to notify
  Charging finds no interval on its own transaction, because only a late start
  can have set one. `Service` goes through the notion of a step in which
  `NoLoopGivesUp`: every loop goes on, or its connector is stopped, or a request
  has failed. `DividerIsExact` and `AgreementWithServer` are proved together, with
  `Structure`, which holds whatever fails: a start under way is about a connector
  (`Placed`), an id on a connector or in a stop is that of a start whose answer has
  been handled (`Begun`), no two connectors have the same (`Distinct`), and a stop that
  releases a connector knows it and its id (`Releases`).
  Each mishap of the two properties is where one of their steps fails.
* `Simulator_proof`. `StoppedIsQuiet`: a simulator neither started nor starting
  runs no station, for any numbers of stations, requests, reloads and failures.
  `Quiet` alone is not inductive, because `stop()` ends only the stations of the
  worker implementation it finds: `Current` says that every station runs in the
  current one, and `Phases` ties the phases of `start()` and `stop()` to the flags,
  so that no reload can replace the implementation under them unless it
  `overlapped`; `Waiters` and the types carry the steps of stations.
  The other properties rest on the order in which a station tells the main thread
  what became of it (`Tellings`: started and stopped alternate, nothing precedes
  its creation, nothing follows its end) and on what a simulator no reload has
  overlapped keeps (`Calm`). `Identified` ties the indexes in use to those of the
  living stations and the known ones to what is in flight; `Tally` is the balance of the
  counter; `Committing` gives each awaited event a station that is running with an
  internal stop ahead or under way, or that has posted the event, which needs that
  nobody but `stop()` uses the internal name (`InternalStops`, `Stoppers`).
* `WorkerSet_proof`. `StopCompletes` rests on `Fleet`: every worker created is in
  the set or gone, and those that `stop()` has passed are gone, so that when its
  iteration finds no other worker nothing runs. `Stranding` rests on `Sleepers`
  (who sleeps has had to start a worker). `Counting` rests on `Calls`: a call posted
  to a worker was made of it, is pending while the worker runs and is answered
  once, so that the answer that raises the count is about a station of the worker
  whose count it raises; `Fleet` is needed where `stop()` rejects all calls.
* `FirmwareUpdate_proof`. `WellFormed` adds to the types what `ReserveNow` carries
  over its awaits (`Asking`) and that a start notifies a status it has chosen
  (`Notifying`). `Uniqueness`: where nothing has expired, every match is live, so
  that a request that is not refused matches nothing; a request that goes on
  after an await, in place of an expired reservation, is an `unpurged` one.
  `Agreement` follows each way a reservation is placed or removed on both sides;
  the steps of the update leave both alone.
* `Requests20_proof`. The tasks in flight are a bag, so that the lemmas on bags come
  first. `Base` is types and what ties tasks to connectors: the connector of a
  task is one of the present or of a lost generation (`TaskOK`), a transaction
  belongs to one connector (`Owned`), the connectors of a file have the number 0
  (`Numbering`). `ConnectorsSettle` adds `Waiting` (at most one stop waits for a
  connector, once, and the connector has a transaction whose Ended was sent,
  unless two Ended of one were) and `Shown` (an Occupied connector without
  transaction has a stop on its way that frees it). It is about the connectors the
  template made: what a save wrote between Ended and Available comes back with the
  file. `EndedBeforeCleared` is the step of the stop of `Waiting`. `ReportsAreCurrent` is inductive with `Cache`
  (what is cached belongs to a report that is not complete, or to a failed answer)
  and `Alone` (no other report has the id of one that is alone, and what is cached
  for it, and then taken from the cache, suits it).
* `VariableManager_proof`. A request is a recursive function over its items, of any
  number: `RunExists` and `Induction` get its value at each item from the
  well-founded order of the numbers, with sets in the place of predicates. `Working`
  is what each item keeps: the writes asked for are saves of the station, the
  keys only grow as long as there is none, the timers follow the keys. `Recorded`
  is what the items done have left to read back, unless a later one has the same
  key. Between requests, `StationOK` relates keys, file and hash: the hash in a file
  is one of some keys and of the status beside them (`FileOK`); a station that stops
  has its keys saved, or the one write of them pending (`Saving`); and `Written` adds
  that the keys extend those in the file or those the hash is of (`Lag`), which is
  what `FilesOrHashesAreCurrent` says, and that a file without statuses has the very
  keys its hash is of, unless a request set them back (`Named`). The last write in
  the queue carries this over to the file (`WriteOK`, `LastOK`). `StoppedAreSaved`
  needs `Named` where `stop()` skips a save. The same facts show that a reset after
  a stop finds its own keys and writes nothing.

Only model-checked: liveness (`BufferDrains`, `CallsOfLiveWorkersSettle`,
`StopEnds`, `UpdateSettles`), which TLAPS cannot prove under fairness; the action
property `FlushedOnceAccepted` is checked, and found violated, by its run. What
the registry holds (`DeviceModel`), and what the operators on charging profiles and
report parts compute, is checked by the assumptions listed in section 3, over
bounded inputs, and proved nowhere.

## 5. What is not modelled

* Formatting, logging, JSON schemas, measurements and their storage, HTTP and
  WebSocket transport of the UI server, the web UI: no control of the simulation.
* The building of stations from templates: data without control.
* The poolifier pools: wrappers over a library that is not in the repository.
* 1.6: diagnostics (an FTP transfer), TriggerMessage (each answer is a request
  of `OcppMessaging`), DataTransfer, the merging of several composite schedules,
  the content of meter values.
* 2.0.1: ClearCache, certificates, and requests without effect on the station.
* Failing writes of files, template watching, `setSupervisionUrl`,
  `gracefulShutdown`.

What would come next: the stop of a 1.6 station with its running transactions and
the final statuses of its connectors; the counters of the simulator over several
starts (`added` is not reset); the contents of the charging profile operators as
theorems.

`PROJECT.json` lists every component with its status, and every hazard at its
line.
