------------------------------ MODULE Simulator ------------------------------
(***************************************************************************)
(* The main thread and the charging stations it hosts: Bootstrap starts    *)
(* and stops the simulator and counts its stations, the UI server adds,    *)
(* starts, stops and deletes them, and each station lives in a worker      *)
(* thread.                                                                 *)
(*                                                                         *)
(* Three kinds of messages cross the threads: commands on the broadcast    *)
(* channel (inbox), a worker's events and its answer to addElement         *)
(* (outbox, in order), and replies to commands on the broadcast channel    *)
(* (the replies of a request, in any order between stations).  What a      *)
(* handler does before its first await is one step.                        *)
(***************************************************************************)
EXTENDS Integers, FiniteSets, Sequences, SequencesExt

CONSTANTS
    Stations,          \* the ChargingStation objects that may exist at once
    Requests,          \* the uuids of the requests of UI clients
    NumberOfStations,  \* numberOfStations of the one station template
    Modes,             \* the values a station's autoStart takes
    MaxAdded,          \* bound on the number of stations ever counted as added
    MaxMishaps         \* bound on crashes, failing stops, timeouts, reloads

ASSUME SimulatorAssumption ==
    /\ IsFiniteSet(Stations) /\ IsFiniteSet(Requests)
    /\ \A r \in Requests : r \notin {"nobody", "start", "internal"}
    /\ NumberOfStations \in 0 .. Cardinality(Stations)
    /\ Modes \subseteq BOOLEAN
    /\ MaxAdded \in Nat
    /\ MaxMishaps \in Nat

VARIABLES
    flags,     \* Bootstrap's started, starting and stopping
    start,     \* where start() is, and the worker implementation it started
    stop,      \* where stop() is, and the 'stopped' events it still awaits
    reload,    \* what restart(), run for a configuration change, awaits
    stats,     \* templateStatistics: added, indexes and started
    listening, \* do Bootstrap's event listeners exist?
    workers,   \* this.workerImplementation: which one it is, is it started
    known,     \* the hash ids in uiServer.chargingStations
    adds,      \* addElement calls in progress, and who made them
    station,   \* the ChargingStation objects
    inbox,     \* broadcast commands a station has not handled yet
    outbox,    \* messages a worker posted that are not handled yet
    request,   \* the UI service's broadcastChannelRequests and responses
    handlers,  \* uiServer.responseHandlers
    answers,   \* number of responses the client of a request was sent
    mishaps,   \* number of mishaps so far
    history    \* not in the code: what happened that the properties exempt

mainVars == <<flags, start, stop, reload, stats, listening, workers, known, adds>>
uiVars == <<request, handlers, answers>>
stationVars == <<station, inbox, outbox>>
vars == <<mainVars, uiVars, stationVars, mishaps, history>>

(***************************************************************************)
(* A station's hash id is a hash of its template and its index, so the     *)
(* index stands for it.                                                    *)
(***************************************************************************)
Indexes == 1 .. NumberOfStations + Cardinality(Stations) + Cardinality(Requests)
Internal == "internal"   \* the request by which stop() itself stops stations
Commands == {"start", "stop", "delete"}
Nobody == [request |-> "nobody", command |-> "none"]
NoAdd == [state |-> "none", by |-> "nobody"]
NoStation == [phase |-> "none", run |-> "off", index |-> 0, generation |-> 0,
              waiter |-> Nobody]
Asked(i) == [phase |-> "asked", run |-> "off", index |-> i,
             generation |-> workers.generation, waiter |-> Nobody]
NewRequest == [state |-> "new", expected |-> 0, received |-> 0, replies |-> {}]
Zero == [added |-> 0, indexes |-> {}, started |-> 0]

Free == {s \in Stations : /\ station[s].phase = "none"
                          /\ adds[s] = NoAdd
                          /\ outbox[s] = <<>>
                          /\ \A r \in Requests : s \notin request[r].replies}
\* Objects that hear the broadcast channel: delete() only unrefs its channel.
Hearing == {s \in Stations : station[s].phase \in {"up", "deleted"}}
Up == {s \in Stations : station[s].phase = "up"}
Running == {s \in Up : station[s].run # "off"}

Init ==
    /\ flags = [started |-> FALSE, starting |-> FALSE, stopping |-> FALSE]
    /\ start = [step |-> "idle", generation |-> 0]
    /\ stop = [step |-> "idle", awaited |-> 0]
    /\ reload = "none"
    /\ stats = Zero
    /\ listening = FALSE
    /\ workers = [generation |-> 0, started |-> FALSE]
    /\ known = {}
    /\ adds = [s \in Stations |-> NoAdd]
    /\ station = [s \in Stations |-> NoStation]
    /\ inbox = [s \in Stations |-> <<>>]
    /\ outbox = [s \in Stations |-> <<>>]
    /\ request = [r \in Requests |-> NewRequest]
    /\ handlers = {}
    /\ answers = [r \in Requests |-> 0]
    /\ mishaps = 0
    /\ history = [overlapped |-> FALSE, raced |-> FALSE, drifted |-> FALSE,
                  stuck |-> FALSE]

Mishap == /\ mishaps < MaxMishaps
          /\ mishaps' = mishaps + 1

Note(event) == history' = [history EXCEPT ![event] = TRUE]
NoteIf(condition, event) ==
    history' = [history EXCEPT ![event] = @ \/ condition]

(***************************************************************************)
(* Answers to the clients.  The UIWebSocketServer deletes the handler of a *)
(* request once requestHandler's promise settles, which for a command sent *)
(* on the broadcast channel is in the turn that received it.               *)
(***************************************************************************)
Answer(rs) ==
    /\ answers' = [r \in Requests |->
                      IF r \in rs \cap handlers THEN answers[r] + 1 ELSE answers[r]]
    /\ handlers' = handlers \ rs

HandlersAfterBroadcast(r) == handlers

(***************************************************************************)
(* Messages of a station.  delete() removes its listeners: from then on it *)
(* posts no event, but still answers commands.                             *)
(***************************************************************************)
Emit(s, events) ==
    outbox' = [outbox EXCEPT ![s] = IF station[s].phase = "up" THEN @ \o events ELSE @]

Reply(s, r) ==
    request' = [q \in Requests |->
                   IF q = r THEN [request[q] EXCEPT !.replies = @ \cup {s}]
                            ELSE request[q]]

Command(s) == Head(inbox[s])
Consume(s) == inbox' = [inbox EXCEPT ![s] = Tail(@)]

Tell(ss, message) ==
    inbox' = [s \in Stations |-> IF s \in ss THEN Append(inbox[s], message) ELSE inbox[s]]

(***************************************************************************)
(* Bootstrap.start: the listeners and the workers first, then one          *)
(* addChargingStation per configured station, then started.                *)
(***************************************************************************)
StartWith(generation, fl) ==
    /\ flags' = [fl EXCEPT !.starting = TRUE]
    /\ start' = [step |-> "workers", generation |-> generation]

StartSimulator ==
    /\ ~flags.started /\ ~flags.starting
    /\ stats.added + NumberOfStations <= MaxAdded
    /\ StartWith(workers.generation, flags)
    /\ listening' = TRUE
    /\ UNCHANGED <<stop, reload, stats, workers, known, adds, stationVars, uiVars,
                   mishaps, history>>

\* addElement throws on a worker implementation that is not started: one that
\* a reload put in the place of the one start() started.
StartAdds ==
    /\ start.step = "workers"
    /\ start' = [start EXCEPT !.step = "adding"]
    /\ IF start.generation = workers.generation
       THEN /\ workers' = [workers EXCEPT !.started = TRUE]
            /\ \E index \in [Stations -> 0 .. NumberOfStations] :
                  /\ \A s \in Stations : index[s] # 0 => s \in Free
                  /\ \A i \in 1 .. NumberOfStations : \E s \in Stations : index[s] = i
                  /\ \A s, u \in Stations : index[s] = index[u] => s = u \/ index[s] = 0
                  /\ adds' = [s \in Stations |->
                        IF index[s] = 0 THEN adds[s]
                        ELSE [state |-> "asked", by |-> "start"]]
                  /\ station' = [s \in Stations |->
                        IF index[s] = 0 THEN station[s] ELSE Asked(index[s])]
       ELSE UNCHANGED <<workers, adds, station>>
    /\ UNCHANGED <<flags, stop, reload, stats, listening, known, inbox, outbox, uiVars,
                   mishaps, history>>

StartEnds ==
    /\ start.step = "adding"
    /\ \A s \in Stations : adds[s].by # "start"
    /\ flags' = [flags EXCEPT !.started = TRUE, !.starting = FALSE]
    /\ start' = [start EXCEPT !.step = "idle"]
    /\ reload' = IF reload = "start" THEN "none" ELSE reload
    /\ UNCHANGED <<stop, stats, listening, workers, known, adds, stationVars, uiVars,
                   mishaps, history>>

(***************************************************************************)
(* The addChargingStations request: the index is read before addElement    *)
(* and recorded after it.                                                  *)
(***************************************************************************)
LastContiguousIndex(i) == 1 .. i \subseteq stats.indexes /\ i + 1 \notin stats.indexes

AddStation(r, s) ==
    /\ request[r].state = "new"
    /\ flags.started
    /\ workers.started
    /\ stats.added < MaxAdded
    /\ s \in Free
    /\ adds' = [adds EXCEPT ![s] = [state |-> "asked", by |-> r]]
    /\ \E i \in Indexes :
          /\ LastContiguousIndex(i - 1)
          /\ station' = [station EXCEPT ![s] = Asked(i)]
    /\ request' = [request EXCEPT ![r].state = "sent"]
    /\ handlers' = handlers \cup {r}
    /\ NoteIf(\E t \in Stations : adds[t].by \in Requests, "raced")
    /\ UNCHANGED <<flags, start, stop, reload, stats, listening, workers, known, inbox,
                   outbox, answers, mishaps>>

\* The worker builds the ChargingStation, which starts by itself or not.
Construct(s) ==
    /\ station[s].phase = "asked"
    /\ \E autoStart \in Modes :
          /\ station' = [station EXCEPT ![s].phase = "up",
                                        ![s].run = IF autoStart THEN "on" ELSE "off"]
          /\ outbox' = [outbox EXCEPT ![s] =
                IF autoStart THEN <<"added", "started", "response">>
                             ELSE <<"added", "response">>]
    /\ UNCHANGED <<mainVars, inbox, uiVars, mishaps, history>>

\* addElement resolves, after its elementAddDelay.
AddSettles(s) ==
    /\ adds[s].state = "answered"
    /\ adds' = [adds EXCEPT ![s] = NoAdd]
    /\ stats' = [stats EXCEPT !.added = @ + 1, !.indexes = @ \cup {station[s].index}]
    /\ Answer({adds[s].by} \cap Requests)
    /\ UNCHANGED <<flags, start, stop, reload, listening, workers, known, stationVars,
                   request, mishaps, history>>

(***************************************************************************)
(* The main thread handles the next message of a worker.                   *)
(***************************************************************************)
Handled(s) == outbox' = [outbox EXCEPT ![s] = Tail(@)]

EventAdded(s) ==
    /\ known' = known \cup {station[s].index}
    /\ UNCHANGED <<stop, stats>>

\* Faulty: only the first start of a station is counted.
EventStartedOnce(s) ==
    /\ known' = known \cup {station[s].index}
    /\ stats' = [stats EXCEPT !.started = @ + IF station[s].index \in known THEN 0 ELSE 1]
    /\ UNCHANGED stop

EventStarted(s) ==
    /\ known' = known \cup {station[s].index}
    /\ stats' = [stats EXCEPT !.started = @ + 1]
    /\ UNCHANGED stop

OneLessAwaited ==
    IF stop.step # "waiting" THEN stop
    ELSE [step |-> IF stop.awaited = 1 THEN "closing" ELSE "waiting",
          awaited |-> stop.awaited - 1]

\* Faulty: a stopped station gives its index back.
EventStoppedFreeingIndex(s) ==
    /\ known' = known \cup {station[s].index}
    /\ stats' = [stats EXCEPT !.started = @ - 1, !.indexes = @ \ {station[s].index}]
    /\ stop' = OneLessAwaited

\* Faulty: the UI server forgets a stopped station.
EventStoppedForgetting(s) ==
    /\ known' = known \ {station[s].index}
    /\ stats' = [stats EXCEPT !.started = @ - 1]
    /\ stop' = OneLessAwaited

EventStopped(s) ==
    /\ known' = known \cup {station[s].index}
    /\ stats' = [stats EXCEPT !.started = @ - 1]
    /\ stop' = OneLessAwaited

EventDeleted(s) ==
    /\ known' = known \ {station[s].index}
    /\ stats' = [stats EXCEPT !.added = @ - 1, !.indexes = @ \ {station[s].index}]
    /\ UNCHANGED stop

Event(s) ==
    /\ outbox[s] # <<>>
    /\ Head(outbox[s]) # "response"
    /\ Handled(s)
    /\ IF listening
       THEN \/ Head(outbox[s]) = "added" /\ EventAdded(s)
            \/ Head(outbox[s]) = "started" /\ EventStarted(s)
            \/ Head(outbox[s]) = "stopped" /\ EventStopped(s)
            \/ Head(outbox[s]) = "deleted" /\ EventDeleted(s)
       ELSE UNCHANGED <<known, stats, stop>>
    /\ UNCHANGED <<flags, start, reload, listening, workers, adds, station, inbox, uiVars,
                   mishaps, history>>

Response(s) ==
    /\ outbox[s] # <<>>
    /\ Head(outbox[s]) = "response"
    /\ Handled(s)
    /\ adds' = [adds EXCEPT ![s].state = "answered"]
    /\ UNCHANGED <<flags, start, stop, reload, stats, listening, workers, known, station,
                   inbox, uiVars, mishaps, history>>

(***************************************************************************)
(* Commands of UI clients.  hashIds are those the client gave that are     *)
(* known; a client that gives none addresses every station.                *)
(***************************************************************************)
Addressed(ids) == {s \in Hearing : ids = {} \/ station[s].index \in ids}
Expected(ids) == Cardinality(IF ids = {} THEN known ELSE ids)

Broadcast(r, command, ids) ==
    /\ request[r].state = "new"
    /\ ids \subseteq known
    /\ Expected(ids) > 0
    /\ request' = [request EXCEPT ![r] =
          [NewRequest EXCEPT !.state = "sent", !.expected = Expected(ids)]]
    /\ handlers' = HandlersAfterBroadcast(r)
    /\ Tell(Addressed(ids), [request |-> r, command |-> command])
    /\ UNCHANGED <<mainVars, station, outbox, answers, mishaps, history>>

\* Nothing to do for the command: it is answered at once.
HandleIdle(s) ==
    /\ s \in Hearing /\ inbox[s] # <<>>
    /\ \/ Command(s).command = "start" /\ station[s].run # "off"
       \/ Command(s).command = "stop" /\ station[s].run # "on"
    /\ Consume(s)
    /\ Reply(s, Command(s).request)
    /\ UNCHANGED <<mainVars, station, outbox, handlers, answers, mishaps, history>>

HandleStart(s) ==
    /\ s \in Hearing /\ inbox[s] # <<>>
    /\ Command(s).command = "start"
    /\ station[s].run = "off"
    /\ Consume(s)
    /\ station' = [station EXCEPT ![s].run = "on"]
    /\ Emit(s, <<"started">>)
    /\ Reply(s, Command(s).request)
    /\ UNCHANGED <<mainVars, handlers, answers, mishaps, history>>

\* Faulty: a station that stops is not marked as stopping.
HandleStopUnmarked(s) ==
    /\ s \in Hearing /\ inbox[s] # <<>>
    /\ Command(s).command \in {"stop", "delete"}
    /\ station[s].run = "on"
    /\ Consume(s)
    /\ station' = [station EXCEPT ![s].waiter = Command(s)]
    /\ UNCHANGED <<mainVars, outbox, uiVars, mishaps, history>>

\* Both stop() and delete() of a running station first stop it.
HandleStop(s) ==
    /\ s \in Hearing /\ inbox[s] # <<>>
    /\ Command(s).command \in {"stop", "delete"}
    /\ station[s].run = "on"
    /\ Consume(s)
    /\ station' = [station EXCEPT ![s].run = "stopping", ![s].waiter = Command(s)]
    /\ UNCHANGED <<mainVars, outbox, uiVars, mishaps, history>>

\* delete() does not wait for a stop that is already in progress.
HandleDelete(s) ==
    /\ s \in Hearing /\ inbox[s] # <<>>
    /\ Command(s).command = "delete"
    /\ station[s].run # "on"
    /\ Consume(s)
    /\ station' = [station EXCEPT ![s].phase = "deleted"]
    /\ Emit(s, <<"deleted">>)
    /\ Reply(s, Command(s).request)
    /\ NoteIf(s \in Running, "drifted")
    /\ UNCHANGED <<mainVars, handlers, answers, mishaps>>

StationStops(s) ==
    /\ station[s].waiter # Nobody
    /\ LET deletes == station[s].waiter.command = "delete" IN
       /\ station' = [station EXCEPT ![s].run = "off", ![s].waiter = Nobody,
                                     ![s].phase = IF deletes THEN "deleted" ELSE @]
       /\ Emit(s, IF deletes THEN <<"stopped", "deleted">> ELSE <<"stopped">>)
    /\ Reply(s, station[s].waiter.request)
    /\ UNCHANGED <<mainVars, inbox, handlers, answers, mishaps, history>>

\* A request of the stop fails: the station is left started and stopping.
StationStopFails(s) ==
    /\ station[s].waiter # Nobody
    /\ Mishap
    /\ Note("stuck")
    /\ station' = [station EXCEPT ![s].waiter = Nobody]
    /\ Reply(s, station[s].waiter.request)
    /\ UNCHANGED <<mainVars, inbox, outbox, handlers, answers>>

\* Its worker gone, only what was said of the station is left of it.
Ended(s) ==
    IF adds[s].state = "answered" \/ outbox[s] # <<>>
    THEN [phase |-> "none", run |-> "off", index |-> station[s].index,
          generation |-> station[s].generation, waiter |-> Nobody]
    ELSE NoStation

\* The worker dies; what it had posted still arrives, an unanswered addElement
\* is rejected.
Crash(s) ==
    /\ station[s].phase # "none"
    /\ Mishap
    /\ NoteIf(s \in Running, "drifted")
    /\ station' = [station EXCEPT ![s] = Ended(s)]
    /\ inbox' = [inbox EXCEPT ![s] = <<>>]
    /\ IF adds[s].state = "asked" /\ ~Contains(outbox[s], "response")
       THEN adds' = [adds EXCEPT ![s] = NoAdd] /\ Answer({adds[s].by} \cap Requests)
       ELSE UNCHANGED <<adds, handlers, answers>>
    /\ UNCHANGED <<flags, start, stop, reload, stats, listening, workers, known, outbox,
                   request>>

(***************************************************************************)
(* UIServiceWorkerBroadcastChannel.responseHandler: the replies of a       *)
(* request are gathered into one answer once as many came as were expected *)
(* (a late one finds no expectation any more, and makes an answer alone).  *)
(***************************************************************************)
Complete(r) == request[r].received + 1 >= request[r].expected

Gather(r, s) ==
    /\ s \in request[r].replies
    /\ IF Complete(r)
       THEN /\ request' = [request EXCEPT ![r].replies = @ \ {s}, ![r].state = "done",
                                          ![r].expected = 0, ![r].received = 0]
            /\ Answer({r})
       ELSE /\ request' = [request EXCEPT ![r].replies = @ \ {s}, ![r].received = @ + 1]
            /\ UNCHANGED <<handlers, answers>>
    /\ UNCHANGED <<mainVars, stationVars, mishaps, history>>

(***************************************************************************)
(* Bootstrap.stop: a stop command for every station, a wait for as many    *)
(* 'stopped' events as stations count as started, then the workers.        *)
(***************************************************************************)
StopCommand == [request |-> Internal, command |-> "stop"]

\* Faulty: stop() awaits every added station.
BeginStopAwaitingAdded ==
    /\ flags' = [flags EXCEPT !.stopping = TRUE]
    /\ Tell(IF known = {} THEN {} ELSE Hearing, StopCommand)
    /\ stop' = [step |-> IF stats.added = 0 THEN "closing" ELSE "waiting",
                awaited |-> stats.added]

BeginStop ==
    /\ flags' = [flags EXCEPT !.stopping = TRUE]
    /\ Tell(IF known = {} THEN {} ELSE Hearing, StopCommand)
    /\ stop' = [step |-> IF stats.started = 0 THEN "closing" ELSE "waiting",
                awaited |-> stats.started]

StopSimulator ==
    /\ flags.started /\ ~flags.stopping
    /\ BeginStop
    /\ UNCHANGED <<start, reload, stats, listening, workers, known, adds, station, outbox,
                   uiVars, mishaps, history>>

\* Faulty: a stop that times out is taken for a stop.
StopTimesOutStopped ==
    /\ stop.step = "waiting"
    /\ Mishap
    /\ stop' = [stop EXCEPT !.step = "idle"]
    /\ reload' = "none"
    /\ flags' = [flags EXCEPT !.started = FALSE, !.stopping = FALSE]
    /\ UNCHANGED <<start, stats, listening, workers, known, adds, stationVars, uiVars,
                   history>>

\* STOP_CHARGING_STATIONS_TIMEOUT: stop() rejects and stays in progress.
StopTimesOut ==
    /\ stop.step = "waiting"
    /\ Mishap
    /\ stop' = [stop EXCEPT !.step = "idle"]
    /\ reload' = "none"
    /\ UNCHANGED <<flags, start, stats, listening, workers, known, adds, stationVars, uiVars,
                   history>>

\* restart() once stop() is over, or was refused.
Renew(fl) ==
    /\ stats' = Zero
    /\ workers' = [generation |-> workers.generation + 1, started |-> FALSE]
    /\ IF fl.started \/ fl.starting
       THEN /\ reload' = "none"
            /\ flags' = fl
            /\ UNCHANGED start
       ELSE /\ reload' = "start"
            /\ StartWith(workers.generation + 1, fl)

StopEnds ==
    /\ stop.step = "closing"
    /\ stop' = [stop EXCEPT !.step = "idle"]
    /\ LET ended == {s \in Stations : station[s].generation = workers.generation}
           rejected == {s \in ended : adds[s].state = "asked"}
           stopped == [flags EXCEPT !.started = FALSE, !.stopping = FALSE]
       IN /\ station' = [s \in Stations |->
                IF s \in ended THEN Ended(s) ELSE station[s]]
          /\ inbox' = [s \in Stations |-> IF s \in ended THEN <<>> ELSE inbox[s]]
          /\ outbox' = [s \in Stations |-> IF s \in ended THEN <<>> ELSE outbox[s]]
          /\ adds' = [s \in Stations |-> IF s \in rejected THEN NoAdd ELSE adds[s]]
          /\ Answer({adds[s].by : s \in rejected} \cap Requests)
          /\ NoteIf(\E s \in ended : s \in Running \/ outbox[s] # <<>>, "drifted")
          /\ known' = {}
          /\ IF reload = "stop"
             THEN Renew(stopped)
             ELSE /\ flags' = stopped
                  /\ workers' = [workers EXCEPT !.started = FALSE]
                  /\ UNCHANGED <<start, reload, stats>>
    /\ listening' = (reload = "stop")
    /\ UNCHANGED <<request, mishaps>>

\* A change of the configuration file restarts the simulator.
ReloadStops ==
    /\ reload = "none"
    /\ flags.started /\ ~flags.stopping
    /\ Mishap
    /\ BeginStop
    /\ reload' = "stop"
    /\ UNCHANGED <<start, stats, listening, workers, known, adds, station, outbox, uiVars,
                   history>>

\* stop() refuses: it is not started, or already stopping.
ReloadRefused ==
    /\ reload = "none"
    /\ ~flags.started \/ flags.stopping
    /\ Mishap
    /\ Renew(flags)
    /\ NoteIf(flags.starting \/ flags.stopping, "overlapped")
    /\ listening' = (listening \/ ~(flags.started \/ flags.starting))
    /\ UNCHANGED <<stop, known, adds, stationVars, uiVars>>

Next ==
    \/ StartSimulator \/ StartAdds \/ StartEnds
    \/ StopSimulator \/ StopTimesOut \/ StopEnds
    \/ ReloadStops \/ ReloadRefused
    \/ \E s \in Stations :
          \/ Construct(s) \/ AddSettles(s) \/ Event(s) \/ Response(s)
          \/ HandleIdle(s) \/ HandleStart(s) \/ HandleStop(s) \/ HandleDelete(s)
          \/ StationStops(s) \/ StationStopFails(s) \/ Crash(s)
    \/ \E r \in Requests :
          \/ \E s \in Stations : AddStation(r, s) \/ Gather(r, s)
          \/ \E command \in Commands, ids \in SUBSET known : Broadcast(r, command, ids)

Spec == Init /\ [][Next]_vars

-----------------------------------------------------------------------------
Message == [request : Requests \cup {Internal}, command : Commands]
StationType ==
    [phase : {"none", "asked", "up", "deleted"}, run : {"off", "on", "stopping"},
     index : Indexes \cup {0}, generation : Nat, waiter : Message \cup {Nobody}]

TypeOK ==
    /\ flags \in [started : BOOLEAN, starting : BOOLEAN, stopping : BOOLEAN]
    /\ start \in [step : {"idle", "workers", "adding"}, generation : Nat]
    /\ stop \in [step : {"idle", "waiting", "closing"}, awaited : Int]
    /\ reload \in {"none", "stop", "start"}
    /\ stats \in [added : Int, indexes : SUBSET Indexes, started : Int]
    /\ listening \in BOOLEAN
    /\ workers \in [generation : Nat, started : BOOLEAN]
    /\ known \subseteq Indexes
    /\ adds \in [Stations -> [state : {"none", "asked", "answered"},
                             by : Requests \cup {"nobody", "start"}]]
    /\ station \in [Stations -> StationType]
    /\ \A s \in Stations : station[s].phase # "none" => station[s].index \in Indexes
    /\ \A s \in Stations : station[s].waiter # Nobody => station[s].run = "stopping"
    /\ inbox \in [Stations -> Seq(Message)]
    /\ outbox \in [Stations -> Seq({"added", "started", "stopped", "deleted", "response"})]
    /\ request \in [Requests -> [state : {"new", "sent", "done"}, expected : Nat,
                                 received : Nat, replies : SUBSET Stations]]
    /\ handlers \subseteq Requests
    /\ answers \in [Requests -> Nat]
    /\ mishaps \in 0 .. MaxMishaps
    /\ history \in [overlapped : BOOLEAN, raced : BOOLEAN, drifted : BOOLEAN,
                    stuck : BOOLEAN]

(***************************************************************************)
(* A simulator that is neither started nor starting runs no station, not   *)
(* even a deleted one, unless a reload of the configuration overlapped a   *)
(* start or a stop and replaced the workers under it.                      *)
(***************************************************************************)
Quiet ==
    (~history.overlapped /\ ~flags.started /\ ~flags.starting) =>
        \A s \in Stations : station[s].phase = "none"

(***************************************************************************)
(* The stations Bootstrap counts as started, with the events on their way, *)
(* are never fewer than those that run, so that stop() never waits for too *)
(* few of those that reported; and they are exactly those that run unless  *)
(* a station was lost with its worker or deleted while it was stopping.    *)
(***************************************************************************)
Posted(event) ==
    UNION {{<<s, i>> : i \in {j \in DOMAIN outbox[s] : outbox[s][j] = event}} : s \in Stations}
InFlight == Cardinality(Posted("started")) - Cardinality(Posted("stopped"))

Counted ==
    ~history.overlapped =>
        /\ stats.started + InFlight >= Cardinality(Running)
        /\ ~history.drifted => stats.started + InFlight = Cardinality(Running)

(***************************************************************************)
(* As long as clients add stations one at a time, no two stations of the   *)
(* simulator have the same index, hence the same identifier and hash id.   *)
(***************************************************************************)
Existing == {s \in Stations : station[s].phase \in {"asked", "up"}}

UniqueIndexes ==
    (~history.overlapped /\ ~history.raced) =>
        \A s, t \in Existing : station[s].index = station[t].index => s = t

(***************************************************************************)
(* Under the same conditions a station is known to the UI server from the  *)
(* event of its creation to that of its deletion, so that a command to all *)
(* stations, the one stop() sends included, is never withheld from it.     *)
(***************************************************************************)
Visible ==
    (~history.overlapped /\ ~history.raced) =>
        \A s \in Up : station[s].index \in known \/ Contains(outbox[s], "added")

(***************************************************************************)
(* Every 'stopped' event that stop() awaits is on its way, or has a        *)
(* station that is bound to send it: one that is stopping, or that the     *)
(* stop command is still to reach.  So a stop needs its timeout only when  *)
(* a station's stop failed or one of the other accidents happened.         *)
(***************************************************************************)
Committed ==
    {s \in Running : \/ station[s].waiter # Nobody
                     \/ \E i \in DOMAIN inbox[s] : inbox[s][i].request = Internal}

StopCommitted ==
    (stop.step = "waiting" /\ \A event \in DOMAIN history : ~history[event]) =>
        stop.awaited <= Cardinality(Committed) + Cardinality(Posted("stopped"))

(***************************************************************************)
(* README.md, "UI Protocol": the UI server sends its client a response to  *)
(* a request.  Here: the answer gathered from the stations reaches it.     *)
(***************************************************************************)
ClientAnswered ==
    \A r \in Requests : request[r].state = "done" => answers[r] > 0
=============================================================================
