--------------------------- MODULE Simulator_proof ---------------------------
(***************************************************************************)
(* A stopped simulator runs no station; types, counters, indexes, known    *)
(* stations and awaited stops, for any numbers of stations and requests.   *)
(***************************************************************************)
EXTENDS Simulator, FiniteSetTheorems, FunctionTheorems, TLAPS

Flags == [started : BOOLEAN, starting : BOOLEAN, stopping : BOOLEAN]
StationRecord ==
    [phase : {"none", "asked", "up", "deleted"}, run : {"off", "on", "stopping"},
     index : Nat, generation : Nat, waiter : Message \cup {Nobody}]
StatsRecord == [added : Int, indexes : SUBSET Nat, started : Int]

BootstrapTypes ==
    /\ flags \in Flags
    /\ start \in [step : {"idle", "workers", "adding"}, generation : Nat]
    /\ stop \in [step : {"idle", "waiting", "closing"}, awaited : Int]
    /\ reload \in {"none", "stop", "start"}
    /\ stats \in StatsRecord
    /\ workers \in [generation : Nat, started : BOOLEAN]
    /\ history \in [overlapped : BOOLEAN, raced : BOOLEAN, drifted : BOOLEAN,
                    stuck : BOOLEAN]

StationTypes ==
    /\ station \in [Stations -> StationRecord]
    /\ inbox \in [Stations -> Seq(Message)]

(***************************************************************************)
(* What makes Quiet inductive: the phases of start and stop agree with the *)
(* flags, and every station runs in the worker implementation that stop()  *)
(* will stop.                                                              *)
(***************************************************************************)
Phases ==
    /\ flags.stopping => flags.started
    /\ stop.step # "idle" => flags.stopping
    /\ start.step # "idle" => /\ flags.starting /\ ~flags.started
                              /\ start.generation = workers.generation

Current == \A s \in Stations :
    station[s].phase # "none" => /\ station[s].generation = workers.generation
                                 /\ flags.started \/ flags.starting

Waiters == \A s \in Stations : station[s].waiter # Nobody => station[s].phase # "none"

IInv == /\ BootstrapTypes
        /\ StationTypes
        /\ Waiters
        /\ history.overlapped \/ (Phases /\ Current)

(***************************************************************************)
(* The invariant implies Quiet: no station without a started or starting   *)
(* simulator.                                                              *)
(***************************************************************************)
THEOREM InvImpliesQuiet == IInv => Quiet
  BY DEF IInv, Quiet, Current, BootstrapTypes, Flags

\* Nothing runs before the first start.
LEMMA InitInv == Init => IInv
  <1> SUFFICES ASSUME Init PROVE IInv
    OBVIOUS
  <1>1. BootstrapTypes
    BY DEF Init, BootstrapTypes, Flags, Zero, StatsRecord
  <1>2. NoStation \in StationRecord
    BY DEF NoStation, StationRecord
  <1>3. StationTypes
    BY <1>2 DEF Init, StationTypes
  <1>4. Waiters /\ Phases /\ Current
    BY DEF Init, Waiters, Phases, Current, NoStation
  <1> QED
    BY <1>1, <1>3, <1>4 DEF IInv

\* Appending a command to some inboxes keeps them sequences of commands.
LEMMA Telling ==
  ASSUME inbox \in [Stations -> Seq(Message)], NEW ss, NEW message \in Message,
         Tell(ss, message)
  PROVE  inbox' \in [Stations -> Seq(Message)]
  BY DEF Tell

\* The command a station handles, and the inbox it leaves.
LEMMA Consuming ==
  ASSUME StationTypes, NEW s \in Stations, inbox[s] # <<>>
  PROVE  /\ Command(s) \in Message
         /\ Consume(s) => inbox' \in [Stations -> Seq(Message)]
  <1>1. inbox[s] \in Seq(Message)
    BY DEF StationTypes
  <1>2. Head(inbox[s]) \in Message /\ Tail(inbox[s]) \in Seq(Message)
    BY <1>1
  <1> QED
    BY <1>2 DEF Command, Consume, StationTypes

\* Noting an accident other than an overlap.
LEMMA Noting ==
  ASSUME BootstrapTypes, NEW condition \in BOOLEAN, NEW event \in {"raced", "drifted", "stuck"},
         NoteIf(condition, event) \/ Note(event) \/ history' = history
  PROVE  /\ history' \in [overlapped : BOOLEAN, raced : BOOLEAN, drifted : BOOLEAN,
                         stuck : BOOLEAN]
         /\ history'.overlapped = history.overlapped
  BY DEF BootstrapTypes, NoteIf, Note

\* A step of a station that is not new leaves the simulator calm.
LEMMA StationStep ==
  ASSUME IInv, UNCHANGED <<flags, start, stop, reload, stats, workers>>,
         StationTypes', Waiters',
         history' \in [overlapped : BOOLEAN, raced : BOOLEAN, drifted : BOOLEAN,
                       stuck : BOOLEAN],
         history'.overlapped = history.overlapped,
         \A t \in Stations : station'[t].phase # "none" =>
             station[t].phase # "none" /\ station'[t].generation = station[t].generation
  PROVE  IInv'
  <1>1. BootstrapTypes'
    BY DEF IInv, BootstrapTypes
  <1>2. Phases => Phases'
    BY DEF Phases
  <1>3. Current => Current'
    BY DEF Current
  <1> QED
    BY <1>1, <1>2, <1>3 DEF IInv

\* A step of the main thread that concerns neither stations nor their start.
LEMMA MainStep ==
  ASSUME IInv, UNCHANGED <<flags, start, workers, station, inbox, history>>,
         stop' \in [step : {"idle", "waiting", "closing"}, awaited : Int],
         stop'.step # "idle" => stop.step # "idle",
         reload' \in {"none", "stop", "start"},
         stats' \in StatsRecord
  PROVE  IInv'
  <1>1. BootstrapTypes'
    BY DEF IInv, BootstrapTypes
  <1>2. StationTypes' /\ Waiters'
    BY DEF IInv, StationTypes, Waiters
  <1>3. Phases => Phases'
    BY DEF Phases
  <1>4. Current => Current'
    BY DEF Current
  <1> QED
    BY <1>1, <1>2, <1>3, <1>4 DEF IInv

(***************************************************************************)
(* The steps of stations.                                                  *)
(***************************************************************************)
LEMMA StationActions ==
  ASSUME IInv, NEW s \in Stations,
         \/ Construct(s) \/ HandleIdle(s) \/ HandleStart(s) \/ HandleStop(s)
         \/ HandleDelete(s) \/ StationStops(s) \/ StationStopFails(s)
  PROVE  IInv'
  <1> USE DEF mainVars, uiVars, stationVars
  <1>0. /\ station \in [Stations -> StationRecord]
        /\ inbox \in [Stations -> Seq(Message)]
        /\ Waiters /\ BootstrapTypes /\ StationTypes
    BY DEF IInv, StationTypes
  <1>1. CASE Construct(s)
    <2>1. PICK on \in {"on", "off"} :
            station' = [station EXCEPT ![s].phase = "up", ![s].run = on]
      BY <1>1 DEF Construct
    <2>2. station[s].phase = "asked" /\ inbox' = inbox /\ history' = history
      BY <1>1 DEF Construct
    <2>3. StationTypes'
      BY <1>0, <2>1, <2>2 DEF StationTypes, StationRecord
    <2>4. Waiters'
      BY <1>0, <2>1, <2>2 DEF Waiters, StationRecord
    <2>5. \A t \in Stations : station'[t].phase # "none" =>
             station[t].phase # "none" /\ station'[t].generation = station[t].generation
      BY <1>0, <2>1, <2>2 DEF StationRecord
    <2> QED
      BY <1>0, <1>1, <2>2, <2>3, <2>4, <2>5, StationStep DEF Construct, BootstrapTypes
  <1>2. CASE HandleIdle(s)
    <2>1. station' = station /\ history' = history /\ UNCHANGED mainVars
      BY <1>2 DEF HandleIdle
    <2>2. inbox' \in [Stations -> Seq(Message)]
      BY <1>0, <1>2, Consuming DEF HandleIdle
    <2>3. StationTypes' /\ Waiters'
      BY <1>0, <2>1, <2>2 DEF StationTypes, Waiters
    <2> QED
      BY <1>0, <2>1, <2>3, StationStep DEF BootstrapTypes
  <1>3. CASE HandleStart(s)
    <2>1. /\ station' = [station EXCEPT ![s].run = "on"] /\ history' = history
          /\ UNCHANGED mainVars
      BY <1>3 DEF HandleStart
    <2>2. inbox' \in [Stations -> Seq(Message)]
      BY <1>0, <1>3, Consuming DEF HandleStart
    <2>3. StationTypes'
      BY <1>0, <2>1, <2>2 DEF StationTypes, StationRecord
    <2>4. Waiters'
      BY <1>0, <2>1 DEF Waiters, StationRecord
    <2>5. \A t \in Stations : station'[t].phase # "none" =>
             station[t].phase # "none" /\ station'[t].generation = station[t].generation
      BY <1>0, <2>1 DEF StationRecord
    <2> QED
      BY <1>0, <2>1, <2>3, <2>4, <2>5, StationStep DEF BootstrapTypes
  <1>4. CASE HandleStop(s)
    <2>1. /\ station' = [station EXCEPT ![s].run = "stopping", ![s].waiter = Command(s)]
          /\ history' = history /\ UNCHANGED mainVars /\ station[s].phase # "none"
      BY <1>4 DEF HandleStop, Hearing
    <2>2. Command(s) \in Message /\ inbox' \in [Stations -> Seq(Message)]
      BY <1>0, <1>4, Consuming DEF HandleStop
    <2>3. StationTypes'
      BY <1>0, <2>1, <2>2 DEF StationTypes, StationRecord
    <2>4. Waiters'
      BY <1>0, <2>1 DEF Waiters, StationRecord
    <2>5. \A t \in Stations : station'[t].phase # "none" =>
             station[t].phase # "none" /\ station'[t].generation = station[t].generation
      BY <1>0, <2>1 DEF StationRecord
    <2> QED
      BY <1>0, <2>1, <2>3, <2>4, <2>5, StationStep DEF BootstrapTypes
  <1>5. CASE HandleDelete(s)
    <2>1. /\ station' = [station EXCEPT ![s].phase = "deleted"]
          /\ UNCHANGED mainVars /\ station[s].phase # "none"
      BY <1>5 DEF HandleDelete, Hearing
    <2>2. inbox' \in [Stations -> Seq(Message)]
      BY <1>0, <1>5, Consuming DEF HandleDelete
    <2>3. StationTypes'
      BY <1>0, <2>1, <2>2 DEF StationTypes, StationRecord
    <2>4. Waiters'
      BY <1>0, <2>1 DEF Waiters, StationRecord
    <2>5. \A t \in Stations : station'[t].phase # "none" =>
             station[t].phase # "none" /\ station'[t].generation = station[t].generation
      BY <1>0, <2>1 DEF StationRecord
    <2>6. NoteIf(s \in Running, "drifted")
      BY <1>5 DEF HandleDelete
    <2>7. (s \in Running) \in BOOLEAN
      OBVIOUS
    <2>8. /\ history' \in [overlapped : BOOLEAN, raced : BOOLEAN, drifted : BOOLEAN,
                           stuck : BOOLEAN]
          /\ history'.overlapped = history.overlapped
      BY <1>0, <2>6, <2>7, Noting
    <2> QED
      BY <2>1, <2>3, <2>4, <2>5, <2>8, StationStep
  <1>6. CASE StationStops(s)
    <2>1. PICK phase \in {"deleted", station[s].phase} :
            station' = [station EXCEPT ![s].run = "off", ![s].waiter = Nobody,
                                       ![s].phase = phase]
      BY <1>6 DEF StationStops
    <2>2. station[s].phase # "none" /\ history' = history /\ UNCHANGED <<mainVars, inbox>>
      BY <1>0, <1>6 DEF StationStops, Waiters
    <2>3. StationTypes'
      <3>1. phase \in {"none", "asked", "up", "deleted"} /\ station[s] \in StationRecord
        BY <1>0 DEF StationRecord
      <3>2. [station[s] EXCEPT !.run = "off", !.waiter = Nobody, !.phase = phase]
              \in StationRecord
        BY <3>1 DEF StationRecord
      <3>3. station' \in [Stations -> StationRecord]
        BY <1>0, <2>1, <3>2
      <3> QED
        BY <1>0, <2>2, <3>3 DEF StationTypes
    <2>4. Waiters'
      BY <1>0, <2>1 DEF Waiters, StationRecord
    <2>5. \A t \in Stations : station'[t].phase # "none" =>
             station[t].phase # "none" /\ station'[t].generation = station[t].generation
      BY <1>0, <2>1, <2>2 DEF StationRecord
    <2> QED
      BY <1>0, <2>2, <2>3, <2>4, <2>5, StationStep DEF BootstrapTypes
  <1>7. CASE StationStopFails(s)
    <2>1. /\ station' = [station EXCEPT ![s].waiter = Nobody]
          /\ UNCHANGED <<mainVars, inbox>> /\ Note("stuck")
      BY <1>7 DEF StationStopFails
    <2>2. StationTypes'
      BY <1>0, <2>1 DEF StationTypes, StationRecord
    <2>3. Waiters'
      BY <1>0, <2>1 DEF Waiters, StationRecord
    <2>4. \A t \in Stations : station'[t].phase # "none" =>
             station[t].phase # "none" /\ station'[t].generation = station[t].generation
      BY <1>0, <2>1 DEF StationRecord
    <2> QED
      BY <1>0, <2>1, <2>2, <2>3, <2>4, StationStep, Noting
  <1> QED
    BY <1>1, <1>2, <1>3, <1>4, <1>5, <1>6, <1>7

(***************************************************************************)
(* The steps that lose a station or leave the stations alone.              *)
(***************************************************************************)
\* What is left of a station whose worker is gone.
LEMMA Ending ==
  ASSUME StationTypes, NEW s \in Stations
  PROVE  /\ Ended(s) \in StationRecord
         /\ Ended(s).phase = "none" /\ Ended(s).waiter = Nobody
  <1>1. station[s] \in StationRecord
    BY DEF StationTypes
  <1>2. station[s].index \in Nat /\ station[s].generation \in Nat
    BY <1>1 DEF StationRecord
  <1> QED
    BY <1>2 DEF Ended, NoStation, StationRecord

\* A station dies with its worker.
LEMMA Crashing == ASSUME IInv, NEW s \in Stations, Crash(s) PROVE IInv'
  <1>0. StationTypes /\ Waiters /\ BootstrapTypes
    BY DEF IInv
  <1>1. /\ station' = [station EXCEPT ![s] = Ended(s)]
        /\ inbox' = [inbox EXCEPT ![s] = <<>>]
        /\ NoteIf(s \in Running, "drifted")
        /\ UNCHANGED <<flags, start, stop, reload, stats, workers>>
    BY DEF Crash
  <1>2. StationTypes'
    BY <1>0, <1>1, Ending DEF StationTypes
  <1>3. Waiters'
    BY <1>0, <1>1, Ending DEF Waiters, StationTypes
  <1>4. \A t \in Stations : station'[t].phase # "none" =>
           station[t].phase # "none" /\ station'[t].generation = station[t].generation
    BY <1>0, <1>1, Ending DEF StationTypes
  <1>5. (s \in Running) \in BOOLEAN
    OBVIOUS
  <1>6. /\ history' \in [overlapped : BOOLEAN, raced : BOOLEAN, drifted : BOOLEAN,
                         stuck : BOOLEAN]
        /\ history'.overlapped = history.overlapped
    BY <1>0, <1>1, <1>5, Noting
  <1> QED
    BY <1>1, <1>2, <1>3, <1>4, <1>6, StationStep

\* The four ways in which the statistics of a template are counted.
LEMMA Counting ==
  ASSUME BootstrapTypes, NEW i \in Nat,
         \/ stats' = [stats EXCEPT !.added = @ + 1, !.indexes = @ \cup {i}]
         \/ stats' = [stats EXCEPT !.added = @ - 1, !.indexes = @ \ {i}]
         \/ stats' = [stats EXCEPT !.started = @ + 1]
         \/ stats' = [stats EXCEPT !.started = @ - 1]
         \/ stats' = stats
  PROVE  stats' \in StatsRecord
  <1>1. /\ stats \in StatsRecord /\ stats.added \in Int /\ stats.started \in Int
        /\ stats.indexes \in SUBSET Nat
    BY DEF BootstrapTypes, StatsRecord
  <1>2. CASE stats' = [stats EXCEPT !.added = @ + 1, !.indexes = @ \cup {i}]
    <2>1. stats.added + 1 \in Int /\ stats.indexes \cup {i} \in SUBSET Nat
      BY <1>1
    <2> QED
      BY <1>1, <1>2, <2>1 DEF StatsRecord
  <1>3. CASE stats' = [stats EXCEPT !.added = @ - 1, !.indexes = @ \ {i}]
    <2>1. stats.added - 1 \in Int /\ stats.indexes \ {i} \in SUBSET Nat
      BY <1>1
    <2> QED
      BY <1>1, <1>3, <2>1 DEF StatsRecord
  <1>4. CASE stats' = [stats EXCEPT !.started = @ + 1]
    BY <1>1, <1>4 DEF StatsRecord
  <1>5. CASE stats' = [stats EXCEPT !.started = @ - 1]
    BY <1>1, <1>5 DEF StatsRecord
  <1>6. CASE stats' = stats
    BY <1>1, <1>6
  <1> QED
    BY <1>2, <1>3, <1>4, <1>5, <1>6

\* The main thread handles a message of a worker, or addElement settles.
LEMMA StationMessages ==
  ASSUME IInv, NEW s \in Stations, AddSettles(s) \/ Event(s) \/ Response(s)
  PROVE  IInv'
  <1>0. BootstrapTypes /\ StationTypes
    BY DEF IInv
  <1>1. CASE AddSettles(s)
    <2>1. station[s].index \in Nat
      BY <1>0 DEF StationTypes, StationRecord
    <2>2. stats' = [stats EXCEPT !.added = @ + 1, !.indexes = @ \cup {station[s].index}]
      BY <1>1 DEF AddSettles
    <2>3. stats' \in StatsRecord
      BY <1>0, <2>1, <2>2, Counting
    <2> QED
      BY <1>0, <1>1, <2>3, MainStep DEF AddSettles, stationVars, BootstrapTypes
  <1>2. CASE Event(s)
    <2>7. station[s].index \in Nat
      BY <1>0 DEF StationTypes, StationRecord
    <2>1. UNCHANGED <<flags, start, workers, station, inbox, history, reload>>
      BY <1>2 DEF Event
    <2>2. \/ EventAdded(s) \/ EventStarted(s) \/ EventStopped(s) \/ EventDeleted(s)
          \/ UNCHANGED <<stats, stop>>
      BY <1>2 DEF Event
    <2>3. \/ stats' = [stats EXCEPT !.started = @ + 1]
          \/ stats' = [stats EXCEPT !.started = @ - 1]
          \/ stats' = [stats EXCEPT !.added = @ - 1, !.indexes = @ \ {station[s].index}]
          \/ stats' = stats
      BY <2>2 DEF EventAdded, EventStarted, EventStopped, EventDeleted
    <2>6. stats' \in StatsRecord
      BY <1>0, <2>3, <2>7, Counting
    <2>4. stop' = OneLessAwaited \/ stop' = stop
      BY <2>2 DEF EventAdded, EventStarted, EventStopped, EventDeleted
    <2>5. /\ stop' \in [step : {"idle", "waiting", "closing"}, awaited : Int]
          /\ stop'.step # "idle" => stop.step # "idle"
      BY <1>0, <2>4 DEF OneLessAwaited, BootstrapTypes
    <2> QED
      BY <1>0, <2>1, <2>6, <2>5, MainStep DEF BootstrapTypes
  <1>3. CASE Response(s)
    <2>1. UNCHANGED <<flags, start, workers, station, inbox, history, reload, stop, stats>>
      BY <1>3 DEF Response
    <2> QED
      BY <1>0, <2>1, MainStep DEF BootstrapTypes
  <1> QED
    BY <1>1, <1>2, <1>3

\* The UI service gathers a reply.
LEMMA Gathering == ASSUME IInv, NEW r \in Requests, NEW s \in Stations, Gather(r, s) PROVE IInv'
  <1>1. UNCHANGED <<flags, start, workers, station, inbox, history, reload, stop, stats>>
    BY DEF Gather, mainVars, stationVars
  <1> QED
    BY <1>1, MainStep DEF IInv, BootstrapTypes

(***************************************************************************)
(* Commands and additions.                                                 *)
(***************************************************************************)
\* A client's command is put in the inboxes of stations.
LEMMA Broadcasting ==
  ASSUME IInv, NEW r \in Requests, NEW command \in Commands, NEW ids,
         Broadcast(r, command, ids)
  PROVE  IInv'
  <1>0. BootstrapTypes /\ StationTypes /\ Waiters
    BY DEF IInv
  <1>1. [request |-> r, command |-> command] \in Message
    BY DEF Message
  <1>2. UNCHANGED <<flags, start, stop, reload, stats, workers, station, history>>
    BY DEF Broadcast, mainVars
  <1>3. inbox' \in [Stations -> Seq(Message)]
    BY <1>0, <1>1, Telling DEF Broadcast, StationTypes
  <1>4. StationTypes' /\ Waiters'
    BY <1>0, <1>2, <1>3 DEF StationTypes, Waiters
  <1> QED
    BY <1>0, <1>2, <1>4, StationStep DEF BootstrapTypes

\* A new station belongs to the current worker implementation.
LEMMA AskedRecord ==
  ASSUME BootstrapTypes, NEW i \in Nat
  PROVE  /\ Asked(i) \in StationRecord
         /\ Asked(i).generation = workers.generation /\ Asked(i).waiter = Nobody
         /\ Asked(i).phase = "asked"
  <1>1. workers.generation \in Nat
    BY DEF BootstrapTypes
  <1> QED
    BY <1>1 DEF Asked, StationRecord

\* A client adds a station, which the current worker implementation hosts.
LEMMA AddingStation ==
  ASSUME IInv, NEW r \in Requests, NEW s \in Stations, AddStation(r, s)
  PROVE  IInv'
  <1>0. BootstrapTypes /\ StationTypes /\ Waiters
    BY DEF IInv
  <1>1. PICK i \in Indexes : station' = [station EXCEPT ![s] = Asked(i)]
    BY DEF AddStation
  <1>2. i \in Nat
    BY DEF Indexes
  <1>3. /\ flags.started
        /\ UNCHANGED <<flags, start, stop, reload, stats, workers, inbox>>
        /\ NoteIf(\E t \in Stations : adds[t].by \in Requests, "raced")
    BY DEF AddStation
  <1>4. (\E t \in Stations : adds[t].by \in Requests) \in BOOLEAN
    OBVIOUS
  <1>5. BootstrapTypes' /\ history'.overlapped = history.overlapped
    BY <1>0, <1>3, <1>4, Noting DEF BootstrapTypes
  <1>6. StationTypes'
    BY <1>0, <1>1, <1>2, <1>3, AskedRecord DEF StationTypes
  <1>7. Waiters'
    BY <1>0, <1>1, <1>2, AskedRecord DEF Waiters, StationTypes
  <1>8. Current => Current'
    BY <1>0, <1>1, <1>2, <1>3, AskedRecord DEF Current, StationTypes
  <1>9. Phases => Phases'
    BY <1>3 DEF Phases
  <1> QED
    BY <1>5, <1>6, <1>7, <1>8, <1>9 DEF IInv

(***************************************************************************)
(* Bootstrap's start.                                                      *)
(***************************************************************************)
\* start() takes the worker implementation there is.
LEMMA Starting == ASSUME IInv, StartSimulator PROVE IInv'
  <1>0. BootstrapTypes /\ StationTypes /\ Waiters
    BY DEF IInv
  <1>1. /\ UNCHANGED <<stop, reload, stats, workers, station, inbox, history>>
        /\ flags' = [flags EXCEPT !.starting = TRUE] /\ ~flags.started
        /\ start' = [step |-> "workers", generation |-> workers.generation]
    BY DEF StartSimulator, StartWith, stationVars
  <1>2. BootstrapTypes'
    BY <1>0, <1>1 DEF BootstrapTypes, Flags
  <1>3. StationTypes' /\ Waiters'
    BY <1>0, <1>1 DEF StationTypes, Waiters
  <1>4. Phases => Phases'
    BY <1>0, <1>1 DEF Phases, BootstrapTypes, Flags
  <1>5. Current => Current'
    BY <1>0, <1>1 DEF Current, BootstrapTypes, Flags
  <1> QED
    BY <1>1, <1>2, <1>3, <1>4, <1>5 DEF IInv

\* start() asks for the configured stations, of the implementation it took.
LEMMA AddingConfigured == ASSUME IInv, StartAdds PROVE IInv'
  <1>0. BootstrapTypes /\ StationTypes /\ Waiters
    BY DEF IInv
  <1>1. /\ UNCHANGED <<flags, stop, reload, stats, inbox, history>>
        /\ start' = [start EXCEPT !.step = "adding"] /\ start.step = "workers"
        /\ workers' = [workers EXCEPT !.started = TRUE] \/ workers' = workers
    BY DEF StartAdds, uiVars
  <1>2. BootstrapTypes' /\ workers'.generation = workers.generation
    BY <1>0, <1>1 DEF BootstrapTypes
  <1>3. \/ station' = station
        \/ \E index \in [Stations -> 0 .. NumberOfStations] :
              station' = [s \in Stations |->
                             IF index[s] = 0 THEN station[s] ELSE Asked(index[s])]
    BY DEF StartAdds
  <1>4. PICK index \in [Stations -> Nat] :
           station' = [s \in Stations |->
                          IF index[s] = 0 THEN station[s] ELSE Asked(index[s])]
    <2>1. CASE station' = station
      <3>1. station' = [s \in Stations |->
                IF [t \in Stations |-> 0][s] = 0 THEN station[s]
                ELSE Asked([t \in Stations |-> 0][s])]
        BY <1>0, <2>1 DEF StationTypes
      <3>2. [t \in Stations |-> 0] \in [Stations -> Nat]
        OBVIOUS
      <3> QED
        BY <3>1, <3>2
    <2>2. CASE station' # station
      <3>1. PICK index \in [Stations -> 0 .. NumberOfStations] :
               station' = [s \in Stations |->
                              IF index[s] = 0 THEN station[s] ELSE Asked(index[s])]
        BY <1>3, <2>2
      <3>2. index \in [Stations -> Nat]
        BY <3>1
      <3> QED
        BY <3>1, <3>2
    <2> QED
      BY <2>1, <2>2
  <1>5. StationTypes'
    BY <1>0, <1>1, <1>4, AskedRecord DEF StationTypes
  <1>6. Waiters'
    BY <1>0, <1>4, AskedRecord DEF Waiters
  <1>7. Phases /\ Current => Current'
    BY <1>0, <1>1, <1>2, <1>4, AskedRecord DEF Phases, Current
  <1>8. Phases => Phases'
    BY <1>0, <1>1, <1>2 DEF Phases, BootstrapTypes
  <1> QED
    BY <1>1, <1>2, <1>5, <1>6, <1>7, <1>8 DEF IInv

\* start() ends, and the simulator is started.
LEMMA EndingStart == ASSUME IInv, StartEnds PROVE IInv'
  <1>0. BootstrapTypes /\ StationTypes /\ Waiters
    BY DEF IInv
  <1>1. /\ UNCHANGED <<stop, stats, workers, station, inbox, history>>
        /\ flags' = [flags EXCEPT !.started = TRUE, !.starting = FALSE]
        /\ start' = [start EXCEPT !.step = "idle"]
        /\ reload' \in {"none", reload}
    BY DEF StartEnds, stationVars
  <1>2. BootstrapTypes'
    BY <1>0, <1>1 DEF BootstrapTypes, Flags
  <1>3. StationTypes' /\ Waiters'
    BY <1>0, <1>1 DEF StationTypes, Waiters
  <1>4. Phases => Phases'
    BY <1>0, <1>1 DEF Phases, BootstrapTypes, Flags
  <1>5. Current => Current'
    BY <1>0, <1>1 DEF Current, BootstrapTypes, Flags
  <1> QED
    BY <1>1, <1>2, <1>3, <1>4, <1>5 DEF IInv

(***************************************************************************)
(* Bootstrap's stop, by itself or for a reload of the configuration.       *)
(***************************************************************************)
\* stop() sends its command and counts the stations it awaits.
LEMMA Stopping ==
  ASSUME IInv, BeginStop, flags.started, reload' \in {"none", "stop", "start"},
         UNCHANGED <<start, stats, workers, station, history>>
  PROVE  IInv'
  <1>0. BootstrapTypes /\ StationTypes /\ Waiters
    BY DEF IInv
  <1>1. /\ flags' = [flags EXCEPT !.stopping = TRUE]
        /\ stop' = [step |-> IF stats.started = 0 THEN "closing" ELSE "waiting",
                    awaited |-> stats.started]
    BY DEF BeginStop
  <1>2. stats.started \in Int
    BY <1>0 DEF BootstrapTypes, StatsRecord
  <1>3. BootstrapTypes'
    BY <1>0, <1>1, <1>2 DEF BootstrapTypes, Flags
  <1>4. StopCommand \in Message
    BY DEF StopCommand, Message, Internal, Commands
  <1>5. inbox' \in [Stations -> Seq(Message)]
    <2>1. PICK ss : Tell(ss, StopCommand)
      BY DEF BeginStop
    <2> QED
      BY <1>0, <1>4, <2>1, Telling DEF StationTypes
  <1>6. StationTypes' /\ Waiters'
    BY <1>0, <1>5 DEF StationTypes, Waiters
  <1>7. Phases => Phases'
    BY <1>0, <1>1 DEF Phases, BootstrapTypes, Flags
  <1>8. Current => Current'
    BY <1>0, <1>1 DEF Current, BootstrapTypes, Flags
  <1> QED
    BY <1>3, <1>6, <1>7, <1>8 DEF IInv

\* A reload zeroes the statistics and replaces the worker implementation; it
\* starts the simulator only when the flags allow it.
LEMMA Renewing ==
  ASSUME BootstrapTypes, NEW fl \in Flags, Renew(fl)
  PROVE  /\ stats' \in StatsRecord
         /\ workers' \in [generation : Nat, started : BOOLEAN]
         /\ reload' \in {"none", "stop", "start"}
         /\ flags' \in Flags
         /\ flags'.started = fl.started /\ flags'.stopping = fl.stopping
         /\ start' \in [step : {"idle", "workers", "adding"}, generation : Nat]
         /\ \/ UNCHANGED start
            \/ /\ flags'.starting /\ ~flags'.started
               /\ start'.generation = workers'.generation
  <1>1. workers.generation + 1 \in Nat
    BY DEF BootstrapTypes
  <1>2. /\ stats' \in StatsRecord
        /\ workers' \in [generation : Nat, started : BOOLEAN]
        /\ workers'.generation = workers.generation + 1
    BY <1>1 DEF Renew, Zero, StatsRecord
  <1>3. CASE fl.started \/ fl.starting
    <2>1. reload' = "none" /\ flags' = fl /\ start' = start
      BY <1>3 DEF Renew
    <2> QED
      BY <1>2, <2>1 DEF BootstrapTypes
  <1>4. CASE ~(fl.started \/ fl.starting)
    <2>1. /\ reload' = "start" /\ flags' = [fl EXCEPT !.starting = TRUE]
          /\ start' = [step |-> "workers", generation |-> workers.generation + 1]
      BY <1>4 DEF Renew, StartWith
    <2>2. /\ flags' \in Flags
          /\ flags'.started = fl.started /\ flags'.stopping = fl.stopping
          /\ flags'.starting /\ ~flags'.started
      BY <1>4, <2>1 DEF Flags
    <2>3. /\ start' \in [step : {"idle", "workers", "adding"}, generation : Nat]
          /\ start'.generation = workers'.generation
      BY <1>1, <1>2, <2>1
    <2> QED
      BY <1>2, <2>1, <2>2, <2>3
  <1> QED
    BY <1>3, <1>4

\* A stop that ends leaves no station of the worker implementation it stopped.
LEMMA EndingStations ==
  ASSUME IInv, StopEnds
  PROVE  /\ StationTypes' /\ Waiters'
         /\ \A s \in Stations : station[s].generation = workers.generation =>
                                  station'[s].phase = "none"
         /\ \A s \in Stations : station'[s].phase # "none" => station[s].phase # "none"
  <1>0. StationTypes /\ Waiters
    BY DEF IInv
  <1> DEFINE ended == {s \in Stations : station[s].generation = workers.generation}
  <1>1. /\ station' = [s \in Stations |-> IF s \in ended THEN Ended(s) ELSE station[s]]
        /\ inbox' = [s \in Stations |-> IF s \in ended THEN <<>> ELSE inbox[s]]
    BY DEF StopEnds
  <1>2. station' \in [Stations -> StationRecord]
    BY <1>0, <1>1, Ending DEF StationTypes
  <1>3. inbox' \in [Stations -> Seq(Message)]
    BY <1>0, <1>1 DEF StationTypes
  <1> QED
    BY <1>0, <1>1, <1>2, <1>3, Ending DEF StationTypes, Waiters

\* stop() ends, and a reload may start the simulator again.
LEMMA EndingStop == ASSUME IInv, StopEnds PROVE IInv'
  <1>0. BootstrapTypes
    BY DEF IInv
  <1> DEFINE stopped == [flags EXCEPT !.started = FALSE, !.stopping = FALSE]
  <1>1. /\ stop.step = "closing"
        /\ stop' = [stop EXCEPT !.step = "idle"]
        /\ NoteIf(\E s \in {t \in Stations : station[t].generation = workers.generation} :
                      s \in Running \/ outbox[s] # <<>>, "drifted")
        /\ IF reload = "stop"
           THEN Renew(stopped)
           ELSE /\ flags' = stopped
                /\ workers' = [workers EXCEPT !.started = FALSE]
                /\ UNCHANGED <<start, reload, stats>>
    BY DEF StopEnds
  <1>2. stopped \in Flags /\ ~stopped.started /\ ~stopped.stopping
    BY <1>0 DEF BootstrapTypes, Flags
  <1>3. /\ stop' \in [step : {"idle", "waiting", "closing"}, awaited : Int]
        /\ stop'.step = "idle"
    BY <1>0, <1>1 DEF BootstrapTypes
  <1>4. /\ stats' \in StatsRecord
        /\ workers' \in [generation : Nat, started : BOOLEAN]
        /\ reload' \in {"none", "stop", "start"}
        /\ flags' \in Flags /\ ~flags'.started /\ ~flags'.stopping
        /\ start' \in [step : {"idle", "workers", "adding"}, generation : Nat]
        /\ \/ UNCHANGED start
           \/ /\ flags'.starting /\ ~flags'.started
              /\ start'.generation = workers'.generation
    <2>1. CASE reload = "stop"
      BY <1>0, <1>1, <1>2, <2>1, Renewing
    <2>2. CASE reload # "stop"
      BY <1>0, <1>1, <1>2, <2>2 DEF BootstrapTypes
    <2> QED
      BY <2>1, <2>2
  <1>5. (\E s \in {t \in Stations : station[t].generation = workers.generation} :
            s \in Running \/ outbox[s] # <<>>) \in BOOLEAN
    OBVIOUS
  <1>6. /\ history' \in [overlapped : BOOLEAN, raced : BOOLEAN, drifted : BOOLEAN,
                         stuck : BOOLEAN]
        /\ history'.overlapped = history.overlapped
    BY <1>0, <1>1, <1>5, Noting
  <1>7. BootstrapTypes'
    BY <1>3, <1>4, <1>6 DEF BootstrapTypes
  <1>8. Phases => Phases'
    <2> SUFFICES ASSUME Phases PROVE Phases'
      OBVIOUS
    <2>1. start.step = "idle"
      BY <1>0, <1>1 DEF Phases, BootstrapTypes
    <2> QED
      BY <1>3, <1>4, <2>1 DEF Phases
  <1>9. Current => Current'
    BY EndingStations DEF Current
  <1> QED
    BY <1>6, <1>7, <1>8, <1>9, EndingStations DEF IInv

\* A reload that stop() refuses is harmless only when nothing is in progress.
LEMMA ReloadingAnyway == ASSUME IInv, ReloadRefused PROVE IInv'
  <1>0. BootstrapTypes /\ StationTypes /\ Waiters
    BY DEF IInv
  <1>1. /\ ~flags.started \/ flags.stopping
        /\ Renew(flags)
        /\ history' = [history EXCEPT !["overlapped"] =
                                 @ \/ (flags.starting \/ flags.stopping)]
        /\ UNCHANGED <<stop, station, inbox>>
    BY DEF ReloadRefused, NoteIf, stationVars
  <1>2. flags \in Flags
    BY <1>0 DEF BootstrapTypes
  <1>3. (flags.starting \/ flags.stopping) \in BOOLEAN
    OBVIOUS
  <1>4. /\ history' \in [overlapped : BOOLEAN, raced : BOOLEAN, drifted : BOOLEAN,
                         stuck : BOOLEAN]
        /\ ~history'.overlapped => /\ ~history.overlapped
                                   /\ ~(flags.starting \/ flags.stopping)
    BY <1>0, <1>1, <1>3 DEF BootstrapTypes
  <1>5. BootstrapTypes'
    BY <1>0, <1>1, <1>2, <1>4, Renewing DEF BootstrapTypes
  <1>6. StationTypes' /\ Waiters'
    BY <1>0, <1>1 DEF StationTypes, Waiters
  <1>7. ASSUME ~history'.overlapped, Phases, Current PROVE Phases' /\ Current'
    <2>1. ~flags.started /\ ~flags.starting /\ ~flags.stopping
      BY <1>1, <1>4, <1>7
    <2>2. start.step = "idle" /\ stop.step = "idle"
      BY <2>1, <1>7 DEF Phases
    <2>3. \A s \in Stations : station[s].phase = "none"
      BY <2>1, <1>7 DEF Current
    <2>4. Current'
      BY <1>1, <2>3 DEF Current
    <2>5. Phases'
      BY <1>0, <1>1, <1>2, <2>1, <2>2, Renewing DEF Phases
    <2> QED
      BY <2>4, <2>5
  <1> QED
    BY <1>4, <1>5, <1>6, <1>7 DEF IInv

(***************************************************************************)
(* Every step keeps the invariant.                                         *)
(***************************************************************************)
\* One case per action.
LEMMA NextInv == IInv /\ [Next]_vars => IInv'
  <1> SUFFICES ASSUME IInv, [Next]_vars PROVE IInv'
    OBVIOUS
  <1>1. CASE UNCHANGED vars
    BY <1>1 DEF vars, mainVars, stationVars, IInv, BootstrapTypes, StationTypes, Waiters,
                Phases, Current
  <1>2. CASE StartSimulator \/ StartAdds \/ StartEnds
    BY <1>2, Starting, AddingConfigured, EndingStart
  <1>3. CASE StopSimulator
    <2>1. /\ BeginStop /\ flags.started /\ reload' = reload
          /\ UNCHANGED <<start, stats, workers, station, history>>
      BY <1>3 DEF StopSimulator
    <2> QED
      BY <2>1, Stopping DEF IInv, BootstrapTypes
  <1>4. CASE ReloadStops
    <2>1. /\ BeginStop /\ flags.started /\ reload' = "stop"
          /\ UNCHANGED <<start, stats, workers, station, history>>
      BY <1>4 DEF ReloadStops
    <2> QED
      BY <2>1, Stopping
  <1>5. CASE StopEnds \/ ReloadRefused
    BY <1>5, EndingStop, ReloadingAnyway
  <1>6. CASE StopTimesOut
    <2>1. stop' = [stop EXCEPT !.step = "idle"] /\ reload' = "none"
      BY <1>6 DEF StopTimesOut
    <2>2. /\ stop' \in [step : {"idle", "waiting", "closing"}, awaited : Int]
          /\ stop'.step = "idle"
      BY <2>1 DEF IInv, BootstrapTypes
    <2> QED
      BY <1>6, <2>1, <2>2, MainStep DEF StopTimesOut, stationVars, IInv, BootstrapTypes
  <1>7. ASSUME NEW s \in Stations,
               \/ Construct(s) \/ AddSettles(s) \/ Event(s) \/ Response(s)
               \/ HandleIdle(s) \/ HandleStart(s) \/ HandleStop(s) \/ HandleDelete(s)
               \/ StationStops(s) \/ StationStopFails(s) \/ Crash(s)
        PROVE  IInv'
    BY <1>7, StationActions, Crashing, StationMessages
  <1>8. ASSUME NEW r \in Requests, NEW s \in Stations, AddStation(r, s) \/ Gather(r, s)
        PROVE  IInv'
    BY <1>8, AddingStation, Gathering
  <1>9. ASSUME NEW r \in Requests, NEW command \in Commands, NEW ids \in SUBSET known,
               Broadcast(r, command, ids)
        PROVE  IInv'
    BY <1>9, Broadcasting
  <1> QED
    BY <1>1, <1>2, <1>3, <1>4, <1>5, <1>6, <1>7, <1>8, <1>9 DEF Next

(***************************************************************************)
(* Bootstrap.stop and restart: a simulator that is neither started nor     *)
(* starting runs no station, whatever the numbers of stations and requests *)
(* and however crashes, failing stops, timeouts and commands interleave,   *)
(* unless a reload overlapped a start or a stop.                           *)
(***************************************************************************)
THEOREM StoppedIsQuiet == Spec => []Quiet
  BY InitInv, NextInv, InvImpliesQuiet, PTL DEF Spec

-----------------------------------------------------------------------------
(* Types, and what names an index *)

Events == {"added", "started", "stopped", "deleted", "response"}

UITypes ==
    /\ request \in [Requests -> [state : {"new", "sent", "done"}, expected : Nat,
                                 received : Nat, replies : SUBSET Stations]]
    /\ handlers \subseteq Requests
    /\ answers \in [Requests -> Nat]

AddTypes ==
    /\ adds \in [Stations -> [state : {"none", "asked", "answered"},
                             by : Requests \cup {"nobody", "start"}]]
    /\ outbox \in [Stations -> Seq(Events)]

MainTypes ==
    /\ listening \in BOOLEAN
    /\ mishaps \in 0 .. MaxMishaps
    /\ known \subseteq Indexes
    /\ stats.indexes \subseteq Indexes

\* A station, what was said of it and what is awaited of its worker name an
\* index, a station with a waiter is stopping, and a new one does not run.
Carries(s) ==
    /\ station[s].index \in Indexes \cup {0}
    /\ station[s].phase # "none" \/ outbox[s] # <<>> \/ adds[s].state # "none" =>
           station[s].index \in Indexes
    /\ station[s].waiter # Nobody => station[s].run = "stopping"
    /\ station[s].phase = "asked" => station[s].run = "off"
Carriers == \A s \in Stations : Carries(s)

Typed == IInv /\ UITypes /\ AddTypes /\ MainTypes /\ Carriers

\* The indexes are the numbers up to one that is not below numberOfStations.
LEMMA IndexRange ==
    /\ \A i \in 1 .. NumberOfStations : i \in Indexes
    /\ IsFiniteSet(Indexes) /\ 0 \notin Indexes /\ Indexes \subseteq Nat
  <1>1. NumberOfStations \in Nat /\ Cardinality(Stations) \in Nat /\ Cardinality(Requests) \in Nat
    BY SimulatorAssumption, FS_CardinalityType
  <1>2. IsFiniteSet(Indexes)
    BY <1>1, FS_Interval DEF Indexes
  <1> QED
    BY <1>1, <1>2 DEF Indexes

\* An answer is counted for the requests that have a handler.
LEMMA AnswerTyped ==
  ASSUME UITypes, NEW rs, Answer(rs)
  PROVE  handlers' \subseteq Requests /\ answers' \in [Requests -> Nat]
  BY DEF UITypes, Answer

\* A reply is added to those of its request, if it is one of a client.
LEMMA ReplyTyped ==
  ASSUME UITypes, NEW s \in Stations, NEW r, Reply(s, r), UNCHANGED <<handlers, answers>>
  PROVE  UITypes'
  BY DEF UITypes, Reply

\* The UI server's requests keep their types.
LEMMA UITyped ==
  ASSUME UITypes, MainTypes, [Next]_vars
  PROVE  UITypes'
  <1> USE DEF uiVars
  <1>1. CASE UNCHANGED uiVars
    BY <1>1 DEF UITypes
  <1>2. ASSUME NEW s \in Stations,
               HandleIdle(s) \/ HandleStart(s) \/ HandleDelete(s) \/ StationStops(s) \/ StationStopFails(s)
        PROVE  UITypes'
    <2>1. UNCHANGED <<handlers, answers>> /\ \E r : Reply(s, r)
      BY <1>2 DEF HandleIdle, HandleStart, HandleDelete, StationStops, StationStopFails
    <2> QED
      BY <2>1, ReplyTyped
  <1>3. ASSUME NEW s \in Stations, AddSettles(s) \/ Crash(s) PROVE UITypes'
    <2>1. UNCHANGED request /\ (UNCHANGED <<handlers, answers>> \/ \E rs : Answer(rs))
      BY <1>3 DEF AddSettles, Crash
    <2> QED
      BY <2>1, AnswerTyped DEF UITypes
  <1>4. CASE StopEnds
    <2>1. UNCHANGED request /\ \E rs : Answer(rs)
      BY <1>4 DEF StopEnds
    <2> QED
      BY <2>1, AnswerTyped DEF UITypes
  <1>5. ASSUME NEW r \in Requests, NEW s \in Stations, AddStation(r, s) PROVE UITypes'
    BY <1>5 DEF AddStation, UITypes
  <1>6. ASSUME NEW r \in Requests, NEW s \in Stations, Gather(r, s) PROVE UITypes'
    <2>1. /\ request' \in [Requests -> [state : {"new", "sent", "done"}, expected : Nat,
                                        received : Nat, replies : SUBSET Stations]]
      BY <1>6 DEF Gather, UITypes
    <2>2. UNCHANGED <<handlers, answers>> \/ Answer({r})
      BY <1>6 DEF Gather
    <2> QED
      BY <2>1, <2>2, AnswerTyped DEF UITypes
  <1>7. ASSUME NEW r \in Requests, NEW command \in Commands, NEW ids \in SUBSET known,
               Broadcast(r, command, ids)
        PROVE  UITypes'
    <2>1. Expected(ids) \in Nat
      <3>1. IsFiniteSet(known) /\ IsFiniteSet(ids)
        BY IndexRange, FS_Subset DEF MainTypes
      <3> QED
        BY <3>1, FS_CardinalityType DEF Expected
    <2> QED
      BY <1>7, <2>1 DEF Broadcast, UITypes, HandlersAfterBroadcast, NewRequest
  <1> QED
    BY <1>1, <1>2, <1>3, <1>4, <1>5, <1>6, <1>7 DEF Next, vars, StartSimulator, StartAdds, StartEnds,
       StopSimulator, StopTimesOut, ReloadStops, ReloadRefused, Construct, Event, Response, HandleStop

\* The steps that concern the stations, what they posted and the additions.
LocalStep(s) ==
    \/ Construct(s) \/ AddSettles(s) \/ Event(s) \/ Response(s) \/ HandleStart(s)
    \/ HandleStop(s) \/ HandleDelete(s) \/ StationStops(s) \/ StationStopFails(s) \/ Crash(s)

LEMMA Kinds ==
  ASSUME [Next]_vars
  PROVE  \/ UNCHANGED <<station, outbox, adds>> /\ (UNCHANGED <<stats, known, history>> \/ ReloadRefused)
         \/ StartAdds \/ StopEnds
         \/ \E s \in Stations : LocalStep(s) \/ \E r \in Requests : AddStation(r, s)
  <1> USE DEF mainVars, uiVars, stationVars
  <1>1. CASE UNCHANGED vars
    BY <1>1 DEF vars
  <1>2. CASE StartSimulator \/ StartEnds \/ StopSimulator \/ StopTimesOut \/ ReloadStops \/ ReloadRefused
    BY <1>2 DEF StartSimulator, StartEnds, StopSimulator, StopTimesOut, ReloadStops, ReloadRefused
  <1>3. ASSUME NEW s \in Stations, HandleIdle(s) PROVE UNCHANGED <<station, outbox, adds, stats, known, history>>
    BY <1>3 DEF HandleIdle
  <1>4. ASSUME NEW r \in Requests, NEW s \in Stations, Gather(r, s)
        PROVE  UNCHANGED <<station, outbox, adds, stats, known, history>>
    BY <1>4 DEF Gather
  <1>5. ASSUME NEW r \in Requests, NEW command \in Commands, NEW ids \in SUBSET known,
               Broadcast(r, command, ids)
        PROVE  UNCHANGED <<station, outbox, adds, stats, known, history>>
    BY <1>5 DEF Broadcast
  <1> QED
    BY <1>1, <1>2, <1>3, <1>4, <1>5 DEF Next, LocalStep

\* What a station posts is added to what it posted, if it is up.
LEMMA Emitting ==
  ASSUME AddTypes, NEW s \in Stations, NEW e \in Events, NEW f \in Events
  PROVE  /\ Emit(s, <<e>>) => outbox' = [outbox EXCEPT ![s] =
               IF station[s].phase = "up" THEN Append(@, e) ELSE @]
         /\ Emit(s, <<e, f>>) => outbox' = [outbox EXCEPT ![s] =
               IF station[s].phase = "up" THEN Append(Append(@, e), f) ELSE @]
         /\ Emit(s, <<e>>) =>
               outbox'[s] = IF station[s].phase = "up" THEN Append(outbox[s], e) ELSE outbox[s]
         /\ Emit(s, <<e, f>>) =>
               outbox'[s] = IF station[s].phase = "up" THEN Append(Append(outbox[s], e), f)
                                                       ELSE outbox[s]
  <1>1. outbox[s] \in Seq(Events)
    BY DEF AddTypes
  <1>2. outbox[s] \o <<e>> = Append(outbox[s], e)
    BY <1>1
  <1>3. outbox[s] \o <<e, f>> = Append(Append(outbox[s], e), f)
    BY <1>1
  <1> QED
    BY <1>2, <1>3 DEF Emit, AddTypes

\* Messages stay messages.
LEMMA OutboxTyped ==
  ASSUME AddTypes, [Next]_vars
  PROVE  outbox' \in [Stations -> Seq(Events)]
  <1> USE DEF mainVars, uiVars, stationVars
  <1>0. outbox \in [Stations -> Seq(Events)]
    BY DEF AddTypes
  <1>1. CASE UNCHANGED outbox
    BY <1>0, <1>1
  <1>2. ASSUME NEW s \in Stations, Construct(s) PROVE outbox' \in [Stations -> Seq(Events)]
    <2>1. <<"added", "started", "response">> \in Seq(Events) /\ <<"added", "response">> \in Seq(Events)
      BY DEF Events
    <2> QED
      BY <1>0, <1>2, <2>1 DEF Construct
  <1>3. ASSUME NEW s \in Stations, Event(s) \/ Response(s) PROVE outbox' \in [Stations -> Seq(Events)]
    <2>1. outbox' = [outbox EXCEPT ![s] = Tail(@)] /\ outbox[s] \in Seq(Events) /\ outbox[s] # <<>>
      BY <1>0, <1>3 DEF Event, Response, Handled
    <2>2. Tail(outbox[s]) \in Seq(Events)
      BY <2>1
    <2> QED
      BY <1>0, <2>1, <2>2
  <1>4. ASSUME NEW s \in Stations, HandleStart(s) \/ HandleDelete(s) \/ StationStops(s)
        PROVE  outbox' \in [Stations -> Seq(Events)]
    <2>1. "started" \in Events /\ "stopped" \in Events /\ "deleted" \in Events
      BY DEF Events
    <2>2. \/ Emit(s, <<"started">>) \/ Emit(s, <<"deleted">>)
          \/ Emit(s, <<"stopped">>) \/ Emit(s, <<"stopped", "deleted">>)
      BY <1>4 DEF HandleStart, HandleDelete, StationStops
    <2>3. outbox[s] \in Seq(Events)
      BY <1>0
    <2>4. /\ \A e \in Events : Append(outbox[s], e) \in Seq(Events)
          /\ Append(Append(outbox[s], "stopped"), "deleted") \in Seq(Events)
      BY <2>1, <2>3
    <2>5. \/ UNCHANGED outbox
          \/ \E e \in Events : outbox' = [outbox EXCEPT ![s] = Append(@, e)]
          \/ outbox' = [outbox EXCEPT ![s] = Append(Append(@, "stopped"), "deleted")]
      <3>1. CASE station[s].phase = "up"
        BY <1>0, <2>1, <2>2, <3>1, Emitting
      <3>2. CASE station[s].phase # "up"
        BY <1>0, <2>2, <3>2 DEF Emit
      <3> QED
        BY <3>1, <3>2
    <2> QED
      BY <1>0, <2>4, <2>5
  <1>5. CASE StopEnds
    BY <1>0, <1>5 DEF StopEnds
  <1>6. ASSUME NEW s \in Stations,
               \/ AddSettles(s) \/ HandleStop(s) \/ StationStopFails(s) \/ Crash(s)
               \/ \E r \in Requests : AddStation(r, s)
        PROVE  UNCHANGED outbox
    BY <1>6 DEF AddSettles, HandleStop, StationStopFails, Crash, AddStation
  <1>7. CASE StartAdds
    BY <1>0, <1>7 DEF StartAdds
  <1> QED
    BY <1>1, <1>2, <1>3, <1>4, <1>5, <1>6, <1>7, Kinds DEF LocalStep

\* The additions in progress keep their types.
LEMMA AddsTyped ==
  ASSUME AddTypes, [Next]_vars
  PROVE  AddTypes'
  <1> USE DEF mainVars, uiVars, stationVars
  <1> DEFINE Type == [Stations -> [state : {"none", "asked", "answered"},
                                   by : Requests \cup {"nobody", "start"}]]
  <1> SUFFICES adds' \in Type
    BY OutboxTyped DEF AddTypes
  <1>0. adds \in Type
    BY DEF AddTypes
  <1>1. CASE UNCHANGED adds
    BY <1>0, <1>1
  <1>2. CASE StartAdds
    <2>1. [state |-> "asked", by |-> "start"] \in [state : {"none", "asked", "answered"},
                                                    by : Requests \cup {"nobody", "start"}]
      OBVIOUS
    <2>2. \/ adds' = adds
          \/ \E index : adds' = [s \in Stations |-> IF index[s] = 0 THEN adds[s]
                                                ELSE [state |-> "asked", by |-> "start"]]
      BY <1>2 DEF StartAdds
    <2> QED
      BY <1>0, <2>1, <2>2
  <1>3. ASSUME NEW s \in Stations, AddSettles(s) \/ Response(s) \/ Crash(s) PROVE adds' \in Type
    <2>1. NoAdd \in [state : {"none", "asked", "answered"}, by : Requests \cup {"nobody", "start"}]
      BY DEF NoAdd
    <2>2. \/ adds' = adds \/ adds' = [adds EXCEPT ![s] = NoAdd]
          \/ adds' = [adds EXCEPT ![s].state = "answered"]
      BY <1>3 DEF AddSettles, Response, Crash
    <2> QED
      BY <1>0, <2>1, <2>2
  <1>4. ASSUME NEW s \in Stations, NEW r \in Requests, AddStation(r, s) PROVE adds' \in Type
    BY <1>0, <1>4 DEF AddStation
  <1>5. CASE StopEnds
    <2>1. NoAdd \in [state : {"none", "asked", "answered"}, by : Requests \cup {"nobody", "start"}]
      BY DEF NoAdd
    <2>2. \E rejected : adds' = [s \in Stations |-> IF s \in rejected THEN NoAdd ELSE adds[s]]
      BY <1>5 DEF StopEnds
    <2> QED
      BY <1>0, <2>1, <2>2
  <1>6. ASSUME NEW s \in Stations,
               \/ Construct(s) \/ Event(s) \/ HandleStart(s) \/ HandleStop(s)
               \/ HandleDelete(s) \/ StationStops(s) \/ StationStopFails(s)
        PROVE  UNCHANGED adds
    BY <1>6 DEF Construct, Event, HandleStart, HandleStop, HandleDelete, StationStops, StationStopFails
  <1> QED
    BY <1>1, <1>2, <1>3, <1>4, <1>5, <1>6, Kinds DEF LocalStep

\* The listeners, the mishaps, and the indexes the main thread knows.
LEMMA MainTyped ==
  ASSUME BootstrapTypes, MainTypes, Carriers, [Next]_vars
  PROVE  MainTypes'
  <1> USE DEF mainVars, uiVars, stationVars
  <1>1. listening' \in BOOLEAN
    <2>1. ASSUME NEW s \in Stations, LocalStep(s) \/ HandleIdle(s) PROVE listening' = listening
      BY <2>1 DEF LocalStep, Construct, AddSettles, Event, Response, HandleStart, HandleStop,
                  HandleDelete, StationStops, StationStopFails, Crash, HandleIdle
    <2>2. ASSUME NEW r \in Requests, NEW s \in Stations, AddStation(r, s) \/ Gather(r, s)
          PROVE  listening' = listening
      BY <2>2 DEF AddStation, Gather
    <2>3. ASSUME NEW r \in Requests, NEW command \in Commands, NEW ids \in SUBSET known,
                 Broadcast(r, command, ids)
          PROVE  listening' = listening
      BY <2>3 DEF Broadcast
    <2>4. CASE StartSimulator \/ StartAdds \/ StartEnds \/ StopSimulator \/ StopTimesOut
               \/ StopEnds \/ ReloadStops \/ ReloadRefused \/ UNCHANGED vars
      BY <2>4 DEF MainTypes, StartSimulator, StartAdds, StartEnds, StopSimulator, StopTimesOut,
                  StopEnds, ReloadStops, ReloadRefused, vars
    <2> QED
      BY <2>1, <2>2, <2>3, <2>4 DEF Next, LocalStep, MainTypes
  <1>2. mishaps' \in 0 .. MaxMishaps
    <2>1. Mishap \/ mishaps' = mishaps => mishaps' \in 0 .. MaxMishaps
      BY SimulatorAssumption DEF MainTypes, Mishap
    <2>2. ASSUME NEW s \in Stations, LocalStep(s) \/ HandleIdle(s) PROVE Mishap \/ mishaps' = mishaps
      BY <2>2 DEF LocalStep, Construct, AddSettles, Event, Response, HandleStart, HandleStop,
                  HandleDelete, StationStops, StationStopFails, Crash, HandleIdle
    <2>3. ASSUME NEW r \in Requests, NEW s \in Stations, AddStation(r, s) \/ Gather(r, s)
          PROVE  mishaps' = mishaps
      BY <2>3 DEF AddStation, Gather
    <2>4. ASSUME NEW r \in Requests, NEW command \in Commands, NEW ids \in SUBSET known,
                 Broadcast(r, command, ids)
          PROVE  mishaps' = mishaps
      BY <2>4 DEF Broadcast
    <2>5. CASE StartSimulator \/ StartAdds \/ StartEnds \/ StopSimulator \/ StopTimesOut
               \/ StopEnds \/ ReloadStops \/ ReloadRefused \/ UNCHANGED vars
      BY <2>1, <2>5 DEF StartSimulator, StartAdds, StartEnds, StopSimulator, StopTimesOut,
                        StopEnds, ReloadStops, ReloadRefused, vars
    <2> QED
      BY <2>1, <2>2, <2>3, <2>4, <2>5 DEF Next, LocalStep
  <1>3. ASSUME NEW s \in Stations, Event(s)
        PROVE  known' \subseteq Indexes /\ stats'.indexes \subseteq Indexes
    <2>1. station[s].index \in Indexes
      BY <1>3 DEF Event, Carriers, Carries
    <2>2. \/ known' = known \cup {station[s].index} \/ known' = known \ {station[s].index}
          \/ known' = known
      BY <1>3 DEF Event, EventAdded, EventStarted, EventStopped, EventDeleted
    <2>3. stats'.indexes = stats.indexes \/ stats'.indexes = stats.indexes \ {station[s].index}
      BY <1>3 DEF Event, EventAdded, EventStarted, EventStopped, EventDeleted, BootstrapTypes, StatsRecord
    <2> QED
      BY <2>1, <2>2, <2>3 DEF MainTypes
  <1>4. ASSUME NEW s \in Stations, AddSettles(s)
        PROVE  known' \subseteq Indexes /\ stats'.indexes \subseteq Indexes
    <2>1. station[s].index \in Indexes
      BY <1>4 DEF AddSettles, Carriers, Carries
    <2>2. known' = known /\ stats'.indexes = stats.indexes \cup {station[s].index}
      BY <1>4 DEF AddSettles, BootstrapTypes, StatsRecord
    <2> QED
      BY <2>1, <2>2 DEF MainTypes
  <1>5. CASE StopEnds \/ ReloadRefused
    <2>1. known' \in {known, {}} /\ stats' \in {stats, Zero}
      BY <1>5 DEF StopEnds, ReloadRefused, Renew
    <2>2. known' \subseteq Indexes /\ stats'.indexes \subseteq Indexes
      BY <2>1 DEF Zero, MainTypes
    <2> QED
      BY <1>1, <1>2, <2>2 DEF MainTypes
  <1>6. CASE UNCHANGED <<known, stats>>
    BY <1>1, <1>2, <1>6 DEF MainTypes
  <1>7. ASSUME NEW s \in Stations,
               \/ Construct(s) \/ Response(s) \/ HandleIdle(s) \/ HandleStart(s) \/ HandleStop(s)
               \/ HandleDelete(s) \/ StationStops(s) \/ StationStopFails(s) \/ Crash(s)
               \/ \E r \in Requests : AddStation(r, s) \/ Gather(r, s)
        PROVE  UNCHANGED <<known, stats>>
    BY <1>7 DEF Construct, Response, HandleIdle, HandleStart, HandleStop, HandleDelete,
                StationStops, StationStopFails, Crash, AddStation, Gather
  <1>8. ASSUME NEW r \in Requests, NEW command \in Commands, NEW ids \in SUBSET known,
               Broadcast(r, command, ids)
        PROVE  UNCHANGED <<known, stats>>
    BY <1>8 DEF Broadcast
  <1>9. CASE StartSimulator \/ StartAdds \/ StartEnds \/ StopSimulator \/ StopTimesOut
             \/ ReloadStops \/ UNCHANGED vars
    <2>1. UNCHANGED <<known, stats>>
      BY <1>9 DEF StartSimulator, StartAdds, StartEnds, StopSimulator, StopTimesOut, ReloadStops, vars
    <2> QED
      BY <1>6, <2>1
  <1> QED
    BY <1>1, <1>2, <1>3, <1>4, <1>5, <1>6, <1>7, <1>8, <1>9 DEF Next, MainTypes

(***************************************************************************)
(* What a step of a station changes of it, and that it changes no other.   *)
(***************************************************************************)
Untouched(t) == station'[t] = station[t] /\ outbox'[t] = outbox[t] /\ adds'[t] = adds[t]
SameStation(s) == /\ station'[s].index = station[s].index
                  /\ station'[s].generation = station[s].generation

LEMMA OthersUntouched ==
  ASSUME StationTypes, AddTypes, NEW s \in Stations, NEW t \in Stations, t # s,
         LocalStep(s) \/ \E r \in Requests : AddStation(r, s)
  PROVE  Untouched(t)
  <1> USE DEF Untouched, mainVars, uiVars, stationVars, StationTypes, AddTypes
  <1>1. CASE Construct(s) \/ AddSettles(s) \/ Event(s) \/ Response(s)
    BY <1>1 DEF Construct, AddSettles, Event, Response, Handled
  <1>2. CASE HandleStart(s) \/ HandleStop(s) \/ HandleDelete(s)
    BY <1>2 DEF HandleStart, HandleStop, HandleDelete, Emit
  <1>3. CASE StationStops(s) \/ StationStopFails(s)
    BY <1>3 DEF StationStops, StationStopFails, Emit
  <1>4. CASE Crash(s)
    BY <1>4 DEF Crash
  <1>5. ASSUME NEW r \in Requests, AddStation(r, s) PROVE Untouched(t)
    BY <1>5 DEF AddStation
  <1> QED
    BY <1>1, <1>2, <1>3, <1>4, <1>5 DEF LocalStep

LEMMA WhenConstructed ==
  ASSUME StationTypes, AddTypes, NEW s \in Stations, Construct(s)
  PROVE  /\ station[s].phase = "asked" /\ station'[s].phase = "up" /\ SameStation(s)
         /\ station'[s].waiter = station[s].waiter /\ adds' = adds
         /\ \/ station'[s].run = "on" /\ outbox'[s] = <<"added", "started", "response">>
            \/ station'[s].run = "off" /\ outbox'[s] = <<"added", "response">>
  BY DEF Construct, SameStation, StationTypes, StationRecord, AddTypes, mainVars

LEMMA WhenHandled ==
  ASSUME StationTypes, AddTypes, NEW s \in Stations, Event(s) \/ Response(s)
  PROVE  /\ outbox[s] # <<>> /\ outbox'[s] = Tail(outbox[s]) /\ station' = station
         /\ Event(s) => adds' = adds /\ Head(outbox[s]) # "response"
         /\ Response(s) => /\ adds'[s].by = adds[s].by /\ adds'[s].state = "answered"
                           /\ Head(outbox[s]) = "response"
  BY DEF Event, Response, Handled, AddTypes

LEMMA WhenSettled ==
  ASSUME StationTypes, AddTypes, NEW s \in Stations, AddSettles(s)
  PROVE  /\ outbox' = outbox /\ station' = station
         /\ adds[s].state = "answered" /\ adds'[s] = NoAdd
  BY DEF AddSettles, AddTypes, stationVars

LEMMA WhenStarted ==
  ASSUME StationTypes, AddTypes, NEW s \in Stations, HandleStart(s)
  PROVE  /\ station[s].run = "off" /\ station'[s].run = "on" /\ SameStation(s)
         /\ station[s].phase \in {"up", "deleted"}
         /\ station'[s].phase = station[s].phase /\ station'[s].waiter = station[s].waiter
         /\ outbox'[s] = IF station[s].phase = "up" THEN Append(outbox[s], "started") ELSE outbox[s]
         /\ adds' = adds
  <1>1. "started" \in Events
    BY DEF Events
  <1>2. Emit(s, <<"started">>)
    BY DEF HandleStart
  <1>3. outbox'[s] = IF station[s].phase = "up" THEN Append(outbox[s], "started") ELSE outbox[s]
    BY <1>1, <1>2, Emitting
  <1> QED
    BY <1>3 DEF HandleStart, Hearing, SameStation, StationTypes, StationRecord, AddTypes, mainVars

LEMMA WhenToldToStop ==
  ASSUME StationTypes, AddTypes, NEW s \in Stations, HandleStop(s)
  PROVE  /\ station[s].run = "on" /\ station'[s].run = "stopping" /\ SameStation(s)
         /\ station[s].phase \in {"up", "deleted"} /\ station'[s].phase = station[s].phase
         /\ station'[s].waiter = Command(s) /\ Command(s) \in Message
         /\ adds' = adds /\ outbox' = outbox
  BY Consuming DEF HandleStop, Hearing, SameStation, StationTypes, StationRecord, AddTypes, mainVars

LEMMA WhenDeleted ==
  ASSUME StationTypes, AddTypes, NEW s \in Stations, HandleDelete(s)
  PROVE  /\ station[s].phase \in {"up", "deleted"} /\ station'[s].phase = "deleted"
         /\ station[s].run # "on" /\ station'[s].run = station[s].run
         /\ station'[s].waiter = station[s].waiter /\ SameStation(s)
         /\ outbox'[s] = IF station[s].phase = "up" THEN Append(outbox[s], "deleted") ELSE outbox[s]
         /\ adds' = adds
  <1>1. "deleted" \in Events
    BY DEF Events
  <1>2. Emit(s, <<"deleted">>)
    BY DEF HandleDelete
  <1>3. outbox'[s] = IF station[s].phase = "up" THEN Append(outbox[s], "deleted") ELSE outbox[s]
    BY <1>1, <1>2, Emitting
  <1> QED
    BY <1>3 DEF HandleDelete, Hearing, SameStation, StationTypes, StationRecord, AddTypes, mainVars

LEMMA WhenStopped ==
  ASSUME StationTypes, AddTypes, NEW s \in Stations, StationStops(s)
  PROVE  /\ station[s].waiter # Nobody /\ station'[s].waiter = Nobody
         /\ station'[s].run = "off" /\ SameStation(s) /\ adds' = adds
         /\ \/ station'[s].phase = station[s].phase /\ outbox'[s] =
                 IF station[s].phase = "up" THEN Append(outbox[s], "stopped") ELSE outbox[s]
            \/ station'[s].phase = "deleted" /\ outbox'[s] =
                 IF station[s].phase = "up" THEN Append(Append(outbox[s], "stopped"), "deleted")
                                            ELSE outbox[s]
  <1>1. "stopped" \in Events /\ "deleted" \in Events
    BY DEF Events
  <1>2. \/ Emit(s, <<"stopped">>) /\ station'[s].phase = station[s].phase
        \/ Emit(s, <<"stopped", "deleted">>) /\ station'[s].phase = "deleted"
    BY DEF StationStops, StationTypes, StationRecord
  <1>3. /\ station[s].waiter # Nobody /\ station'[s].waiter = Nobody
        /\ station'[s].run = "off" /\ SameStation(s) /\ adds' = adds
    BY DEF StationStops, SameStation, StationTypes, StationRecord, mainVars
  <1> QED
    BY <1>1, <1>2, <1>3, Emitting

LEMMA WhenStopFailed ==
  ASSUME StationTypes, AddTypes, NEW s \in Stations, StationStopFails(s)
  PROVE  /\ station'[s].phase = station[s].phase /\ station'[s].run = station[s].run
         /\ station'[s].waiter = Nobody /\ SameStation(s) /\ adds' = adds /\ outbox' = outbox
  BY DEF StationStopFails, SameStation, StationTypes, StationRecord, mainVars

LEMMA WhenCrashed ==
  ASSUME StationTypes, AddTypes, NEW s \in Stations, Crash(s)
  PROVE  /\ station[s].phase # "none" /\ station'[s] = Ended(s) /\ outbox' = outbox
         /\ IF adds[s].state = "asked" /\ ~Contains(outbox[s], "response")
            THEN adds'[s] = NoAdd ELSE adds'[s] = adds[s]
  BY DEF Crash, StationTypes, AddTypes

LEMMA WhenAdded ==
  ASSUME StationTypes, AddTypes, NEW s \in Stations, NEW r \in Requests, AddStation(r, s)
  PROVE  /\ station[s].phase = "none" /\ outbox[s] = <<>> /\ adds[s] = NoAdd
         /\ adds'[s] = [state |-> "asked", by |-> r] /\ outbox' = outbox
         /\ \E i \in Indexes : station'[s] = Asked(i) /\ i \notin stats.indexes
  <1>1. PICK i \in Indexes : LastContiguousIndex(i - 1) /\ station' = [station EXCEPT ![s] = Asked(i)]
    BY DEF AddStation
  <1>2. i \notin stats.indexes
    BY <1>1 DEF LastContiguousIndex, Indexes
  <1>3. station'[s] = Asked(i)
    BY <1>1 DEF StationTypes
  <1>4. /\ station[s].phase = "none" /\ outbox[s] = <<>> /\ adds[s] = NoAdd
        /\ adds'[s] = [state |-> "asked", by |-> r] /\ outbox' = outbox
    BY DEF AddStation, Free, AddTypes
  <1> QED
    BY <1>2, <1>3, <1>4

\* What a new station or the remains of one are.
LEMMA Records ==
  ASSUME StationTypes, NEW s \in Stations
  PROVE  /\ \A i \in Nat : /\ Asked(i).index = i /\ Asked(i).phase = "asked" /\ Asked(i).run = "off"
                           /\ Asked(i).waiter = Nobody /\ Asked(i).generation = workers.generation
         /\ Ended(s).phase = "none" /\ Ended(s).run = "off" /\ Ended(s).waiter = Nobody
         /\ adds[s].state = "answered" \/ outbox[s] # <<>> =>
                Ended(s).index = station[s].index /\ Ended(s).generation = station[s].generation
         /\ Ended(s).index \in {station[s].index, 0}
  BY DEF Asked, Ended, NoStation

\* What is said of a station names an index, whatever the step.
LEMMA CarriersKept ==
  ASSUME StationTypes, AddTypes, Waiters, Carriers, [Next]_vars
  PROVE  Carriers'
  <1> USE DEF Carries, Carriers
  <1>1. ASSUME NEW t \in Stations, Untouched(t) PROVE Carries(t)'
    BY <1>1 DEF Untouched
  <1>2. ASSUME NEW s \in Stations, LocalStep(s) PROVE Carries(s)'
    <2>0. outbox[s] \in Seq(Events)
      BY DEF AddTypes
    <2>1. CASE Construct(s)
      BY <2>1, WhenConstructed DEF SameStation
    <2>2. CASE AddSettles(s)
      BY <2>2, WhenSettled DEF NoAdd
    <2>3. CASE Event(s)
      BY <2>0, <2>3, WhenHandled
    <2>4. CASE Response(s)
      BY <2>0, <2>4, WhenHandled
    <2>5. CASE HandleStart(s)
      BY <2>5, WhenStarted DEF SameStation
    <2>6. CASE HandleStop(s)
      BY <2>6, WhenToldToStop DEF SameStation
    <2>7. CASE HandleDelete(s)
      BY <2>7, WhenDeleted DEF SameStation
    <2>8. CASE StationStops(s)
      <3>1. station[s].phase # "asked" /\ station[s].phase # "none"
        BY <2>8, WhenStopped DEF Waiters
      <3> QED
        BY <2>8, <3>1, WhenStopped DEF SameStation
    <2>9. CASE StationStopFails(s)
      BY <2>9, WhenStopFailed DEF SameStation
    <2>10. CASE Crash(s)
      <3>1. Contains(outbox[s], "response") => outbox[s] # <<>>
        BY DEF Contains
      <3>2. station'[s] = Ended(s) /\ outbox' = outbox
        BY <2>10, WhenCrashed
      <3>3. adds'[s].state # "none" => adds[s].state = "answered" \/ outbox[s] # <<>>
        BY <2>10, <3>1, WhenCrashed DEF NoAdd, AddTypes
      <3>4. adds'[s].state # "none" \/ outbox[s] # <<>> => Ended(s).index = station[s].index
        BY <3>3, Records
      <3>5. adds'[s].state # "none" => adds[s].state # "none"
        BY <2>10, WhenCrashed DEF NoAdd, AddTypes
      <3> QED
        BY <3>2, <3>4, <3>5, Records
    <2> QED
      BY <1>2, <2>1, <2>2, <2>3, <2>4, <2>5, <2>6, <2>7, <2>8, <2>9, <2>10 DEF LocalStep
  <1>3. ASSUME NEW s \in Stations, NEW r \in Requests, AddStation(r, s) PROVE Carries(s)'
    <2>1. PICK i \in Indexes : station'[s] = Asked(i)
      BY <1>3, WhenAdded
    <2> QED
      BY <2>1, Records, IndexRange
  <1>4. CASE StartAdds
    <2>1. CASE UNCHANGED <<adds, station>>
      BY <1>4, <2>1 DEF StartAdds
    <2>2. CASE ~UNCHANGED <<adds, station>>
      <3>1. PICK index \in [Stations -> 0 .. NumberOfStations] :
              /\ adds' = [s \in Stations |-> IF index[s] = 0 THEN adds[s]
                                             ELSE [state |-> "asked", by |-> "start"]]
              /\ station' = [s \in Stations |-> IF index[s] = 0 THEN station[s] ELSE Asked(index[s])]
        BY <1>4, <2>2 DEF StartAdds
      <3>2. UNCHANGED outbox
        BY <1>4 DEF StartAdds
      <3>3. SUFFICES ASSUME NEW s \in Stations PROVE Carries(s)'
        OBVIOUS
      <3>4. CASE index[s] = 0
        BY <3>1, <3>2, <3>4
      <3>5. CASE index[s] # 0
        <4>1. index[s] \in Indexes /\ station'[s] = Asked(index[s])
          BY <3>1, <3>5, IndexRange, SimulatorAssumption
        <4> QED
          BY <4>1, Records, IndexRange
      <3> QED
        BY <3>4, <3>5
    <2> QED
      BY <2>1, <2>2
  <1>5. CASE StopEnds
    <2>1. PICK ended \in SUBSET Stations :
            /\ station' = [s \in Stations |-> IF s \in ended THEN Ended(s) ELSE station[s]]
            /\ outbox' = [s \in Stations |-> IF s \in ended THEN <<>> ELSE outbox[s]]
            /\ adds' = [s \in Stations |-> IF s \in {t \in ended : adds[t].state = "asked"}
                                           THEN NoAdd ELSE adds[s]]
      BY <1>5 DEF StopEnds
    <2>2. SUFFICES ASSUME NEW s \in Stations PROVE Carries(s)'
      OBVIOUS
    <2>3. CASE s \notin ended
      BY <2>1, <2>3
    <2>4. CASE s \in ended
      <3>1. station'[s] = Ended(s) /\ outbox'[s] = <<>>
        BY <2>1, <2>4
      <3>2. adds[s].state = "asked" => adds'[s].state = "none"
        BY <2>1, <2>4 DEF NoAdd
      <3>3. adds[s].state # "asked" => adds'[s] = adds[s]
        BY <2>1, <2>4
      <3> QED
        BY <3>1, <3>2, <3>3, Records DEF AddTypes
    <2> QED
      BY <2>3, <2>4
  <1>6. CASE UNCHANGED <<station, outbox, adds>>
    BY <1>6
  <1> QED
    BY <1>1, <1>2, <1>3, <1>4, <1>5, <1>6, Kinds, OthersUntouched

\* Every step keeps the types.
LEMMA NextTyped == Typed /\ [Next]_vars => Typed'
  BY NextInv, UITyped, AddsTyped, MainTyped, CarriersKept DEF Typed, IInv

LEMMA InitTyped == Init => Typed
  <1> SUFFICES ASSUME Init PROVE Typed
    OBVIOUS
  <1>1. UITypes
    BY DEF Init, UITypes, NewRequest
  <1>2. AddTypes
    BY DEF Init, AddTypes, NoAdd
  <1>3. MainTypes
    <2>1. listening \in BOOLEAN /\ known = {} /\ stats.indexes = {} /\ mishaps = 0
      BY DEF Init, Zero
    <2>2. 0 \in 0 .. MaxMishaps
      BY SimulatorAssumption
    <2> QED
      BY <2>1, <2>2 DEF MainTypes
  <1>4. Carriers
    BY DEF Init, Carriers, Carries, NoStation, NoAdd
  <1> QED
    BY <1>1, <1>2, <1>3, <1>4, InitInv DEF Typed

(***************************************************************************)
(* The types of the whole state: a station, a request, the statistics and  *)
(* the messages across the threads stay what the code makes of them, and   *)
(* every index is one that a start or an addition can hand out.            *)
(***************************************************************************)
THEOREM Typing == Spec => []TypeOK
  <1>1. Typed => TypeOK
    <2> SUFFICES ASSUME Typed PROVE TypeOK
      OBVIOUS
    <2>1. station \in [Stations -> StationType]
      BY DEF Typed, IInv, StationTypes, StationRecord, StationType, Carriers, Carries
    <2>2. stats \in [added : Int, indexes : SUBSET Indexes, started : Int]
      BY DEF Typed, IInv, BootstrapTypes, StatsRecord, MainTypes
    <2>3. \A s \in Stations : /\ station[s].phase # "none" => station[s].index \in Indexes
                              /\ station[s].waiter # Nobody => station[s].run = "stopping"
      BY DEF Typed, Carriers, Carries
    <2> QED
      BY <2>1, <2>2, <2>3 DEF TypeOK, Typed, IInv, BootstrapTypes, StationTypes, UITypes, AddTypes,
                              MainTypes, Events, Flags
  <1> QED
    BY <1>1, InitTyped, NextTyped, PTL DEF Spec

-----------------------------------------------------------------------------
(* What a station reports, in order *)

RunEvents == {"started", "stopped"}
Single(q, event) == \A i, j \in 1 .. Len(q) : q[i] = event /\ q[j] = event => i = j
NoRuns(q) == \A i \in 1 .. Len(q) : q[i] \notin RunEvents
FirstRun(q, event) ==
    \E i \in 1 .. Len(q) : q[i] = event /\ \A j \in 1 .. Len(q) : j < i => q[j] \notin RunEvents
LastRun(q, event) ==
    \E i \in 1 .. Len(q) : q[i] = event /\ \A j \in 1 .. Len(q) : i < j => q[j] \notin RunEvents
Alternates(q) ==
    \A i, j \in 1 .. Len(q) : i < j /\ q[i] = q[j] /\ q[i] \in RunEvents =>
        \E k \in 1 .. Len(q) : i < k /\ k < j /\ q[k] \in RunEvents /\ q[k] # q[i]

\* The messages that are left when the first one is handled.
LEMMA Rest ==
  ASSUME NEW q \in Seq(Events), q # <<>>
  PROVE  /\ Tail(q) \in Seq(Events) /\ Len(Tail(q)) = Len(q) - 1 /\ Len(q) \in Nat \ {0}
         /\ \A i \in 1 .. Len(Tail(q)) : i + 1 \in 1 .. Len(q) /\ Tail(q)[i] = q[i + 1]
         /\ \A i \in 1 .. Len(q) : i # 1 => i - 1 \in 1 .. Len(Tail(q)) /\ Tail(q)[i - 1] = q[i]
         /\ Head(q) = q[1] /\ 1 \in 1 .. Len(q)
  <1>1. Len(q) \in Nat \ {0} /\ Tail(q) \in Seq(Events) /\ Head(q) = q[1]
    OBVIOUS
  <1>2. Len(Tail(q)) = Len(q) - 1 /\ \A i \in 1 .. Len(q) - 1 : Tail(q)[i] = q[i + 1]
    OBVIOUS
  <1>3. \A i \in 1 .. Len(q) : i # 1 => i - 1 \in 1 .. Len(q) - 1 /\ q[(i - 1) + 1] = q[i]
    BY <1>1
  <1> QED
    BY <1>1, <1>2, <1>3

\* Which messages are left.
LEMMA RestContains ==
  ASSUME NEW q \in Seq(Events), q # <<>>, NEW e
  PROVE  /\ Contains(q, e) <=> Head(q) = e \/ Contains(Tail(q), e)
         /\ Single(q, e) => Single(Tail(q), e)
         /\ Single(q, e) /\ Head(q) = e => ~Contains(Tail(q), e)
  <1> DEFINE r == Tail(q)
  <1>1. Contains(q, e) => Head(q) = e \/ Contains(r, e)
    BY Rest DEF Contains
  <1>2. Contains(r, e) => Contains(q, e)
    BY Rest DEF Contains
  <1>3. Head(q) = e => Contains(q, e)
    BY Rest DEF Contains
  <1>4. Single(q, e) => Single(r, e)
    <2> SUFFICES ASSUME Single(q, e), NEW i \in 1 .. Len(r), NEW j \in 1 .. Len(r), r[i] = e, r[j] = e
                 PROVE  i = j
      BY DEF Single
    <2>1. i + 1 = j + 1
      BY Rest DEF Single
    <2> QED
      BY <2>1
  <1>5. Single(q, e) /\ Head(q) = e => ~Contains(r, e)
    <2> SUFFICES ASSUME Single(q, e), q[1] = e, NEW i \in 1 .. Len(r), r[i] = e PROVE FALSE
      BY Rest DEF Contains
    <2>1. i + 1 = 1
      BY Rest DEF Single
    <2> QED
      BY <2>1
  <1> QED
    BY <1>1, <1>2, <1>3, <1>4, <1>5

\* A message that is no start or stop changes nothing in their order.
LEMMA RestOfOther ==
  ASSUME NEW q \in Seq(Events), q # <<>>, Head(q) \notin RunEvents, NEW e \in RunEvents
  PROVE  /\ NoRuns(Tail(q)) <=> NoRuns(q)
         /\ FirstRun(Tail(q), e) <=> FirstRun(q, e)
  <1> DEFINE r == Tail(q)
  <1>1. NoRuns(r) => NoRuns(q)
    BY Rest DEF NoRuns
  <1>2. NoRuns(q) => NoRuns(r)
    BY Rest DEF NoRuns
  <1>3. FirstRun(r, e) => FirstRun(q, e)
    <2> SUFFICES ASSUME NEW i \in 1 .. Len(r), r[i] = e,
                        \A j \in 1 .. Len(r) : j < i => r[j] \notin RunEvents
                 PROVE  FirstRun(q, e)
      BY DEF FirstRun
    <2>1. i + 1 \in 1 .. Len(q) /\ q[i + 1] = e
      BY Rest
    <2>2. ASSUME NEW j \in 1 .. Len(q), j < i + 1 PROVE q[j] \notin RunEvents
      <3>1. CASE j = 1
        BY <3>1, Rest
      <3>2. CASE j # 1
        <4>1. j - 1 \in 1 .. Len(r) /\ r[j - 1] = q[j] /\ j - 1 < i
          BY <2>2, <3>2, Rest
        <4> QED
          BY <4>1
      <3> QED
        BY <3>1, <3>2
    <2> QED
      BY <2>1, <2>2 DEF FirstRun
  <1>4. FirstRun(q, e) => FirstRun(r, e)
    <2> SUFFICES ASSUME NEW i \in 1 .. Len(q), q[i] = e,
                        \A j \in 1 .. Len(q) : j < i => q[j] \notin RunEvents
                 PROVE  FirstRun(r, e)
      BY DEF FirstRun
    <2>1. i # 1
      BY Rest
    <2>2. i - 1 \in 1 .. Len(r) /\ r[i - 1] = e
      BY <2>1, Rest
    <2>3. ASSUME NEW j \in 1 .. Len(r), j < i - 1 PROVE r[j] \notin RunEvents
      <3>1. j + 1 \in 1 .. Len(q) /\ r[j] = q[j + 1] /\ j + 1 < i
        BY <2>3, Rest
      <3> QED
        BY <3>1
    <2> QED
      BY <2>2, <2>3 DEF FirstRun
  <1> QED
    BY <1>1, <1>2, <1>3, <1>4

\* After a start or a stop comes the other one, if any.
LEMMA RestOfRun ==
  ASSUME NEW q \in Seq(Events), q # <<>>, Head(q) \in RunEvents, Alternates(q)
  PROVE  /\ FirstRun(q, Head(q)) /\ ~NoRuns(q)
         /\ \A e \in RunEvents : FirstRun(q, e) => e = Head(q)
         /\ ~FirstRun(Tail(q), Head(q))
         /\ \A e \in RunEvents : NoRuns(Tail(q)) /\ LastRun(q, e) => e = Head(q)
  <1> DEFINE r == Tail(q)
  <1>1. FirstRun(q, Head(q)) /\ ~NoRuns(q)
    BY Rest DEF FirstRun, NoRuns
  <1>2. ASSUME NEW e \in RunEvents, FirstRun(q, e) PROVE e = Head(q)
    <2>1. PICK i \in 1 .. Len(q) : q[i] = e /\ \A j \in 1 .. Len(q) : j < i => q[j] \notin RunEvents
      BY <1>2 DEF FirstRun
    <2>2. i = 1
      BY <2>1, Rest
    <2> QED
      BY <2>1, <2>2, Rest
  <1>3. ASSUME FirstRun(r, Head(q)) PROVE FALSE
    <2>1. PICK i \in 1 .. Len(r) :
             r[i] = Head(q) /\ \A j \in 1 .. Len(r) : j < i => r[j] \notin RunEvents
      BY <1>3 DEF FirstRun
    <2>2. i + 1 \in 1 .. Len(q) /\ 1 < i + 1 /\ q[i + 1] = q[1] /\ q[1] \in RunEvents
      BY <2>1, Rest
    <2>3. PICK k \in 1 .. Len(q) : 1 < k /\ k < i + 1 /\ q[k] \in RunEvents
      BY <2>2, Rest DEF Alternates
    <2>4. k - 1 \in 1 .. Len(r) /\ k - 1 < i /\ r[k - 1] \in RunEvents
      BY <2>3, Rest
    <2> QED
      BY <2>1, <2>4
  <1>4. ASSUME NEW e \in RunEvents, NoRuns(r), LastRun(q, e) PROVE e = Head(q)
    <2>1. PICK i \in 1 .. Len(q) : q[i] = e /\ \A j \in 1 .. Len(q) : i < j => q[j] \notin RunEvents
      BY <1>4 DEF LastRun
    <2>2. i = 1
      <3>1. i # 1 => i - 1 \in 1 .. Len(r) /\ r[i - 1] = e
        BY <2>1, Rest
      <3> QED
        BY <1>4, <3>1 DEF NoRuns
    <2> QED
      BY <2>1, <2>2, Rest
  <1> QED
    BY <1>1, <1>2, <1>3, <1>4

\* The order of starts and stops outlives a message that is handled.
LEMMA RestKeeps ==
  ASSUME NEW q \in Seq(Events), q # <<>>
  PROVE  /\ Alternates(q) => Alternates(Tail(q))
         /\ NoRuns(q) => NoRuns(Tail(q))
         /\ \A e : LastRun(q, e) => LastRun(Tail(q), e) \/ NoRuns(Tail(q))
  <1> DEFINE r == Tail(q)
  <1>1. ASSUME Alternates(q) PROVE Alternates(r)
    <2> SUFFICES ASSUME NEW i \in 1 .. Len(r), NEW j \in 1 .. Len(r),
                        i < j, r[i] = r[j], r[i] \in RunEvents
                 PROVE  \E k \in 1 .. Len(r) : i < k /\ k < j /\ r[k] \in RunEvents /\ r[k] # r[i]
      BY DEF Alternates
    <2>1. i + 1 \in 1 .. Len(q) /\ j + 1 \in 1 .. Len(q) /\ q[i + 1] = r[i] /\ q[j + 1] = r[j]
      BY Rest
    <2>2. PICK k \in 1 .. Len(q) : i + 1 < k /\ k < j + 1 /\ q[k] \in RunEvents /\ q[k] # q[i + 1]
      BY <1>1, <2>1 DEF Alternates
    <2>3. k - 1 \in 1 .. Len(r) /\ r[k - 1] = q[k] /\ i < k - 1 /\ k - 1 < j
      BY <2>2, Rest
    <2> QED
      BY <2>1, <2>2, <2>3
  <1>2. NoRuns(q) => NoRuns(r)
    BY Rest DEF NoRuns
  <1>3. ASSUME NEW e, LastRun(q, e) PROVE LastRun(r, e) \/ NoRuns(r)
    <2>1. PICK i \in 1 .. Len(q) : q[i] = e /\ \A j \in 1 .. Len(q) : i < j => q[j] \notin RunEvents
      BY <1>3 DEF LastRun
    <2>2. CASE i = 1
      BY <2>1, <2>2, Rest DEF NoRuns
    <2>3. CASE i # 1
      <3>1. i - 1 \in 1 .. Len(r) /\ r[i - 1] = e
        BY <2>1, <2>3, Rest
      <3>2. ASSUME NEW j \in 1 .. Len(r), i - 1 < j PROVE r[j] \notin RunEvents
        <4>1. j + 1 \in 1 .. Len(q) /\ r[j] = q[j + 1] /\ i < j + 1
          BY <3>2, Rest
        <4> QED
          BY <2>1, <4>1
      <3> QED
        BY <3>1, <3>2 DEF LastRun
    <2> QED
      BY <2>2, <2>3
  <1> QED
    BY <1>1, <1>2, <1>3

\* The messages after one more is posted.
LEMMA More ==
  ASSUME NEW q \in Seq(Events), NEW e \in Events
  PROVE  /\ Append(q, e) \in Seq(Events) /\ Len(Append(q, e)) = Len(q) + 1 /\ Len(q) \in Nat
         /\ \A i \in 1 .. Len(q) : i \in 1 .. Len(Append(q, e)) /\ Append(q, e)[i] = q[i]
         /\ Append(q, e)[Len(q) + 1] = e /\ Len(q) + 1 \in 1 .. Len(Append(q, e))
         /\ \A i \in 1 .. Len(Append(q, e)) : i \in 1 .. Len(q) \/ i = Len(q) + 1
         /\ \A i \in 1 .. Len(q) : i < Len(q) + 1 /\ i # Len(q) + 1
  <1>1. /\ Append(q, e) \in Seq(Events) /\ Len(Append(q, e)) = Len(q) + 1 /\ Len(q) \in Nat
        /\ Append(q, e)[Len(q) + 1] = e
    OBVIOUS
  <1>2. \A i \in 1 .. Len(q) : Append(q, e)[i] = q[i]
    OBVIOUS
  <1> QED
    BY <1>1, <1>2

\* Which messages there are then.
LEMMA MoreContains ==
  ASSUME NEW q \in Seq(Events), NEW e \in Events, NEW f
  PROVE  /\ Contains(Append(q, e), f) <=> Contains(q, f) \/ e = f
         /\ Single(q, f) /\ e # f => Single(Append(q, e), f)
         /\ ~Contains(q, f) => Single(Append(q, e), f)
  <1>1. Contains(Append(q, e), f) => Contains(q, f) \/ e = f
    BY More DEF Contains
  <1>2. Contains(q, f) \/ e = f => Contains(Append(q, e), f)
    BY More DEF Contains
  <1>3. Single(q, f) /\ e # f => Single(Append(q, e), f)
    BY More DEF Single
  <1>4. ~Contains(q, f) => Single(Append(q, e), f)
    BY More DEF Single, Contains
  <1> QED
    BY <1>1, <1>2, <1>3, <1>4

\* A message that is no start or stop changes nothing in their order.
LEMMA MoreOther ==
  ASSUME NEW q \in Seq(Events), NEW e \in Events, e \notin RunEvents, NEW f \in RunEvents
  PROVE  /\ NoRuns(Append(q, e)) <=> NoRuns(q)
         /\ LastRun(Append(q, e), f) <=> LastRun(q, f)
         /\ FirstRun(Append(q, e), f) <=> FirstRun(q, f)
         /\ Alternates(q) => Alternates(Append(q, e))
  <1> DEFINE r == Append(q, e)
  <1>1. NoRuns(r) <=> NoRuns(q)
    BY More DEF NoRuns
  <1>2. LastRun(r, f) => LastRun(q, f)
    BY More DEF LastRun
  <1>3. LastRun(q, f) => LastRun(r, f)
    <2> SUFFICES ASSUME NEW i \in 1 .. Len(q), q[i] = f,
                        \A j \in 1 .. Len(q) : i < j => q[j] \notin RunEvents
                 PROVE  LastRun(r, f)
      BY DEF LastRun
    <2>1. i \in 1 .. Len(r) /\ r[i] = f
      BY More
    <2>2. ASSUME NEW j \in 1 .. Len(r), i < j PROVE r[j] \notin RunEvents
      BY <2>2, More
    <2> QED
      BY <2>1, <2>2 DEF LastRun
  <1>4. FirstRun(r, f) => FirstRun(q, f)
    BY More DEF FirstRun
  <1>5. FirstRun(q, f) => FirstRun(r, f)
    <2> SUFFICES ASSUME NEW i \in 1 .. Len(q), q[i] = f,
                        \A j \in 1 .. Len(q) : j < i => q[j] \notin RunEvents
                 PROVE  FirstRun(r, f)
      BY DEF FirstRun
    <2>1. i \in 1 .. Len(r) /\ r[i] = f
      BY More
    <2>2. ASSUME NEW j \in 1 .. Len(r), j < i PROVE r[j] \notin RunEvents
      BY <2>2, More
    <2> QED
      BY <2>1, <2>2 DEF FirstRun
  <1>6. ASSUME Alternates(q) PROVE Alternates(r)
    <2> SUFFICES ASSUME NEW i \in 1 .. Len(r), NEW j \in 1 .. Len(r),
                        i < j, r[i] = r[j], r[i] \in RunEvents
                 PROVE  \E k \in 1 .. Len(r) : i < k /\ k < j /\ r[k] \in RunEvents /\ r[k] # r[i]
      BY DEF Alternates
    <2>1. i \in 1 .. Len(q) /\ j \in 1 .. Len(q) /\ q[i] = r[i] /\ q[j] = r[j]
      BY More
    <2>2. PICK k \in 1 .. Len(q) : i < k /\ k < j /\ q[k] \in RunEvents /\ q[k] # q[i]
      BY <1>6, <2>1 DEF Alternates
    <2> QED
      BY <2>1, <2>2, More
  <1> QED
    BY <1>1, <1>2, <1>3, <1>4, <1>5, <1>6

\* A start after a stop, or a stop after a start.
LEMMA MoreRun ==
  ASSUME NEW q \in Seq(Events), NEW e \in RunEvents, Alternates(q),
         NoRuns(q) \/ \E f \in RunEvents : f # e /\ LastRun(q, f)
  PROVE  /\ Alternates(Append(q, e)) /\ LastRun(Append(q, e), e) /\ ~NoRuns(Append(q, e))
         /\ NoRuns(q) => \A f \in RunEvents : FirstRun(Append(q, e), f) <=> f = e
         /\ ~NoRuns(q) => \A f \in RunEvents : FirstRun(Append(q, e), f) <=> FirstRun(q, f)
  <1> DEFINE r == Append(q, e)
  <1>0. e \in Events
    BY DEF RunEvents, Events
  <1>1. LastRun(r, e) /\ ~NoRuns(r)
    BY <1>0, More DEF LastRun, NoRuns
  <1>2. Alternates(r)
    <2> SUFFICES ASSUME NEW i \in 1 .. Len(r), NEW j \in 1 .. Len(r),
                        i < j, r[i] = r[j], r[i] \in RunEvents
                 PROVE  \E k \in 1 .. Len(r) : i < k /\ k < j /\ r[k] \in RunEvents /\ r[k] # r[i]
      BY DEF Alternates
    <2>1. i \in 1 .. Len(q) /\ q[i] = r[i]
      BY <1>0, More
    <2>2. CASE j \in 1 .. Len(q)
      <3>1. PICK k \in 1 .. Len(q) : i < k /\ k < j /\ q[k] \in RunEvents /\ q[k] # q[i]
        BY <1>0, <2>1, <2>2, More DEF Alternates
      <3> QED
        BY <1>0, <2>1, <3>1, More
    <2>3. CASE j \notin 1 .. Len(q)
      <3>1. j = Len(q) + 1 /\ r[j] = e
        BY <1>0, <2>3, More
      <3>2. PICK f \in RunEvents : f # e /\ LastRun(q, f)
        BY <2>1 DEF NoRuns
      <3>3. PICK k \in 1 .. Len(q) : q[k] = f /\ \A l \in 1 .. Len(q) : k < l => q[l] \notin RunEvents
        BY <3>2 DEF LastRun
      <3>4. i < k
        BY <2>1, <3>1, <3>2, <3>3
      <3>5. k \in 1 .. Len(r) /\ r[k] = f /\ k < j
        BY <1>0, <3>1, <3>3, More
      <3> QED
        BY <3>1, <3>2, <3>4, <3>5
    <2> QED
      BY <2>2, <2>3
  <1>3. ASSUME NoRuns(q), NEW f \in RunEvents PROVE FirstRun(r, f) <=> f = e
    <2>1. \A i \in 1 .. Len(r) : r[i] \in RunEvents <=> i = Len(q) + 1
      BY <1>0, <1>3, More DEF NoRuns
    <2>2. FirstRun(r, e)
      BY <1>0, <2>1, More DEF FirstRun
    <2>3. FirstRun(r, f) => f = e
      BY <1>0, <2>1, More DEF FirstRun
    <2> QED
      BY <2>2, <2>3
  <1>4. ASSUME ~NoRuns(q), NEW f \in RunEvents PROVE FirstRun(r, f) <=> FirstRun(q, f)
    <2>1. PICK m \in 1 .. Len(q) : q[m] \in RunEvents
      BY <1>4 DEF NoRuns
    <2>2. m \in 1 .. Len(r) /\ r[m] \in RunEvents /\ m < Len(q) + 1
      BY <1>0, <2>1, More
    <2>3. ASSUME FirstRun(r, f) PROVE FirstRun(q, f)
      <3>1. PICK i \in 1 .. Len(r) : r[i] = f /\ \A j \in 1 .. Len(r) : j < i => r[j] \notin RunEvents
        BY <2>3 DEF FirstRun
      <3>2. i # Len(q) + 1
        BY <2>2, <3>1
      <3>3. i \in 1 .. Len(q) /\ q[i] = f
        BY <1>0, <3>1, <3>2, More
      <3>4. \A j \in 1 .. Len(q) : j < i => q[j] \notin RunEvents
        BY <1>0, <3>1, More
      <3> QED
        BY <3>3, <3>4 DEF FirstRun
    <2>4. ASSUME FirstRun(q, f) PROVE FirstRun(r, f)
      <3>1. PICK i \in 1 .. Len(q) : q[i] = f /\ \A j \in 1 .. Len(q) : j < i => q[j] \notin RunEvents
        BY <2>4 DEF FirstRun
      <3>2. i \in 1 .. Len(r) /\ r[i] = f
        BY <1>0, <3>1, More
      <3>3. ASSUME NEW j \in 1 .. Len(r), j < i PROVE r[j] \notin RunEvents
        BY <1>0, <3>1, <3>3, More
      <3> QED
        BY <3>2, <3>3 DEF FirstRun
    <2> QED
      BY <2>3, <2>4
  <1> QED
    BY <1>1, <1>2, <1>3, <1>4

\* What a station that has just been built posts.
LEMMA FirstPosts ==
  ASSUME NEW q \in {<<"added", "started", "response">>, <<"added", "response">>}
  PROVE  /\ q \in Seq(Events) /\ Contains(q, "response") /\ ~Contains(q, "deleted")
         /\ \A e : Single(q, e)
         /\ \A i \in 1 .. Len(q) : q[i] = "added" <=> i = 1
         /\ Alternates(q) /\ ~FirstRun(q, "stopped")
         /\ q = <<"added", "started", "response">> =>
                LastRun(q, "started") /\ Contains(q, "started") /\ ~NoRuns(q)
         /\ q = <<"added", "response">> => NoRuns(q)
  <1>1. CASE q = <<"added", "started", "response">>
    <2>1. q[1] = "added" /\ q[2] = "started" /\ q[3] = "response" /\ Len(q) = 3 /\ q \in Seq(Events)
      BY <1>1 DEF Events
    <2>2. 1 .. Len(q) = {1, 2, 3}
      BY <2>1
    <2>3. /\ Contains(q, "response") /\ ~Contains(q, "deleted") /\ Contains(q, "started")
          /\ (\A e : Single(q, e)) /\ \A i \in 1 .. Len(q) : q[i] = "added" <=> i = 1
      BY <2>1, <2>2 DEF Contains, Single
    <2>4. Alternates(q) /\ ~FirstRun(q, "stopped") /\ LastRun(q, "started") /\ ~NoRuns(q)
      BY <2>1, <2>2 DEF Alternates, FirstRun, LastRun, NoRuns, RunEvents
    <2> QED
      BY <1>1, <2>1, <2>3, <2>4
  <1>2. CASE q = <<"added", "response">>
    <2>1. q[1] = "added" /\ q[2] = "response" /\ Len(q) = 2 /\ q \in Seq(Events)
      BY <1>2 DEF Events
    <2>2. 1 .. Len(q) = {1, 2}
      BY <2>1
    <2>3. /\ Contains(q, "response") /\ ~Contains(q, "deleted")
          /\ (\A e : Single(q, e)) /\ \A i \in 1 .. Len(q) : q[i] = "added" <=> i = 1
      BY <2>1, <2>2 DEF Contains, Single
    <2>4. Alternates(q) /\ ~FirstRun(q, "stopped") /\ NoRuns(q)
      BY <2>1, <2>2 DEF Alternates, FirstRun, NoRuns, RunEvents
    <2>5. Len(<<"added", "response">>) # Len(<<"added", "started", "response">>)
      OBVIOUS
    <2> QED
      BY <1>2, <2>1, <2>3, <2>4, <2>5
  <1> QED
    BY <1>1, <1>2

\* Nothing is said of a station of which nothing was posted.
LEMMA NoPosts ==
  /\ \A e : ~Contains(<<>>, e) /\ Single(<<>>, e) /\ ~FirstRun(<<>>, e) /\ ~LastRun(<<>>, e)
  /\ Alternates(<<>>) /\ NoRuns(<<>>)
  BY DEF Contains, Single, FirstRun, LastRun, Alternates, NoRuns

(***************************************************************************)
(* What is on its way from a station agrees with what it is and with what  *)
(* is awaited of its worker.                                               *)
(***************************************************************************)
\* An addElement in progress has who made it, and is answered once.
Answerable(s) ==
    /\ adds[s].by = "nobody" <=> adds[s].state = "none"
    /\ adds[s].state = "asked" <=> station[s].phase = "asked" \/ Contains(outbox[s], "response")
    /\ station[s].phase = "asked" => outbox[s] = <<>>
    /\ Single(outbox[s], "response")

\* A station says that it is deleted once, when it is.
Deletable(s) ==
    /\ Contains(outbox[s], "deleted") => station[s].phase \in {"none", "deleted"}
    /\ Single(outbox[s], "deleted")

\* The starts and stops a station reports alternate, and the last of them says
\* whether it runs; it is introduced first, and its start comes with that.
RunEvent(s) == IF station[s].run # "off" THEN "started" ELSE "stopped"
Reports(s) ==
    /\ Alternates(outbox[s])
    /\ station[s].phase = "up" => NoRuns(outbox[s]) \/ LastRun(outbox[s], RunEvent(s))
    /\ \A i \in 1 .. Len(outbox[s]) : outbox[s][i] = "added" => i = 1
    /\ s \in Running /\ Contains(outbox[s], "added") => Contains(outbox[s], "started")

Told(s) == Answerable(s) /\ Deletable(s) /\ Reports(s)
Tellings == \A s \in Stations : Told(s)

\* The worker builds the station.
LEMMA ConstructTold ==
  ASSUME Typed, NEW s \in Stations, Told(s), Construct(s)
  PROVE  Told(s)'
  <1>0. StationTypes /\ AddTypes
    BY DEF Typed, IInv
  <1>1. outbox'[s] \in {<<"added", "started", "response">>, <<"added", "response">>}
    BY <1>0, WhenConstructed
  <1>2. Answerable(s)'
    BY <1>0, <1>1, WhenConstructed, FirstPosts DEF Answerable, Told
  <1>3. Deletable(s)'
    BY <1>1, FirstPosts DEF Deletable
  <1>4. Reports(s)'
    <2>1. CASE station'[s].run = "on" /\ outbox'[s] = <<"added", "started", "response">>
      BY <1>1, <2>1, FirstPosts DEF Reports, RunEvent
    <2>2. CASE station'[s].run = "off" /\ outbox'[s] = <<"added", "response">>
      BY <1>1, <2>2, FirstPosts DEF Reports, RunEvent, Running
    <2> QED
      BY <1>0, <2>1, <2>2, WhenConstructed
  <1> QED
    BY <1>2, <1>3, <1>4 DEF Told

\* The main thread handles a message.
LEMMA HandledTold ==
  ASSUME Typed, NEW s \in Stations, Told(s), Event(s) \/ Response(s)
  PROVE  Told(s)'
  <1>0. StationTypes /\ AddTypes /\ outbox[s] \in Seq(Events)
    BY DEF Typed, IInv, AddTypes
  <1>1. outbox[s] # <<>> /\ outbox'[s] = Tail(outbox[s]) /\ station' = station
    BY <1>0, WhenHandled
  <1> DEFINE q == outbox[s]
             r == outbox'[s]
  <1>2. \A e : /\ Contains(q, e) <=> Head(q) = e \/ Contains(r, e)
               /\ Single(q, e) => Single(r, e)
               /\ Single(q, e) /\ Head(q) = e => ~Contains(r, e)
    BY <1>0, <1>1, RestContains
  <1>3. Answerable(s)'
    <2>1. station[s].phase # "asked"
      BY <1>1 DEF Told, Answerable
    <2>2. CASE Event(s)
      BY <1>0, <1>1, <1>2, <2>1, <2>2, WhenHandled DEF Told, Answerable
    <2>3. CASE Response(s)
      BY <1>0, <1>1, <1>2, <2>1, <2>3, WhenHandled DEF Told, Answerable
    <2> QED
      BY <2>2, <2>3
  <1>4. Deletable(s)'
    BY <1>1, <1>2 DEF Told, Deletable
  <1>5. Reports(s)'
    <2>1. /\ Alternates(r)
          /\ station[s].phase = "up" => NoRuns(r) \/ LastRun(r, RunEvent(s))
      BY <1>0, <1>1, RestKeeps DEF Told, Reports
    <2>2. \A i \in 1 .. Len(r) : r[i] # "added"
      <3> SUFFICES ASSUME NEW i \in 1 .. Len(r), r[i] = "added" PROVE FALSE
        OBVIOUS
      <3>1. i + 1 \in 1 .. Len(q) /\ q[i + 1] = "added" /\ i + 1 # 1
        BY <1>0, <1>1, Rest
      <3> QED
        BY <3>1 DEF Told, Reports
    <2>3. ~Contains(r, "added")
      BY <2>2 DEF Contains
    <2>4. RunEvent(s)' = RunEvent(s)
      BY <1>1 DEF RunEvent
    <2> QED
      BY <1>1, <2>1, <2>2, <2>3, <2>4 DEF Reports
  <1> QED
    BY <1>3, <1>4, <1>5 DEF Told

\* A start, a stop or a deletion is posted after the introduction.
IntroducedFirst(q) == \A i \in 1 .. Len(q) : q[i] = "added" => i = 1

LEMMA MorePosts ==
  ASSUME NEW q \in Seq(Events), NEW e \in {"started", "stopped", "deleted"},
         IntroducedFirst(q)
  PROVE  /\ IntroducedFirst(Append(q, e)) /\ Append(q, e) \in Seq(Events) /\ e \in Events
         /\ \A f \in {"response", "added"} : Contains(Append(q, e), f) <=> Contains(q, f)
         /\ Single(q, "response") => Single(Append(q, e), "response")
         /\ Append(q, e) # <<>>
  <1>1. e \in Events
    BY DEF Events
  <1>2. IntroducedFirst(Append(q, e)) /\ Append(q, e) # <<>>
    BY <1>1, More DEF IntroducedFirst
  <1> QED
    BY <1>1, <1>2, More, MoreContains

\* A station starts.
LEMMA StartTold ==
  ASSUME Typed, NEW s \in Stations, Told(s), HandleStart(s)
  PROVE  Told(s)'
  <1>0. StationTypes /\ AddTypes /\ outbox[s] \in Seq(Events)
    BY DEF Typed, IInv, AddTypes
  <1>1. /\ station[s].run = "off" /\ station'[s].run = "on" /\ adds' = adds
        /\ station'[s].phase = station[s].phase /\ station[s].phase \in {"up", "deleted"}
        /\ outbox'[s] = IF station[s].phase = "up" THEN Append(outbox[s], "started") ELSE outbox[s]
    BY <1>0, WhenStarted
  <1>2. CASE station[s].phase = "deleted"
    BY <1>1, <1>2 DEF Told, Answerable, Deletable, Reports, Running, Up
  <1>3. CASE station[s].phase = "up"
    <2> DEFINE q == outbox[s]
    <2>1. outbox'[s] = Append(q, "started")
      BY <1>1, <1>3
    <2>2. Answerable(s)'
      BY <1>0, <1>1, <1>3, <2>1, MorePosts DEF Told, Answerable, Reports, IntroducedFirst
    <2>3. Deletable(s)'
      BY <1>0, <1>1, <1>3, <2>1, MoreContains DEF Told, Deletable, Events
    <2>4. Alternates(Append(q, "started")) /\ LastRun(Append(q, "started"), "started")
      <3>1. NoRuns(q) \/ LastRun(q, "stopped")
        BY <1>1, <1>3 DEF Told, Reports, RunEvent
      <3>2. "started" \in RunEvents /\ "stopped" \in RunEvents /\ "started" # "stopped"
        BY DEF RunEvents
      <3> QED
        BY <1>0, <3>1, <3>2, MoreRun DEF Told, Reports
    <2>5. /\ \A i \in 1 .. Len(outbox'[s]) : outbox'[s][i] = "added" => i = 1
          /\ Contains(outbox'[s], "started")
      BY <1>0, <2>1, MorePosts, MoreContains DEF Told, Reports, IntroducedFirst
    <2>6. Reports(s)'
      BY <1>1, <2>1, <2>4, <2>5 DEF Reports, RunEvent
    <2> QED
      BY <2>2, <2>3, <2>6 DEF Told
  <1> QED
    BY <1>1, <1>2, <1>3

\* A station is deleted.
LEMMA DeleteTold ==
  ASSUME Typed, NEW s \in Stations, Told(s), HandleDelete(s)
  PROVE  Told(s)'
  <1>0. StationTypes /\ AddTypes /\ outbox[s] \in Seq(Events)
    BY DEF Typed, IInv, AddTypes
  <1>1. /\ station'[s].run = station[s].run /\ adds' = adds
        /\ station'[s].phase = "deleted" /\ station[s].phase \in {"up", "deleted"}
        /\ outbox'[s] = IF station[s].phase = "up" THEN Append(outbox[s], "deleted") ELSE outbox[s]
    BY <1>0, WhenDeleted
  <1>2. CASE station[s].phase = "deleted"
    BY <1>1, <1>2 DEF Told, Answerable, Deletable, Reports, Running, Up
  <1>3. CASE station[s].phase = "up"
    <2> DEFINE q == outbox[s]
    <2>1. outbox'[s] = Append(q, "deleted") /\ "deleted" \in Events /\ "deleted" \notin RunEvents
      BY <1>1, <1>3 DEF Events, RunEvents
    <2>2. Answerable(s)'
      <3>1. /\ Contains(Append(q, "deleted"), "response") <=> Contains(q, "response")
            /\ Single(Append(q, "deleted"), "response")
        BY <1>0, MorePosts DEF Told, Answerable, Reports, IntroducedFirst
      <3> QED
        BY <1>1, <1>3, <2>1, <3>1 DEF Told, Answerable
    <2>3. ~Contains(q, "deleted")
      BY <1>3 DEF Told, Deletable
    <2>4. Deletable(s)'
      BY <1>0, <1>1, <2>1, <2>3, MoreContains DEF Deletable
    <2>5. Alternates(Append(q, "deleted"))
      BY <1>0, <2>1, MoreOther DEF Told, Reports, RunEvents
    <2>6. \A i \in 1 .. Len(outbox'[s]) : outbox'[s][i] = "added" => i = 1
      BY <1>0, <2>1, MorePosts DEF Told, Reports, IntroducedFirst
    <2>7. Reports(s)'
      BY <1>1, <2>1, <2>5, <2>6 DEF Reports, Running, Up
    <2> QED
      BY <2>2, <2>4, <2>7 DEF Told
  <1> QED
    BY <1>1, <1>2, <1>3

\* A station has stopped, for itself or to be deleted.
LEMMA StopTold ==
  ASSUME Typed, NEW s \in Stations, Told(s), StationStops(s)
  PROVE  Told(s)'
  <1>0. StationTypes /\ AddTypes /\ outbox[s] \in Seq(Events)
    BY DEF Typed, IInv, AddTypes
  <1>1. /\ station[s].run = "stopping" /\ station[s].phase \notin {"none", "asked"}
        /\ station'[s].run = "off" /\ adds' = adds
    BY <1>0, WhenStopped DEF Typed, Carriers, Carries, IInv, Waiters
  <1> DEFINE q == outbox[s]
             r == Append(q, "stopped")
  <1>2. CASE station[s].phase # "up"
    <2>1. outbox'[s] = q /\ station'[s].phase \in {station[s].phase, "deleted"}
      BY <1>0, <1>2, WhenStopped
    <2>2. station[s].phase = "deleted"
      BY <1>0, <1>1, <1>2 DEF StationTypes, StationRecord
    <2> QED
      BY <1>1, <2>1, <2>2 DEF Told, Answerable, Deletable, Reports, Running, Up
  <1>3. CASE station[s].phase = "up"
    <2>1. NoRuns(q) \/ LastRun(q, "started")
      BY <1>1, <1>3 DEF Told, Reports, RunEvent
    <2>2. /\ "started" \in RunEvents /\ "stopped" \in RunEvents /\ "started" # "stopped"
          /\ "deleted" \in Events /\ "deleted" \notin RunEvents /\ "stopped" \in Events
      BY DEF RunEvents, Events
    <2>3. Alternates(r) /\ LastRun(r, "stopped") /\ r \in Seq(Events)
      BY <1>0, <2>1, <2>2, MoreRun, More DEF Told, Reports
    <2>4. /\ IntroducedFirst(r) /\ Single(r, "response")
          /\ Contains(r, "response") <=> Contains(q, "response")
      BY <1>0, MorePosts DEF Told, Reports, IntroducedFirst, Answerable
    <2>5. ~Contains(r, "deleted")
      BY <1>0, <1>3, <2>2, MoreContains DEF Told, Deletable
    <2>6. CASE outbox'[s] = r /\ station'[s].phase = "up"
      <3>1. Answerable(s)'
        BY <1>1, <1>3, <2>4, <2>6 DEF Told, Answerable
      <3>2. Deletable(s)'
        BY <2>5, <2>6 DEF Deletable, Single, Contains
      <3>3. Reports(s)'
        BY <1>1, <2>3, <2>4, <2>6 DEF Reports, RunEvent, IntroducedFirst, Running
      <3> QED
        BY <3>1, <3>2, <3>3 DEF Told
    <2>7. CASE outbox'[s] = Append(r, "deleted") /\ station'[s].phase = "deleted"
      <3>1. Answerable(s)'
        BY <1>1, <1>3, <2>3, <2>4, <2>7, MorePosts DEF Told, Answerable
      <3>2. Deletable(s)'
        <4>1. Single(Append(r, "deleted"), "deleted")
          BY <2>2, <2>3, <2>5, MoreContains
        <4> QED
          BY <2>7, <4>1 DEF Deletable
      <3>3. Alternates(Append(r, "deleted")) /\ IntroducedFirst(Append(r, "deleted"))
        BY <2>2, <2>3, <2>4, MoreOther, MorePosts
      <3>4. Reports(s)'
        BY <1>1, <2>7, <3>3 DEF Reports, IntroducedFirst, Running, Up
      <3> QED
        BY <3>1, <3>2, <3>4 DEF Told
    <2> QED
      BY <1>0, <1>3, <2>6, <2>7, WhenStopped
  <1> QED
    BY <1>2, <1>3

\* What a station has not posted, or one that is gone, contradicts nothing.
LEMMA GoneTold ==
  ASSUME Typed, NEW s \in Stations, Told(s), station'[s].phase = "none",
         \/ outbox'[s] = <<>> /\ adds'[s].state # "asked"
         \/ outbox'[s] = outbox[s] /\ (adds'[s].state = "asked" <=> Contains(outbox[s], "response")),
         adds'[s].by = "nobody" <=> adds'[s].state = "none"
  PROVE  Told(s)'
  BY NoPosts DEF Told, Answerable, Deletable, Reports, Running, Up

LEMMA StationTold ==
  ASSUME Typed, NEW s \in Stations, Told(s), LocalStep(s)
  PROVE  Told(s)'
  <1>0. StationTypes /\ AddTypes /\ outbox[s] \in Seq(Events)
    BY DEF Typed, IInv, AddTypes
  <1>1. CASE HandleStop(s)
    <2>1. /\ station[s].run = "on" /\ station'[s].run = "stopping" /\ outbox' = outbox /\ adds' = adds
          /\ station'[s].phase = station[s].phase
      BY <1>0, <1>1, WhenToldToStop
    <2>2. RunEvent(s)' = RunEvent(s) /\ (s \in Running)' = (s \in Running)
      BY <2>1 DEF RunEvent, Running, Up
    <2> QED
      BY <2>1, <2>2 DEF Told, Answerable, Deletable, Reports
  <1>2. CASE StationStopFails(s)
    <2>1. /\ station'[s].run = station[s].run /\ outbox' = outbox /\ adds' = adds
          /\ station'[s].phase = station[s].phase
      BY <1>0, <1>2, WhenStopFailed
    <2>2. RunEvent(s)' = RunEvent(s) /\ (s \in Running)' = (s \in Running)
      BY <2>1 DEF RunEvent, Running, Up
    <2> QED
      BY <2>1, <2>2 DEF Told, Answerable, Deletable, Reports
  <1>3. CASE Crash(s)
    <2>1. station'[s].phase = "none" /\ outbox'[s] = outbox[s]
      BY <1>0, <1>3, WhenCrashed, Records
    <2>2. CASE adds[s].state = "asked" /\ ~Contains(outbox[s], "response")
      BY <1>0, <1>3, <2>1, <2>2, WhenCrashed, GoneTold DEF NoAdd
    <2>3. CASE ~(adds[s].state = "asked" /\ ~Contains(outbox[s], "response"))
      <3>1. adds'[s] = adds[s]
        BY <1>0, <1>3, <2>3, WhenCrashed
      <3>2. adds[s].state = "asked" <=> Contains(outbox[s], "response")
        BY <2>3 DEF Told, Answerable
      <3> QED
        BY <2>1, <3>1, <3>2, GoneTold DEF Told, Answerable
    <2> QED
      BY <2>2, <2>3
  <1>4. CASE AddSettles(s)
    <2>1. /\ outbox' = outbox /\ station' = station /\ adds[s].state = "answered"
          /\ adds'[s].state = "none" /\ adds'[s].by = "nobody"
      BY <1>0, <1>4, WhenSettled DEF NoAdd
    <2>2. RunEvent(s)' = RunEvent(s) /\ (s \in Running)' = (s \in Running)
      BY <2>1 DEF RunEvent, Running, Up
    <2> QED
      BY <2>1, <2>2 DEF Told, Answerable, Deletable, Reports
  <1> QED
    BY <1>1, <1>2, <1>3, <1>4, ConstructTold, HandledTold, StartTold, DeleteTold, StopTold DEF LocalStep

\* A station that is asked for has said nothing yet.
LEMMA AskedTold ==
  ASSUME NEW s \in Stations, outbox'[s] = <<>>, station'[s].phase = "asked",
         adds'[s].state = "asked", adds'[s].by # "nobody"
  PROVE  Told(s)'
  BY NoPosts DEF Told, Answerable, Deletable, Reports, Running, Up

LEMMA UntouchedTold ==
  ASSUME NEW s \in Stations, Untouched(s), Told(s)
  PROVE  Told(s)'
  <1>1. RunEvent(s)' = RunEvent(s) /\ (s \in Running)' = (s \in Running)
    BY DEF RunEvent, Running, Up, Untouched
  <1> QED
    BY <1>1 DEF Told, Answerable, Deletable, Reports, Untouched

\* start() asks for stations where there is none.
LEMMA StartAddsTo ==
  ASSUME Typed, StartAdds, NEW s \in Stations
  PROVE  \/ Untouched(s)
         \/ /\ station[s].phase = "none" /\ adds[s] = NoAdd /\ outbox[s] = <<>> /\ outbox'[s] = <<>>
            /\ adds'[s] = [state |-> "asked", by |-> "start"]
            /\ start.generation = workers.generation
            /\ \E i \in 1 .. NumberOfStations : station'[s] = Asked(i)
  <1>1. outbox' = outbox
    BY DEF StartAdds
  <1>2. CASE UNCHANGED <<adds, station>>
    BY <1>1, <1>2 DEF Untouched
  <1>3. CASE ~UNCHANGED <<adds, station>>
    <2>1. PICK index \in [Stations -> 0 .. NumberOfStations] :
            /\ \A t \in Stations : index[t] # 0 => t \in Free
            /\ adds' = [t \in Stations |-> IF index[t] = 0 THEN adds[t]
                                           ELSE [state |-> "asked", by |-> "start"]]
            /\ station' = [t \in Stations |-> IF index[t] = 0 THEN station[t] ELSE Asked(index[t])]
      BY <1>3 DEF StartAdds
    <2>2. start.generation = workers.generation
      BY <1>3 DEF StartAdds
    <2>3. CASE index[s] = 0
      BY <1>1, <2>1, <2>3 DEF Untouched
    <2>4. CASE index[s] # 0
      <3>1. index[s] \in 1 .. NumberOfStations
        BY <2>1, <2>4, SimulatorAssumption
      <3> QED
        BY <1>1, <2>1, <2>2, <2>4, <3>1 DEF Free
    <2> QED
      BY <2>3, <2>4
  <1> QED
    BY <1>2, <1>3

\* stop() ends every station of the workers it stops.
LEMMA StopEndsOf ==
  ASSUME Typed, StopEnds, NEW s \in Stations
  PROVE  IF station[s].generation = workers.generation
         THEN /\ station'[s] = Ended(s) /\ outbox'[s] = <<>>
              /\ adds'[s] = IF adds[s].state = "asked" THEN NoAdd ELSE adds[s]
         ELSE Untouched(s)
  BY DEF StopEnds, Untouched, Typed, IInv, StationTypes, AddTypes

\* Every step keeps what is on its way in agreement with the stations.
LEMMA TellingsKept == ASSUME Typed, Tellings, [Next]_vars PROVE Tellings'
  <1> SUFFICES ASSUME NEW s \in Stations PROVE Told(s)'
    BY DEF Tellings
  <1>0. Told(s) /\ StationTypes /\ AddTypes
    BY DEF Tellings, Typed, IInv
  <1>1. CASE Untouched(s)
    BY <1>0, <1>1, UntouchedTold
  <1>2. CASE LocalStep(s)
    BY <1>0, <1>2, StationTold
  <1>3. ASSUME NEW r \in Requests, AddStation(r, s) PROVE Told(s)'
    <2>1. PICK i \in Indexes : station'[s] = Asked(i)
      BY <1>0, <1>3, WhenAdded
    <2>2. station'[s].phase = "asked"
      BY <2>1 DEF Asked
    <2>3. adds'[s].state = "asked" /\ adds'[s].by # "nobody" /\ outbox'[s] = <<>>
      <3>1. adds'[s] = [state |-> "asked", by |-> r] /\ outbox'[s] = <<>> /\ r # "nobody"
        BY <1>0, <1>3, WhenAdded, SimulatorAssumption
      <3> QED
        BY <3>1
    <2> QED
      BY <2>2, <2>3, AskedTold
  <1>4. CASE StartAdds
    <2>1. CASE ~Untouched(s)
      <3>1. /\ outbox'[s] = <<>> /\ station'[s].phase = "asked"
            /\ adds'[s].state = "asked" /\ adds'[s].by # "nobody"
        <4>1. PICK i \in 1 .. NumberOfStations : station'[s] = Asked(i)
          BY <1>4, <2>1, StartAddsTo
        <4>2. station'[s].phase = "asked"
          BY <4>1 DEF Asked
        <4>3. adds'[s] = [state |-> "asked", by |-> "start"] /\ outbox'[s] = <<>>
          BY <1>4, <2>1, StartAddsTo
        <4> QED
          BY <4>2, <4>3
      <3> QED
        BY <3>1, AskedTold
    <2> QED
      BY <1>1, <2>1
  <1>5. CASE StopEnds
    <2>1. CASE station[s].generation = workers.generation
      <3>1. station'[s].phase = "none" /\ outbox'[s] = <<>>
        BY <1>0, <1>5, <2>1, StopEndsOf, Records
      <3>2. /\ adds'[s].state # "asked"
            /\ adds'[s].by = "nobody" <=> adds'[s].state = "none"
        BY <1>0, <1>5, <2>1, StopEndsOf DEF NoAdd, Told, Answerable
      <3> QED
        BY <1>0, <3>1, <3>2, GoneTold
    <2>2. CASE station[s].generation # workers.generation
      BY <1>1, <1>5, <2>2, StopEndsOf
    <2> QED
      BY <2>1, <2>2
  <1>6. ASSUME NEW t \in Stations, t # s, LocalStep(t) \/ \E r \in Requests : AddStation(r, t)
        PROVE  Untouched(s)
    BY <1>0, <1>6, OthersUntouched
  <1>7. UNCHANGED <<station, outbox, adds>> => Untouched(s)
    BY DEF Untouched
  <1> QED
    BY <1>1, <1>2, <1>3, <1>4, <1>5, <1>6, <1>7, Kinds

-----------------------------------------------------------------------------
(* What a simulator keeps that no reload has overlapped *)

\* Messages and answers to come are of the current worker implementation, of a
\* simulator that is starting or started and listens.
Connected ==
    /\ \A s \in Stations : outbox[s] # <<>> \/ adds[s].state = "asked" =>
           station[s].generation = workers.generation /\ (flags.started \/ flags.starting)
    /\ flags.started \/ flags.starting => listening
    /\ ~(flags.started /\ flags.starting)

\* When start() takes its workers there are no stations, and no messages of
\* any; what it asks for is answered before it ends.
Fresh == start.step = "workers" =>
             \A s \in Stations : station[s].phase = "none" /\ outbox[s] = <<>>
Configured == \A s \in Stations : adds[s].by = "start" => start.step = "adding"

Calm == history.overlapped \/ (Connected /\ Fresh /\ Configured)

SameMain == /\ flags'.started = flags.started /\ flags'.starting = flags.starting
            /\ start' = start /\ workers' = workers /\ listening' = listening

\* Most steps leave alone the phases of start() and the workers.
LEMMA MainUnchanged ==
  ASSUME Typed,
         \/ UNCHANGED vars \/ StopSimulator \/ StopTimesOut \/ ReloadStops
         \/ \E s \in Stations : LocalStep(s) \/ HandleIdle(s)
         \/ \E r \in Requests : \E s \in Stations : AddStation(r, s) \/ Gather(r, s)
         \/ \E r \in Requests : \E command \in Commands, ids \in SUBSET known : Broadcast(r, command, ids)
  PROVE  SameMain
  <1> USE DEF mainVars, uiVars, stationVars, SameMain
  <1>1. CASE UNCHANGED vars
    BY <1>1 DEF vars
  <1>2. CASE StopSimulator \/ StopTimesOut \/ ReloadStops
    BY <1>2 DEF StopSimulator, StopTimesOut, ReloadStops, BeginStop, Typed, IInv, BootstrapTypes, Flags
  <1>3. ASSUME NEW s \in Stations, LocalStep(s) \/ HandleIdle(s) PROVE SameMain
    BY <1>3 DEF LocalStep, Construct, AddSettles, Event, Response, HandleStart, HandleStop,
                HandleDelete, StationStops, StationStopFails, Crash, HandleIdle
  <1>4. ASSUME NEW r \in Requests, NEW s \in Stations, AddStation(r, s) \/ Gather(r, s)
        PROVE  SameMain
    BY <1>4 DEF AddStation, Gather
  <1>5. ASSUME NEW r \in Requests, NEW command \in Commands, NEW ids \in SUBSET known,
               Broadcast(r, command, ids)
        PROVE  SameMain
    BY <1>5 DEF Broadcast
  <1> QED
    BY <1>1, <1>2, <1>3, <1>4, <1>5

\* No step of a station makes it, or a message of it, out of nothing.
LEMMA FromSomething ==
  ASSUME Typed, Tellings, NEW s \in Stations, LocalStep(s)
  PROVE  /\ outbox'[s] # <<>> \/ adds'[s].state = "asked" =>
               /\ station'[s].generation = station[s].generation
               /\ outbox[s] # <<>> \/ adds[s].state = "asked" \/ station[s].phase # "none"
         /\ station[s].phase = "none" /\ outbox[s] = <<>> =>
               station'[s].phase = "none" /\ outbox'[s] = <<>>
         /\ adds'[s].by \in {adds[s].by, "nobody"}
  <1> USE DEF SameStation
  <1>0. StationTypes /\ AddTypes /\ outbox[s] \in Seq(Events) /\ Told(s)
    BY DEF Typed, IInv, AddTypes, Tellings
  <1>1. CASE Construct(s)
    BY <1>0, <1>1, WhenConstructed
  <1>2. CASE AddSettles(s)
    BY <1>0, <1>2, WhenSettled DEF NoAdd
  <1>3. CASE Event(s) \/ Response(s)
    BY <1>0, <1>3, WhenHandled
  <1>4. CASE HandleStart(s)
    BY <1>0, <1>4, WhenStarted
  <1>5. CASE HandleStop(s)
    BY <1>0, <1>5, WhenToldToStop
  <1>6. CASE HandleDelete(s)
    BY <1>0, <1>6, WhenDeleted
  <1>7. CASE StationStops(s)
    <2>1. station[s].phase # "none"
      BY <1>0, <1>7, WhenStopped DEF Typed, IInv, Waiters
    <2> QED
      BY <1>0, <1>7, <2>1, WhenStopped
  <1>8. CASE StationStopFails(s)
    BY <1>0, <1>8, WhenStopFailed
  <1>9. CASE Crash(s)
    <2>1. adds'[s].state = "asked" => outbox[s] # <<>>
      BY <1>0, <1>9, WhenCrashed DEF NoAdd, Contains
    <2>2. outbox[s] # <<>> => station'[s].generation = station[s].generation
      BY <1>0, <1>9, WhenCrashed, Records
    <2>3. adds'[s].by \in {adds[s].by, "nobody"}
      BY <1>0, <1>9, WhenCrashed DEF NoAdd
    <2> QED
      BY <1>0, <1>9, <2>1, <2>2, <2>3, WhenCrashed
  <1> QED
    BY <1>1, <1>2, <1>3, <1>4, <1>5, <1>6, <1>7, <1>8, <1>9 DEF LocalStep

\* A step that changes no station but one, and not the simulator, keeps it calm.
LEMMA LocalCalm ==
  ASSUME Typed, Tellings, Calm, SameMain, history'.overlapped = history.overlapped,
         \A s \in Stations : Untouched(s) \/ LocalStep(s) \/ \E r \in Requests : AddStation(r, s)
  PROVE  Calm'
  <1> SUFFICES ASSUME ~history.overlapped PROVE Connected' /\ Fresh' /\ Configured'
    BY DEF Calm
  <1>0. /\ Connected /\ Fresh /\ Configured /\ Phases /\ Current /\ StationTypes /\ AddTypes
        /\ BootstrapTypes
    BY DEF Calm, Typed, IInv
  <1>1. ASSUME NEW s \in Stations, NEW r \in Requests, AddStation(r, s)
        PROVE  /\ station'[s].generation = workers.generation /\ flags.started
               /\ adds'[s].by # "start"
    <2>1. PICK i \in Indexes : station'[s] = Asked(i)
      BY <1>0, <1>1, WhenAdded
    <2>2. station'[s].generation = workers.generation
      BY <2>1 DEF Asked
    <2>3. adds'[s] = [state |-> "asked", by |-> r] /\ r # "start"
      BY <1>0, <1>1, WhenAdded, SimulatorAssumption
    <2> QED
      BY <1>1, <2>2, <2>3 DEF AddStation
  <1>2. ASSUME NEW s \in Stations, outbox'[s] # <<>> \/ adds'[s].state = "asked"
        PROVE  station'[s].generation = workers.generation /\ (flags.started \/ flags.starting)
    <2>1. CASE Untouched(s)
      BY <1>0, <1>2, <2>1 DEF Untouched, Connected
    <2>2. CASE LocalStep(s)
      BY <1>0, <1>2, <2>2, FromSomething DEF Connected, Current
    <2> QED
      BY <1>1, <2>1, <2>2
  <1>3. Connected'
    BY <1>0, <1>2 DEF Connected, SameMain
  <1>4. Fresh'
    <2> SUFFICES ASSUME start.step = "workers", NEW s \in Stations
                 PROVE  station'[s].phase = "none" /\ outbox'[s] = <<>>
      BY DEF Fresh, SameMain
    <2>1. station[s].phase = "none" /\ outbox[s] = <<>> /\ ~flags.started
      BY <1>0 DEF Fresh, Phases
    <2>2. CASE Untouched(s)
      BY <2>1, <2>2 DEF Untouched
    <2>3. CASE LocalStep(s)
      BY <2>1, <2>3, FromSomething
    <2> QED
      BY <1>1, <2>1, <2>2, <2>3
  <1>5. Configured'
    <2> SUFFICES ASSUME NEW s \in Stations, adds'[s].by = "start" PROVE start.step = "adding"
      BY DEF Configured, SameMain
    <2>1. adds[s].by = "start"
      BY <1>1, FromSomething DEF Untouched
    <2> QED
      BY <1>0, <2>1 DEF Configured
  <1> QED
    BY <1>3, <1>4, <1>5

\* Starts, stops and reloads that overlap with nothing keep it calm.
LEMMA StartCalm ==
  ASSUME Typed, Calm, StartSimulator \/ StartAdds \/ StartEnds
  PROVE  Calm'
  <1> SUFFICES ASSUME ~history.overlapped PROVE Connected' /\ Fresh' /\ Configured'
    BY DEF Calm, StartSimulator, StartAdds, StartEnds
  <1>0. /\ Connected /\ Fresh /\ Configured /\ Phases /\ Current /\ StationTypes /\ AddTypes
        /\ BootstrapTypes
    BY DEF Calm, Typed, IInv
  <1>1. CASE StartSimulator
    <2>1. /\ ~flags.started /\ ~flags.starting /\ listening' /\ UNCHANGED <<station, outbox, adds, workers>>
          /\ flags' = [flags EXCEPT !.starting = TRUE] /\ start'.step = "workers"
      BY <1>1 DEF StartSimulator, StartWith, stationVars
    <2>2. \A s \in Stations : station[s].phase = "none" /\ outbox[s] = <<>> /\ adds[s].state # "asked"
      BY <1>0, <2>1 DEF Current, Connected
    <2>3. start.step = "idle"
      BY <1>0, <2>1 DEF Phases
    <2>4. \A s \in Stations : adds[s].by # "start"
      BY <1>0, <2>3 DEF Configured
    <2>5. ~flags'.started
      BY <1>0, <2>1 DEF BootstrapTypes, Flags
    <2> QED
      BY <2>1, <2>2, <2>4, <2>5 DEF Connected, Fresh, Configured
  <1>2. CASE StartAdds
    <2>1. /\ start'.step = "adding" /\ start.step = "workers"
          /\ flags' = flags /\ listening' = listening /\ workers'.generation = workers.generation
      BY <1>0, <1>2 DEF StartAdds, BootstrapTypes
    <2>2. flags.starting
      BY <1>0, <2>1 DEF Phases
    <2>3. ASSUME NEW s \in Stations, outbox'[s] # <<>> \/ adds'[s].state = "asked"
          PROVE  station'[s].generation = workers.generation
      <3>1. CASE Untouched(s)
        BY <1>0, <2>3, <3>1 DEF Untouched, Connected
      <3>2. CASE ~Untouched(s)
        <4>1. PICK i : station'[s] = Asked(i)
          BY <1>2, <3>2, StartAddsTo
        <4> QED
          BY <4>1 DEF Asked
      <3> QED
        BY <3>1, <3>2
    <2> QED
      BY <1>0, <2>1, <2>2, <2>3 DEF Connected, Fresh, Configured
  <1>3. CASE StartEnds
    <2>1. /\ start'.step = "idle" /\ UNCHANGED <<station, outbox, adds, workers, listening>>
          /\ \A s \in Stations : adds[s].by # "start"
          /\ flags'.started /\ ~flags'.starting
      BY <1>0, <1>3 DEF StartEnds, stationVars, BootstrapTypes, Flags
    <2>2. flags.starting
      BY <1>0, <1>3 DEF StartEnds, Phases
    <2> QED
      BY <1>0, <2>1, <2>2 DEF Connected, Fresh, Configured
  <1> QED
    BY <1>1, <1>2, <1>3

\* What the flags are after a reload that replaced the workers.
LEMMA RenewCalm ==
  ASSUME NEW fl \in Flags, Renew(fl), ~fl.started, ~fl.starting
  PROVE  /\ start'.step = "workers" /\ ~flags'.started /\ flags'.starting
  BY DEF Renew, StartWith, Flags

LEMMA StopCalm ==
  ASSUME Typed, Tellings, Calm, StopEnds \/ ReloadRefused
  PROVE  Calm'
  <1> SUFFICES ASSUME ~history'.overlapped PROVE Connected' /\ Fresh' /\ Configured'
    BY DEF Calm
  <1>0. StationTypes /\ AddTypes /\ BootstrapTypes
    BY DEF Typed, IInv
  <1>1. CASE StopEnds
    <2> DEFINE stopped == [flags EXCEPT !.started = FALSE, !.stopping = FALSE]
    <2>1. /\ stop.step = "closing" /\ listening' = (reload = "stop")
          /\ NoteIf(\E s \in {t \in Stations : station[t].generation = workers.generation} :
                        s \in Running \/ outbox[s] # <<>>, "drifted")
          /\ IF reload = "stop" THEN Renew(stopped) ELSE flags' = stopped /\ start' = start
      BY <1>1 DEF StopEnds
    <2>2. ~history.overlapped
      BY <1>0, <2>1 DEF NoteIf, BootstrapTypes
    <2>3. Connected /\ Configured /\ Phases /\ Current
      BY <2>2 DEF Calm, Typed, IInv
    <2>4. flags.started /\ ~flags.starting /\ start.step = "idle"
      BY <1>0, <2>1, <2>3 DEF Phases, Connected, BootstrapTypes
    <2>5. ASSUME NEW s \in Stations
          PROVE  /\ station'[s].phase = "none" /\ outbox'[s] = <<>>
                 /\ adds'[s].state # "asked" /\ adds'[s].by # "start"
      <3>1. CASE station[s].generation = workers.generation
        <4>1. /\ station'[s] = Ended(s) /\ outbox'[s] = <<>>
              /\ adds'[s] = IF adds[s].state = "asked" THEN NoAdd ELSE adds[s]
          BY <1>1, <3>1, StopEndsOf
        <4>2. adds[s].by # "start"
          BY <2>3, <2>4 DEF Configured
        <4> QED
          BY <1>0, <4>1, <4>2, Records DEF NoAdd
      <3>2. CASE station[s].generation # workers.generation
        <4>1. Untouched(s)
          BY <1>1, <3>2, StopEndsOf
        <4>2. station[s].phase = "none" /\ outbox[s] = <<>> /\ adds[s].state # "asked"
          BY <2>3, <3>2 DEF Current, Connected
        <4>3. adds[s].by # "start"
          BY <2>3, <2>4 DEF Configured
        <4> QED
          BY <4>1, <4>2, <4>3 DEF Untouched
      <3> QED
        BY <3>1, <3>2
    <2>6. stopped \in Flags /\ ~stopped.started /\ ~stopped.starting
      BY <1>0, <2>4 DEF BootstrapTypes, Flags
    <2>7. CASE reload = "stop"
      BY <2>1, <2>5, <2>6, <2>7, RenewCalm DEF Connected, Fresh, Configured
    <2>8. CASE reload # "stop"
      BY <2>1, <2>5, <2>6, <2>8 DEF Connected, Fresh, Configured
    <2> QED
      BY <2>7, <2>8
  <1>2. CASE ReloadRefused
    <2>1. /\ ~flags.started \/ flags.stopping
          /\ Renew(flags) /\ UNCHANGED <<station, outbox, adds>>
          /\ history' = [history EXCEPT !["overlapped"] = @ \/ (flags.starting \/ flags.stopping)]
          /\ listening' = (listening \/ ~(flags.started \/ flags.starting))
      BY <1>2 DEF ReloadRefused, NoteIf, stationVars
    <2>2. ~history.overlapped /\ ~flags.starting /\ ~flags.stopping /\ ~flags.started
      BY <1>0, <2>1 DEF BootstrapTypes
    <2>3. Connected /\ Configured /\ Phases /\ Current
      BY <2>2 DEF Calm, Typed, IInv
    <2>4. \A s \in Stations : /\ station[s].phase = "none" /\ outbox[s] = <<>>
                              /\ adds[s].state # "asked" /\ adds[s].by # "start"
      BY <2>2, <2>3 DEF Current, Connected, Configured, Phases
    <2>5. flags \in Flags
      BY <1>0 DEF BootstrapTypes
    <2> QED
      BY <2>1, <2>2, <2>4, <2>5, RenewCalm DEF Connected, Fresh, Configured
  <1> QED
    BY <1>1, <1>2

\* The end of a stop overlaps with nothing.
LEMMA StopOverlap ==
  ASSUME Typed, StopEnds
  PROVE  history'.overlapped = history.overlapped
  <1>1. NoteIf(\E s \in {t \in Stations : station[t].generation = workers.generation} :
                    s \in Running \/ outbox[s] # <<>>, "drifted")
    BY DEF StopEnds
  <1>2. (\E s \in {t \in Stations : station[t].generation = workers.generation} :
                    s \in Running \/ outbox[s] # <<>>) \in BOOLEAN
    OBVIOUS
  <1> QED
    BY <1>1, <1>2, Noting DEF Typed, IInv

\* Only a reload that is refused can overlap with something.
LEMMA SameOverlap ==
  ASSUME Typed, [Next]_vars, ~ReloadRefused
  PROVE  history'.overlapped = history.overlapped
  <1> USE DEF mainVars, uiVars, stationVars
  <1>0. BootstrapTypes
    BY DEF Typed, IInv
  <1>1. ASSUME NEW s \in Stations, LocalStep(s) \/ HandleIdle(s)
        PROVE  history'.overlapped = history.overlapped
    <2>1. \/ NoteIf(s \in Running, "drifted") \/ Note("stuck") \/ history' = history
      BY <1>1 DEF LocalStep, Construct, AddSettles, Event, Response, HandleStart, HandleStop,
                  HandleDelete, StationStops, StationStopFails, Crash, HandleIdle
    <2>2. (s \in Running) \in BOOLEAN
      OBVIOUS
    <2> QED
      BY <1>0, <2>1, <2>2, Noting
  <1>2. ASSUME NEW r \in Requests, NEW s \in Stations, AddStation(r, s) \/ Gather(r, s)
        PROVE  history'.overlapped = history.overlapped
    <2>1. \/ NoteIf(\E t \in Stations : adds[t].by \in Requests, "raced") \/ history' = history
      BY <1>2 DEF AddStation, Gather
    <2>2. (\E t \in Stations : adds[t].by \in Requests) \in BOOLEAN
      OBVIOUS
    <2> QED
      BY <1>0, <2>1, <2>2, Noting
  <1>3. ASSUME NEW r \in Requests, NEW command \in Commands, NEW ids \in SUBSET known,
               Broadcast(r, command, ids)
        PROVE  history'.overlapped = history.overlapped
    BY <1>3 DEF Broadcast
  <1>4. CASE StopEnds
    BY <1>4, StopOverlap
  <1>5. CASE StartSimulator \/ StartAdds \/ StartEnds \/ StopSimulator \/ StopTimesOut \/ ReloadStops
             \/ UNCHANGED vars
    BY <1>5 DEF StartSimulator, StartAdds, StartEnds, StopSimulator, StopTimesOut, ReloadStops, vars
  <1> QED
    BY <1>1, <1>2, <1>3, <1>4, <1>5 DEF Next, LocalStep

\* Which steps there are, as far as stations and the simulator's phases go.
LEMMA Steps ==
  ASSUME Typed, [Next]_vars
  PROVE  \/ StartSimulator \/ StartAdds \/ StartEnds \/ StopEnds \/ ReloadRefused
         \/ /\ SameMain /\ history'.overlapped = history.overlapped
            /\ \A s \in Stations :
                  Untouched(s) \/ LocalStep(s) \/ \E r \in Requests : AddStation(r, s)
  <1>0. StationTypes /\ AddTypes
    BY DEF Typed, IInv
  <1>1. CASE StartSimulator \/ StartAdds \/ StartEnds \/ StopEnds \/ ReloadRefused
    BY <1>1
  <1>2. CASE ~(StartSimulator \/ StartAdds \/ StartEnds \/ StopEnds \/ ReloadRefused)
    <2>1. SameMain
      BY <1>2, MainUnchanged DEF Next, LocalStep
    <2>2. history'.overlapped = history.overlapped
      BY <1>2, SameOverlap
    <2>3. \/ UNCHANGED <<station, outbox, adds>>
          \/ \E s \in Stations : LocalStep(s) \/ \E r \in Requests : AddStation(r, s)
      BY <1>2, Kinds
    <2>4. UNCHANGED <<station, outbox, adds>> => \A s \in Stations : Untouched(s)
      BY DEF Untouched
    <2> QED
      BY <1>0, <2>1, <2>2, <2>3, <2>4, OthersUntouched
  <1> QED
    BY <1>1, <1>2

LEMMA CalmKept == ASSUME Typed, Tellings, Calm, [Next]_vars PROVE Calm'
  BY Steps, LocalCalm, StartCalm, StopCalm

-----------------------------------------------------------------------------
(* Indexes, and the stations the UI server knows *)

\* A station holds its index until the main thread hears of its deletion.
Holds(s) == station[s].phase \in {"asked", "up"} \/ Contains(outbox[s], "deleted")

Indexed ==
    /\ \A s, t \in Stations : Holds(s) /\ Holds(t) /\ station[s].index = station[t].index => s = t
    /\ \A s \in Stations : Holds(s) /\ adds[s].state = "none" => station[s].index \in stats.indexes

Shown == \A s \in Up : station[s].index \in known \/ Contains(outbox[s], "added")

Identified == history.overlapped \/ history.raced \/ (Indexed /\ Shown)

\* A stop that ends, or a reload of a simulator that does not run, leaves no
\* station and no message.
LEMMA Emptied ==
  ASSUME Typed, Calm, ~history'.overlapped, StopEnds \/ ReloadRefused
  PROVE  \A s \in Stations : station'[s].phase = "none" /\ outbox'[s] = <<>>
  <1>0. StationTypes /\ AddTypes /\ BootstrapTypes
    BY DEF Typed, IInv
  <1> TAKE s \in Stations
  <1>1. CASE StopEnds
    <2>1. ~history.overlapped
      BY <1>1, StopOverlap
    <2>2. CASE station[s].generation = workers.generation
      BY <1>0, <1>1, <2>2, StopEndsOf, Records
    <2>3. CASE station[s].generation # workers.generation
      BY <1>1, <2>1, <2>3, StopEndsOf DEF Untouched, Calm, Connected, Current, Typed, IInv
    <2> QED
      BY <2>2, <2>3
  <1>2. CASE ReloadRefused
    <2>1. /\ (~flags.started \/ flags.stopping)
          /\ UNCHANGED <<station, outbox>>
          /\ history' = [history EXCEPT !["overlapped"] = @ \/ (flags.starting \/ flags.stopping)]
      BY <1>2 DEF ReloadRefused, NoteIf, stationVars
    <2>2. ~history.overlapped /\ ~flags.starting /\ ~flags.started
      BY <1>0, <2>1 DEF BootstrapTypes
    <2> QED
      BY <2>1, <2>2 DEF Calm, Connected, Current, Typed, IInv
  <1> QED
    BY <1>1, <1>2

\* A step of a station makes it hold no index it did not hold.
LEMMA HeldBefore ==
  ASSUME Typed, NEW s \in Stations, Told(s), LocalStep(s), Holds(s)'
  PROVE  /\ Holds(s) /\ station'[s].index = station[s].index
         /\ adds'[s].state = "none" => adds[s].state = "none" \/ AddSettles(s)
         /\ Event(s) => Head(outbox[s]) # "deleted"
  <1> USE DEF SameStation
  <1>0. StationTypes /\ AddTypes /\ outbox[s] \in Seq(Events)
    BY DEF Typed, IInv, AddTypes
  <1>1. Event(s) => Head(outbox[s]) # "deleted"
    <2> SUFFICES ASSUME Event(s), Head(outbox[s]) = "deleted" PROVE FALSE
      OBVIOUS
    <2>1. outbox[s] # <<>> /\ outbox'[s] = Tail(outbox[s]) /\ station' = station
      BY <1>0, WhenHandled
    <2>2. Contains(outbox[s], "deleted") /\ ~Contains(outbox'[s], "deleted")
      BY <1>0, <2>1, RestContains DEF Told, Deletable
    <2> QED
      BY <2>1, <2>2 DEF Holds, Told, Deletable
  <1> SUFFICES /\ Holds(s) /\ station'[s].index = station[s].index
               /\ adds'[s].state = "none" => adds[s].state = "none" \/ AddSettles(s)
    BY <1>1
  <1>2. CASE Construct(s)
    BY <1>0, <1>2, WhenConstructed DEF Holds
  <1>3. CASE AddSettles(s)
    BY <1>0, <1>3, WhenSettled DEF Holds
  <1>4. CASE Event(s) \/ Response(s)
    <2>1. outbox[s] # <<>> /\ outbox'[s] = Tail(outbox[s]) /\ station' = station
      BY <1>0, <1>4, WhenHandled
    <2>2. Contains(outbox'[s], "deleted") => Contains(outbox[s], "deleted")
      BY <1>0, <2>1, RestContains
    <2>3. adds'[s].state \in {adds[s].state, "answered"}
      BY <1>0, <1>4, WhenHandled
    <2> QED
      BY <2>1, <2>2, <2>3 DEF Holds
  <1>5. ASSUME station[s].phase \in {"up", "deleted"}, adds' = adds, SameStation(s),
               station[s].phase = "deleted" => outbox'[s] = outbox[s] /\ station'[s].phase = "deleted"
        PROVE  /\ Holds(s) /\ station'[s].index = station[s].index
               /\ adds'[s].state = "none" => adds[s].state = "none" \/ AddSettles(s)
    BY <1>5 DEF Holds
  <1>6. CASE HandleStart(s)
    BY <1>0, <1>5, <1>6, WhenStarted
  <1>7. CASE HandleStop(s)
    BY <1>0, <1>5, <1>7, WhenToldToStop
  <1>8. CASE HandleDelete(s)
    BY <1>0, <1>5, <1>8, WhenDeleted
  <1>9. CASE StationStops(s)
    <2>1. station[s].phase \in {"up", "deleted"}
      BY <1>0, <1>9, WhenStopped DEF Typed, IInv, Waiters, Carriers, Carries, StationTypes, StationRecord
    <2> QED
      BY <1>0, <1>5, <1>9, <2>1, WhenStopped
  <1>10. CASE StationStopFails(s)
    BY <1>0, <1>10, WhenStopFailed DEF Holds
  <1>11. CASE Crash(s)
    <2>1. station'[s] = Ended(s) /\ outbox' = outbox /\ Contains(outbox[s], "deleted")
      BY <1>0, <1>11, WhenCrashed, Records DEF Holds
    <2>2. outbox[s] # <<>>
      BY <2>1, NoPosts
    <2>3. adds'[s] = adds[s]
      BY <1>0, <1>11, <2>2, WhenCrashed DEF Told, Answerable
    <2> QED
      BY <2>1, <2>2, <2>3, Records, <1>0 DEF Holds
  <1> QED
    BY <1>2, <1>3, <1>4, <1>6, <1>7, <1>8, <1>9, <1>10, <1>11 DEF LocalStep

\* A message is handled while Bootstrap listens, if no reload overlapped.
LEMMA Listened ==
  ASSUME Typed, Calm, ~history.overlapped, NEW s \in Stations, Event(s)
  PROVE  /\ Head(outbox[s]) \in Events \ {"response"}
         /\ Head(outbox[s]) = "added" => EventAdded(s)
         /\ Head(outbox[s]) = "started" => EventStarted(s)
         /\ Head(outbox[s]) = "stopped" => EventStopped(s)
         /\ Head(outbox[s]) = "deleted" => EventDeleted(s)
  <1>1. outbox[s] \in Seq(Events) /\ outbox[s] # <<>> /\ Head(outbox[s]) # "response"
    BY DEF Event, Typed, AddTypes
  <1>2. Head(outbox[s]) \in Events
    BY <1>1
  <1>3. listening
    BY <1>1 DEF Calm, Connected
  <1> QED
    BY <1>1, <1>2, <1>3 DEF Event

\* What a step of a station does to the indexes and to the known stations.
LEMMA Registering ==
  ASSUME Typed, Calm, ~history.overlapped, NEW s \in Stations, LocalStep(s)
  PROVE  /\ AddSettles(s) => station[s].index \in stats'.indexes
         /\ \/ stats.indexes \subseteq stats'.indexes /\ known \subseteq known'
            \/ /\ Event(s) /\ Head(outbox[s]) = "deleted"
               /\ stats.indexes \ {station[s].index} \subseteq stats'.indexes
               /\ known \ {station[s].index} \subseteq known'
         /\ Event(s) /\ Head(outbox[s]) = "added" => station[s].index \in known'
  <1> USE DEF mainVars, uiVars, stationVars
  <1>0. stats \in StatsRecord
    BY DEF Typed, IInv, BootstrapTypes
  <1>1. ASSUME Event(s), Head(outbox[s]) # "deleted"
        PROVE  known' = known \cup {station[s].index} /\ stats'.indexes = stats.indexes
    <2>1. EventAdded(s) \/ EventStarted(s) \/ EventStopped(s)
      BY <1>1, Listened DEF Events
    <2> QED
      BY <1>0, <2>1 DEF EventAdded, EventStarted, EventStopped, StatsRecord
  <1>2. ASSUME AddSettles(s)
        PROVE  stats'.indexes = stats.indexes \cup {station[s].index} /\ known' = known
    BY <1>0, <1>2 DEF AddSettles, StatsRecord
  <1>3. ASSUME Event(s), Head(outbox[s]) = "deleted"
        PROVE  /\ stats.indexes \ {station[s].index} \subseteq stats'.indexes
               /\ known \ {station[s].index} \subseteq known'
    BY <1>0, <1>3, Listened DEF EventDeleted, StatsRecord
  <1>4. ASSUME ~Event(s), ~AddSettles(s) PROVE UNCHANGED <<stats, known>>
    BY <1>4 DEF LocalStep, Construct, Response, HandleStart, HandleStop, HandleDelete,
                StationStops, StationStopFails, Crash
  <1> QED
    BY <1>1, <1>2, <1>3, <1>4

\* A client's request takes an index nobody has, if no other is in progress.
LEMMA AddIdentified ==
  ASSUME Typed, Tellings, Calm, Identified, NEW r \in Requests, NEW s \in Stations, AddStation(r, s)
  PROVE  Identified'
  <1>0. StationTypes /\ AddTypes /\ BootstrapTypes
    BY DEF Typed, IInv
  <1>1. /\ flags.started /\ UNCHANGED <<stats, known>>
        /\ history' = [history EXCEPT !["raced"] = @ \/ \E t \in Stations : adds[t].by \in Requests]
    BY DEF AddStation, NoteIf
  <1> SUFFICES ASSUME ~history'.overlapped, ~history'.raced PROVE Indexed' /\ Shown'
    BY DEF Identified
  <1>2. ~history.overlapped /\ ~history.raced /\ \A t \in Stations : adds[t].by \notin Requests
    BY <1>0, <1>1 DEF BootstrapTypes
  <1>3. Indexed /\ Shown /\ Configured /\ Phases
    BY <1>2 DEF Identified, Calm, Typed, IInv
  <1>4. \A t \in Stations : adds[t].state = "none"
    <2> TAKE t \in Stations
    <2>1. adds[t].by # "start"
      BY <1>1, <1>3 DEF Configured, Phases
    <2>2. adds[t].by = "nobody"
      BY <1>0, <1>2, <2>1 DEF AddTypes
    <2> QED
      BY <2>2 DEF Tellings, Told, Answerable
  <1>5. PICK i \in Indexes : station'[s] = Asked(i) /\ i \notin stats.indexes
    BY <1>0, WhenAdded
  <1>6. /\ station'[s].index = i /\ station'[s].phase = "asked"
        /\ adds'[s].state = "asked" /\ ~Holds(s)
    <2>1. station[s].phase = "none" /\ outbox[s] = <<>>
      BY <1>0, WhenAdded
    <2>2. adds'[s] = [state |-> "asked", by |-> r]
      BY <1>0, WhenAdded
    <2> QED
      BY <1>5, <2>1, <2>2, NoPosts DEF Asked, Holds
  <1>7. \A t \in Stations : t # s => Untouched(t)
    BY <1>0, OthersUntouched
  <1>8. \A t \in Stations : t # s /\ Holds(t)' =>
           Holds(t) /\ station'[t].index = station[t].index /\ station[t].index \in stats.indexes
    BY <1>3, <1>4, <1>7 DEF Holds, Untouched, Indexed
  <1>9. Indexed'
    BY <1>1, <1>3, <1>5, <1>6, <1>8 DEF Indexed
  <1>10. Shown'
    BY <1>1, <1>3, <1>6, <1>7 DEF Shown, Up, Untouched
  <1> QED
    BY <1>9, <1>10

\* start() hands out the indexes of its template when there is no station.
LEMMA StartIdentified ==
  ASSUME Typed, Tellings, Calm, Identified, StartAdds
  PROVE  Identified'
  <1>1. start.step = "workers" /\ UNCHANGED <<stats, known, outbox, history>>
    BY DEF StartAdds
  <1> SUFFICES ASSUME ~history.overlapped, ~history.raced PROVE Indexed' /\ Shown'
    BY <1>1 DEF Identified
  <1>2. \A s \in Stations : station[s].phase = "none" /\ outbox[s] = <<>> /\ ~Holds(s)
    BY <1>1, NoPosts DEF Calm, Fresh, Holds
  <1>3. CASE UNCHANGED <<adds, station>>
    BY <1>1, <1>2, <1>3 DEF Holds, Indexed, Shown, Up
  <1>4. CASE ~UNCHANGED <<adds, station>>
    <2>1. PICK index \in [Stations -> 0 .. NumberOfStations] :
            /\ \A s, u \in Stations : index[s] = index[u] => s = u \/ index[s] = 0
            /\ adds' = [t \in Stations |-> IF index[t] = 0 THEN adds[t]
                                           ELSE [state |-> "asked", by |-> "start"]]
            /\ station' = [t \in Stations |-> IF index[t] = 0 THEN station[t] ELSE Asked(index[t])]
      BY <1>4 DEF StartAdds
    <2>2. \A s \in Stations : Holds(s)' => /\ index[s] # 0 /\ station'[s].index = index[s]
                                           /\ adds'[s].state = "asked"
      BY <1>1, <1>2, <2>1, NoPosts DEF Holds, Asked
    <2>3. \A s \in Stations : station'[s].phase # "up"
      BY <1>2, <2>1 DEF Asked
    <2>4. Indexed'
      BY <2>1, <2>2 DEF Indexed
    <2> QED
      BY <2>3, <2>4 DEF Shown, Up
  <1> QED
    BY <1>3, <1>4

\* A step of a station.
LEMMA StationIdentified ==
  ASSUME Typed, Tellings, Calm, Identified, NEW s \in Stations, LocalStep(s)
  PROVE  Identified'
  <1>0. StationTypes /\ AddTypes /\ BootstrapTypes /\ outbox[s] \in Seq(Events) /\ Told(s)
    BY DEF Typed, IInv, AddTypes, Tellings
  <1> SUFFICES ASSUME ~history'.overlapped, ~history'.raced PROVE Indexed' /\ Shown'
    BY DEF Identified
  <1>1. ~history.overlapped /\ ~history.raced
    <2> USE DEF mainVars, uiVars, stationVars
    <2>1. \/ NoteIf(s \in Running, "drifted") \/ Note("stuck") \/ history' = history
      BY DEF LocalStep, Construct, AddSettles, Event, Response, HandleStart, HandleStop,
             HandleDelete, StationStops, StationStopFails, Crash
    <2> QED
      BY <1>0, <2>1 DEF NoteIf, Note, BootstrapTypes
  <1>2. Indexed /\ Shown
    BY <1>1 DEF Identified
  <1>3. \A t \in Stations : t # s => Untouched(t)
    BY <1>0, OthersUntouched
  <1>4. \A t \in Stations : Holds(t)' => Holds(t) /\ station'[t].index = station[t].index
    BY <1>0, <1>3, HeldBefore DEF Holds, Untouched
  <1>5. ASSUME NEW t \in Stations, Holds(t)', Event(s), Head(outbox[s]) = "deleted"
        PROVE  station[t].index # station[s].index
    <2>1. t # s
      BY <1>0, <1>5, HeldBefore
    <2>2. Contains(outbox[s], "deleted")
      BY <1>0, <1>5, WhenHandled, RestContains
    <2> QED
      BY <1>2, <1>4, <1>5, <2>1, <2>2 DEF Indexed, Holds
  <1>6. ASSUME NEW t \in Stations, Holds(t)', adds'[t].state = "none"
        PROVE  station'[t].index \in stats'.indexes
    <2>1. adds[t].state = "none" \/ (t = s /\ AddSettles(s))
      BY <1>0, <1>3, <1>6, HeldBefore DEF Untouched
    <2>2. CASE t = s /\ AddSettles(s)
      BY <1>1, <1>4, <1>6, <2>2, Registering
    <2>3. CASE adds[t].state = "none"
      <3>1. station[t].index \in stats.indexes
        BY <1>2, <1>4, <1>6, <2>3 DEF Indexed
      <3> QED
        BY <1>1, <1>4, <1>5, <1>6, <3>1, Registering
    <2> QED
      BY <2>1, <2>2, <2>3
  <1>7. Indexed'
    BY <1>2, <1>4, <1>6 DEF Indexed
  <1>8. ASSUME NEW t \in Stations, station'[t].phase = "up"
        PROVE  station'[t].index \in known' \/ Contains(outbox'[t], "added")
    <2>0. Holds(t)'
      BY <1>8 DEF Holds
    <2>1. CASE t = s /\ Construct(s)
      <3>1. outbox'[s] \in {<<"added", "started", "response">>, <<"added", "response">>}
        BY <1>0, <2>1, WhenConstructed
      <3>2. outbox'[s][1] = "added" /\ 1 \in 1 .. Len(outbox'[s])
        BY <3>1
      <3> QED
        BY <2>1, <3>2 DEF Contains
    <2>2. CASE ~(t = s /\ Construct(s))
      <3>1. station[t].phase = "up"
        BY <1>0, <1>3, <1>8, <2>2, WhenSettled, WhenHandled, WhenStarted, WhenToldToStop, WhenDeleted,
           WhenStopped, WhenStopFailed, WhenCrashed, Records DEF LocalStep, Untouched
      <3>2. station[t].index \in known \/ Contains(outbox[t], "added")
        BY <1>2, <3>1 DEF Shown, Up
      <3>3. CASE station[t].index \in known
        BY <1>1, <1>4, <1>5, <2>0, <3>3, Registering
      <3>4. CASE Contains(outbox[t], "added")
        <4>1. CASE t # s
          BY <1>3, <3>4, <4>1 DEF Untouched
        <4>2. CASE t = s
          <5>1. CASE Event(s) \/ Response(s)
            BY <1>0, <1>1, <1>4, <2>0, <3>4, <4>2, <5>1, WhenHandled, RestContains, Registering
          <5>2. CASE ~(Event(s) \/ Response(s))
            <6>1. "started" \in Events /\ "stopped" \in Events /\ "deleted" \in Events
              BY DEF Events
            <6>2. \A e \in Events : Contains(Append(outbox[s], e), "added")
              BY <1>0, <3>4, <4>2, MoreContains
            <6>3. Contains(Append(Append(outbox[s], "stopped"), "deleted"), "added")
              BY <1>0, <6>1, <6>2, MoreContains, More
            <6>4. outbox'[s] \in {outbox[s], Append(outbox[s], "started"), Append(outbox[s], "stopped"),
                                  Append(outbox[s], "deleted"),
                                  Append(Append(outbox[s], "stopped"), "deleted")}
              BY <1>0, <2>2, <4>2, <5>2, WhenSettled, WhenStarted, WhenToldToStop, WhenDeleted,
                 WhenStopped, WhenStopFailed, WhenCrashed DEF LocalStep
            <6> QED
              BY <3>4, <4>2, <6>1, <6>2, <6>3, <6>4
          <5> QED
            BY <5>1, <5>2
        <4> QED
          BY <4>1, <4>2
      <3> QED
        BY <3>2, <3>3, <3>4
    <2> QED
      BY <2>1, <2>2
  <1>9. Shown'
    BY <1>8 DEF Shown, Up
  <1> QED
    BY <1>7, <1>9

LEMMA IdentifiedKept ==
  ASSUME Typed, Tellings, Calm, Identified, [Next]_vars
  PROVE  Identified'
  <1>1. CASE UNCHANGED <<station, outbox, adds, stats, known, history>>
    BY <1>1 DEF Identified, Indexed, Shown, Holds, Up
  <1>2. CASE StopEnds \/ ReloadRefused
    <2> SUFFICES ASSUME ~history'.overlapped PROVE Indexed' /\ Shown'
      BY DEF Identified
    <2>1. \A s \in Stations : ~Holds(s)' /\ station'[s].phase # "up"
      BY <1>2, Emptied, NoPosts DEF Holds
    <2> QED
      BY <2>1 DEF Indexed, Shown, Up
  <1> QED
    BY <1>1, <1>2, Kinds, StartIdentified, StationIdentified, AddIdentified

Fleet == Typed /\ Tellings /\ Calm /\ Identified

LEMMA InitFleet == Init => Fleet
  <1> SUFFICES ASSUME Init PROVE Fleet
    OBVIOUS
  <1>1. \A s \in Stations : /\ station[s].phase = "none" /\ outbox[s] = <<>>
                            /\ adds[s].state = "none" /\ adds[s].by = "nobody"
    BY DEF Init, NoStation, NoAdd
  <1>2. Tellings
    BY <1>1, NoPosts DEF Tellings, Told, Answerable, Deletable, Reports, Running, Up
  <1>3. Calm
    BY <1>1 DEF Init, Calm, Connected, Fresh, Configured
  <1>4. Identified
    BY <1>1, NoPosts DEF Identified, Indexed, Shown, Holds, Up
  <1> QED
    BY <1>2, <1>3, <1>4, InitTyped DEF Fleet

LEMMA NextFleet == Fleet /\ [Next]_vars => Fleet'
  BY NextTyped, TellingsKept, CalmKept, IdentifiedKept DEF Fleet

(***************************************************************************)
(* Bootstrap's addChargingStation: as long as clients add stations one at  *)
(* a time and no reload overlaps a start or a stop, no two stations have   *)
(* the same index, hence the same identifier, whatever is added, deleted,  *)
(* crashes, and however the messages of the workers are delayed.  What     *)
(* makes it inductive: an index belongs to a station until its deletion is *)
(* heard of, and start() hands out indexes when there is no station.       *)
(***************************************************************************)
THEOREM IndexesAreUnique == Spec => []UniqueIndexes
  <1>1. Fleet => UniqueIndexes
    BY DEF Fleet, Identified, Indexed, UniqueIndexes, Existing, Holds
  <1> QED
    BY <1>1, InitFleet, NextFleet, PTL DEF Spec

(***************************************************************************)
(* The UI server's chargingStations: under the same conditions a station   *)
(* that exists is known, or its introduction is on its way, so that no     *)
(* command to all stations is withheld from it.                            *)
(***************************************************************************)
THEOREM StationsAreVisible == Spec => []Visible
  <1>1. Fleet => Visible
    BY DEF Fleet, Identified, Shown, Visible
  <1> QED
    BY <1>1, InitFleet, NextFleet, PTL DEF Spec

-----------------------------------------------------------------------------
(* The stations counted as started *)

\* The messages of a kind in any outboxes, each with its place.
PostedIn(boxes, e) ==
    UNION {{<<s, i>> : i \in {j \in DOMAIN boxes[s] : boxes[s][j] = e}} : s \in Stations}
Number(boxes, e) == Cardinality(PostedIn(boxes, e))
Boxes == [Stations -> Seq(Events)]
OnlyAt(s, boxes, new) == new \in Boxes /\ \A t \in Stations : t # s => new[t] = boxes[t]

LEMMA PostedPlaces ==
  ASSUME NEW boxes \in Boxes, NEW e
  PROVE  /\ \A p \in PostedIn(boxes, e) : \E s \in Stations, i \in Nat : p = <<s, i>>
         /\ \A s, i : <<s, i>> \in PostedIn(boxes, e) <=>
               s \in Stations /\ i \in 1 .. Len(boxes[s]) /\ boxes[s][i] = e
  <1>1. \A s \in Stations : boxes[s] \in Seq(Events) /\ DOMAIN boxes[s] = 1 .. Len(boxes[s])
    BY DEF Boxes
  <1> QED
    BY <1>1 DEF PostedIn

LEMMA PostedFinite ==
  ASSUME NEW boxes \in Boxes, NEW e
  PROVE  IsFiniteSet(PostedIn(boxes, e)) /\ Number(boxes, e) \in Nat
  <1> DEFINE At(s) == {<<s, i>> : i \in {j \in DOMAIN boxes[s] : boxes[s][j] = e}}
             All == {At(s) : s \in Stations}
             at == [s \in Stations |-> At(s)]
  <1>1. IsFiniteSet(All)
    <2>1. at \in Surjection(Stations, All)
      <3>1. \A s \in Stations : at[s] = At(s)
        OBVIOUS
      <3>2. \A T \in All : \E s \in Stations : at[s] = T
        BY <3>1
      <3>3. at \in [Stations -> All]
        OBVIOUS
      <3> HIDE DEF at, All
      <3> QED
        BY <3>2, <3>3, Fun_IsSurj
    <2> HIDE DEF at, All
    <2> QED
      BY <2>1, FS_Surjection, SimulatorAssumption
  <1>2. ASSUME NEW s \in Stations PROVE IsFiniteSet(At(s))
    <2>1. Len(boxes[s]) \in Nat /\ DOMAIN boxes[s] = 1 .. Len(boxes[s])
      BY DEF Boxes
    <2>2. IsFiniteSet({s} \X (1 .. Len(boxes[s])))
      <3>1. IsFiniteSet({s})
        BY FS_Singleton
      <3>3. IsFiniteSet(1 .. Len(boxes[s]))
        BY <2>1, FS_Interval
      <3>2. \A A, B : IsFiniteSet(A) /\ IsFiniteSet(B) => IsFiniteSet(A \X B)
        BY FS_Product
      <3> QED
        BY <3>1, <3>2, <3>3
    <2>3. At(s) \subseteq {s} \X (1 .. Len(boxes[s]))
      BY <2>1
    <2> QED
      BY <2>2, <2>3, FS_Subset
  <1>3. IsFiniteSet(PostedIn(boxes, e))
    <2>1. \A T \in All : IsFiniteSet(T)
      BY <1>2
    <2>2. IsFiniteSet(UNION All)
      BY <1>1, <2>1, FS_UNION
    <2> QED
      BY <2>2 DEF PostedIn
  <1> QED
    BY <1>3, FS_CardinalityType DEF Number

\* One more message is one more of its kind.
LEMMA NumberAfterPost ==
  ASSUME NEW boxes \in Boxes, NEW s \in Stations, NEW x \in Events, NEW e,
         NEW new, OnlyAt(s, boxes, new), new[s] = Append(boxes[s], x)
  PROVE  Number(new, e) = Number(boxes, e) + (IF x = e THEN 1 ELSE 0)
  <1> DEFINE p == <<s, Len(boxes[s]) + 1>>
  <1>1. boxes[s] \in Seq(Events) /\ Append(boxes[s], x) \in Seq(Events)
    BY DEF Boxes
  <1>2. /\ new \in Boxes /\ new[s] = Append(boxes[s], x)
        /\ \A t \in Stations : t # s => new[t] = boxes[t]
    BY DEF OnlyAt
  <1>3. /\ Len(new[s]) = Len(boxes[s]) + 1 /\ new[s][Len(boxes[s]) + 1] = x
        /\ \A i \in 1 .. Len(boxes[s]) : new[s][i] = boxes[s][i]
        /\ Len(boxes[s]) \in Nat
    BY <1>1, <1>2, More
  <1>4. p \notin PostedIn(boxes, e)
    BY <1>3, PostedPlaces
  <1>5. \A t, i : <<t, i>> \in PostedIn(new, e) <=>
            <<t, i>> \in PostedIn(boxes, e) \/ (x = e /\ <<t, i>> = p)
    <2>a. \A t, i : <<t, i>> \in PostedIn(new, e) <=>
              t \in Stations /\ i \in 1 .. Len(new[t]) /\ new[t][i] = e
      BY <1>2, PostedPlaces
    <2>b. \A t, i : <<t, i>> \in PostedIn(boxes, e) <=>
              t \in Stations /\ i \in 1 .. Len(boxes[t]) /\ boxes[t][i] = e
      BY PostedPlaces
    <2> SUFFICES ASSUME NEW t, NEW i
                 PROVE  <<t, i>> \in PostedIn(new, e) <=>
                            (<<t, i>> \in PostedIn(boxes, e) \/ (x = e /\ <<t, i>> = p))
      OBVIOUS
    <2>c. <<t, i>> = p <=> (t = s /\ i = Len(boxes[s]) + 1)
      OBVIOUS
    <2> HIDE DEF p
    <2>1. CASE t # s
      BY <1>2, <2>1, <2>a, <2>b, <2>c
    <2>2. CASE t = s
      <3>1. i \in 1 .. Len(new[s]) <=> (i \in 1 .. Len(boxes[s]) \/ i = Len(boxes[s]) + 1)
        BY <1>3
      <3>2. Len(boxes[s]) + 1 \notin 1 .. Len(boxes[s])
        BY <1>3
      <3> QED
        BY <1>2, <1>3, <2>2, <3>1, <3>2, <2>a, <2>b, <2>c
    <2> QED
      BY <2>1, <2>2
  <1>6. PostedIn(new, e) = IF x = e THEN PostedIn(boxes, e) \cup {p} ELSE PostedIn(boxes, e)
    <2>1. ASSUME NEW q \in PostedIn(new, e)
          PROVE  q \in PostedIn(boxes, e) \/ (x = e /\ q = p)
      <3>1. PICK t \in Stations, i \in Nat : q = <<t, i>>
        BY <1>2, PostedPlaces
      <3> HIDE DEF p
      <3> QED
        BY <1>5, <3>1
    <2>2. ASSUME NEW q \in PostedIn(boxes, e) PROVE q \in PostedIn(new, e)
      <3>1. PICK t \in Stations, i \in Nat : q = <<t, i>>
        BY PostedPlaces
      <3> HIDE DEF p
      <3> QED
        BY <1>5, <3>1
    <2>3. x = e => p \in PostedIn(new, e)
      BY <1>5
    <2> HIDE DEF p
    <2> QED
      BY <2>1, <2>2, <2>3
  <1>7. IsFiniteSet(PostedIn(boxes, e)) /\ Number(boxes, e) \in Nat
    BY PostedFinite
  <1>8. Cardinality(PostedIn(boxes, e) \cup {p}) = Cardinality(PostedIn(boxes, e)) + 1
    BY <1>4, <1>7, FS_AddElement
  <1> QED
    BY <1>2, <1>6, <1>7, <1>8 DEF Number

\* A message that is handled is one less of its kind: the others move up.
LEMMA NumberAfterHandling ==
  ASSUME NEW boxes \in Boxes, NEW s \in Stations, boxes[s] # <<>>, NEW e,
         NEW new, OnlyAt(s, boxes, new), new[s] = Tail(boxes[s])
  PROVE  Number(new, e) = Number(boxes, e) - (IF Head(boxes[s]) = e THEN 1 ELSE 0)
  <1> DEFINE p == <<s, 1>>
             Others == PostedIn(boxes, e) \ {p}
             Shift(t, i) == IF t = s THEN <<t, i - 1>> ELSE <<t, i>>
             shift == [q \in Others |-> Shift(q[1], q[2])]
  <1>1. boxes[s] \in Seq(Events) /\ Tail(boxes[s]) \in Seq(Events)
    BY Rest DEF Boxes
  <1>2. /\ new \in Boxes /\ new[s] = Tail(boxes[s])
        /\ \A t \in Stations : t # s => new[t] = boxes[t]
    BY DEF OnlyAt
  <1>3. p \in PostedIn(boxes, e) <=> Head(boxes[s]) = e
    BY <1>1, Rest, PostedPlaces
  <1>4. shift \in Bijection(Others, PostedIn(new, e))
    <2>a. \A t, i : <<t, i>> \in PostedIn(new, e) <=>
              t \in Stations /\ i \in 1 .. Len(new[t]) /\ new[t][i] = e
      BY <1>2, PostedPlaces
    <2>b. \A t, i : <<t, i>> \in PostedIn(boxes, e) <=>
              t \in Stations /\ i \in 1 .. Len(boxes[t]) /\ boxes[t][i] = e
      BY PostedPlaces
    <2>1. \A q \in Others : \E t \in Stations, i \in Nat :
              /\ q = <<t, i>> /\ i \in 1 .. Len(boxes[t]) /\ boxes[t][i] = e /\ (t = s => i # 1)
      <3> TAKE q \in Others
      <3>1. PICK t \in Stations, i \in Nat : q = <<t, i>>
        BY PostedPlaces
      <3> QED
        BY <2>b, <3>1
    <2>c. \A t, i : <<t, i>> \in Others => shift[<<t, i>>] = Shift(t, i)
      OBVIOUS
    <2>2. ASSUME NEW t \in Stations, NEW i \in 1 .. Len(boxes[t]), boxes[t][i] = e, t = s => i # 1
          PROVE  Shift(t, i) \in PostedIn(new, e)
      <3>1. CASE t = s
        <4>1. i - 1 \in 1 .. Len(new[s]) /\ new[s][i - 1] = e
          <5>1. i \in 1 .. Len(boxes[s]) /\ i # 1 /\ Len(boxes[s]) \in Nat
            BY <1>1, <2>2, <3>1
          <5>2. i - 1 \in 1 .. Len(Tail(boxes[s])) /\ Tail(boxes[s])[i - 1] = boxes[s][(i - 1) + 1]
            BY <1>1, <5>1, Rest
          <5>3. (i - 1) + 1 = i
            BY <5>1
          <5> QED
            BY <1>2, <2>2, <3>1, <5>2, <5>3
        <4> QED
          BY <2>a, <3>1, <4>1
      <3>2. CASE t # s
        BY <1>2, <2>2, <2>a, <3>2
      <3> QED
        BY <3>1, <3>2
    <2>3. \A q \in Others : shift[q] \in PostedIn(new, e)
      <3> TAKE q \in Others
      <3>1. PICK t \in Stations, i \in Nat :
                q = <<t, i>> /\ i \in 1 .. Len(boxes[t]) /\ boxes[t][i] = e /\ (t = s => i # 1)
        BY <2>1
      <3>2. shift[q] = Shift(t, i)
        BY <3>1, <2>c
      <3> HIDE DEF shift, Shift
      <3> QED
        BY <2>2, <3>1, <3>2
    <2>4. \A q, u \in Others : shift[q] = shift[u] => q = u
      <3> TAKE q, u \in Others
      <3>1. PICK t \in Stations, i \in Nat : q = <<t, i>> /\ shift[q] = Shift(t, i)
        <4>1. PICK t \in Stations, i \in Nat : q = <<t, i>>
          BY <2>1
        <4> HIDE DEF shift, Shift
        <4> QED
          BY <2>c, <4>1
      <3>2. PICK v \in Stations, j \in Nat : u = <<v, j>> /\ shift[u] = Shift(v, j)
        <4>1. PICK v \in Stations, j \in Nat : u = <<v, j>>
          BY <2>1
        <4> HIDE DEF shift, Shift
        <4> QED
          BY <2>c, <4>1
      <3>3. Shift(t, i) = Shift(v, j) => t = v /\ i = j
        OBVIOUS
      <3> HIDE DEF shift, Shift
      <3> QED
        BY <3>1, <3>2, <3>3
    <2>5. \A u \in PostedIn(new, e) : \E q \in Others : shift[q] = u
      <3> TAKE u \in PostedIn(new, e)
      <3>a. PICK t \in Stations, i \in Nat : u = <<t, i>>
        BY <1>2, PostedPlaces
      <3>b. i \in 1 .. Len(new[t]) /\ new[t][i] = e
        BY <2>a, <3>a
      <3>1. CASE t = s
        <4>1. i + 1 \in 1 .. Len(boxes[s]) /\ boxes[s][i + 1] = e /\ i + 1 # 1
          <5>1. i \in 1 .. Len(Tail(boxes[s])) /\ Tail(boxes[s])[i] = e
            BY <1>2, <3>b, <3>1
          <5> QED
            BY <1>1, <5>1, Rest
        <4>2. <<s, i + 1>> \in Others
          BY <2>b, <4>1
        <4>3. Shift(s, i + 1) = <<s, i>>
          OBVIOUS
        <4> HIDE DEF shift, Shift
        <4> QED
          BY <2>c, <3>a, <3>1, <4>2, <4>3
      <3>2. CASE t # s
        <4>1. <<t, i>> \in Others
          BY <1>2, <2>b, <3>b, <3>2
        <4>2. Shift(t, i) = <<t, i>>
          BY <3>2
        <4> HIDE DEF shift, Shift
        <4> QED
          BY <2>c, <3>a, <4>1, <4>2
      <3> QED
        BY <3>1, <3>2
    <2>6. shift \in [Others -> PostedIn(new, e)]
      <3>1. shift = [q \in Others |-> shift[q]]
        OBVIOUS
      <3> HIDE DEF shift, Others
      <3> QED
        BY <2>3, <3>1
    <2> HIDE DEF shift, Others
    <2> QED
      BY <2>4, <2>5, <2>6, Fun_IsBij
  <1>5. IsFiniteSet(PostedIn(boxes, e)) /\ Number(boxes, e) \in Nat
    BY PostedFinite
  <1>6. /\ IsFiniteSet(Others)
        /\ Cardinality(Others) = IF p \in PostedIn(boxes, e) THEN Cardinality(PostedIn(boxes, e)) - 1
                                 ELSE Cardinality(PostedIn(boxes, e))
    BY <1>5, FS_RemoveElement
  <1>7. Cardinality(PostedIn(new, e)) = Cardinality(Others)
    BY <1>4, <1>6, FS_Bijection DEF ExistsBijection
  <1> QED
    BY <1>2, <1>3, <1>5, <1>6, <1>7 DEF Number

\* The starts on their way less the stops, in any outboxes.
Flight(boxes) == Number(boxes, "started") - Number(boxes, "stopped")
Weight(e) == IF e = "started" THEN 1 ELSE IF e = "stopped" THEN -1 ELSE 0

LEMMA FlightIsInt == ASSUME NEW boxes \in Boxes PROVE Flight(boxes) \in Int
  BY PostedFinite DEF Flight

LEMMA FlightAfterPost ==
  ASSUME NEW boxes \in Boxes, NEW s \in Stations, NEW x \in Events, NEW after,
         OnlyAt(s, boxes, after), after[s] = Append(boxes[s], x)
  PROVE  Flight(after) = Flight(boxes) + Weight(x)
  <1>2. \A e \in Events : Number(after, e) = Number(boxes, e) + (IF x = e THEN 1 ELSE 0)
    BY NumberAfterPost
  <1>3. Number(boxes, "started") \in Nat /\ Number(boxes, "stopped") \in Nat
    BY PostedFinite
  <1> QED
    BY <1>2, <1>3 DEF Flight, Weight, Events

LEMMA FlightAfterPosts ==
  ASSUME NEW boxes \in Boxes, NEW s \in Stations, NEW x \in Events, NEW y \in Events, NEW after,
         OnlyAt(s, boxes, after), after[s] = Append(Append(boxes[s], x), y)
  PROVE  Flight(after) = Flight(boxes) + Weight(x) + Weight(y)
  <1> DEFINE between == [boxes EXCEPT ![s] = Append(boxes[s], x)]
  <1>1. between \in Boxes
    BY DEF Boxes
  <1>2. between[s] = Append(boxes[s], x) /\ \A t \in Stations : t # s => between[t] = boxes[t]
    BY DEF Boxes
  <1>3. OnlyAt(s, boxes, between) /\ OnlyAt(s, between, after) /\ after[s] = Append(between[s], y)
    BY <1>1, <1>2 DEF OnlyAt
  <1> HIDE DEF between
  <1>4. Flight(between) = Flight(boxes) + Weight(x) /\ Flight(after) = Flight(between) + Weight(y)
    BY <1>1, <1>2, <1>3, FlightAfterPost
  <1> QED
    BY <1>4

LEMMA FlightAfterHandling ==
  ASSUME NEW boxes \in Boxes, NEW s \in Stations, boxes[s] # <<>>, NEW after,
         OnlyAt(s, boxes, after), after[s] = Tail(boxes[s])
  PROVE  Flight(after) = Flight(boxes) - Weight(Head(boxes[s]))
  <1>2. \A e : Number(after, e) = Number(boxes, e) - (IF Head(boxes[s]) = e THEN 1 ELSE 0)
    BY NumberAfterHandling
  <1>3. Number(boxes, "started") \in Nat /\ Number(boxes, "stopped") \in Nat
    BY PostedFinite
  <1> QED
    BY <1>2, <1>3 DEF Flight, Weight

\* Without messages, none is on its way.
LEMMA FlightOfNothing ==
  ASSUME NEW boxes, \A s \in Stations : boxes[s] = <<>>
  PROVE  Flight(boxes) = 0
  <1>1. \A e : PostedIn(boxes, e) = {}
    BY DEF PostedIn
  <1>2. \A e : Number(boxes, e) = 0
    BY <1>1, FS_EmptySet DEF Number
  <1> QED
    BY <1>2 DEF Flight

\* A step of a station posts, or handles, messages of that station.
LEMMA BoxOnly ==
  ASSUME Typed, NEW s \in Stations, LocalStep(s), [Next]_vars
  PROVE  /\ outbox \in Boxes /\ OnlyAt(s, outbox, outbox')
         /\ \A t \in Stations : t # s => (t \in Running' <=> t \in Running)
  <1>1. outbox \in Boxes /\ outbox' \in Boxes
    BY OutboxTyped DEF Typed, AddTypes, Boxes
  <1>2. \A t \in Stations : t # s => Untouched(t)
    BY OthersUntouched DEF Typed, IInv
  <1> QED
    BY <1>1, <1>2 DEF OnlyAt, Untouched, Running, Up

\* The events that count stations change their count, and no other step does.
LEMMA StartedCount ==
  ASSUME Typed, Calm, ~history.overlapped, NEW s \in Stations, LocalStep(s)
  PROVE  IF Event(s) THEN stats'.started = stats.started + Weight(Head(outbox[s]))
                     ELSE stats'.started = stats.started
  <1> USE DEF mainVars, uiVars, stationVars
  <1>0. stats \in StatsRecord
    BY DEF Typed, IInv, BootstrapTypes
  <1>1. CASE Event(s)
    <2>1. CASE Head(outbox[s]) = "added"
      BY <1>1, <2>1, <1>0, Listened DEF EventAdded, Weight, StatsRecord
    <2>2. CASE Head(outbox[s]) = "started"
      BY <1>1, <2>2, <1>0, Listened DEF EventStarted, Weight, StatsRecord
    <2>3. CASE Head(outbox[s]) = "stopped"
      BY <1>1, <2>3, <1>0, Listened DEF EventStopped, Weight, StatsRecord
    <2>4. CASE Head(outbox[s]) = "deleted"
      <3>1. EventDeleted(s)
        BY <1>1, <2>4, Listened
      <3>2. stats'.started = stats.started /\ stats.started \in Int
        BY <1>0, <3>1 DEF EventDeleted, StatsRecord
      <3> QED
        BY <1>1, <2>4, <3>2 DEF Weight
    <2>5. Head(outbox[s]) \in {"added", "started", "stopped", "deleted"}
      BY <1>1, Listened DEF Events
    <2> QED
      BY <2>1, <2>2, <2>3, <2>4, <2>5
  <1>2. ASSUME AddSettles(s) PROVE ~Event(s) /\ stats'.started = stats.started
    <2>1. stats'.started = stats.started
      BY <1>0, <1>2 DEF AddSettles, StatsRecord
    <2>2. ~Event(s)
      <3> SUFFICES ASSUME Event(s) PROVE FALSE
        OBVIOUS
      <3>1. adds[s].state = "answered" /\ adds'[s] = NoAdd /\ adds' = adds
        BY <1>2, WhenSettled, WhenHandled DEF Typed, IInv
      <3> QED
        BY <3>1 DEF NoAdd
    <2> QED
      BY <2>1, <2>2
  <1>3. ASSUME ~Event(s), ~AddSettles(s) PROVE UNCHANGED stats
    BY <1>3 DEF LocalStep, Construct, Response, HandleStart, HandleStop, HandleDelete,
                StationStops, StationStopFails, Crash
  <1> QED
    BY <1>1, <1>2, <1>3

\* A station that Bootstrap loses track of is noted, and stays noted.
LEMMA Drifting ==
  ASSUME Typed, NEW s \in Stations, LocalStep(s)
  PROVE  /\ history.drifted => history'.drifted
         /\ Crash(s) \/ HandleDelete(s) => (s \in Running => history'.drifted)
  <1> USE DEF mainVars, uiVars, stationVars
  <1>0. history \in [overlapped : BOOLEAN, raced : BOOLEAN, drifted : BOOLEAN, stuck : BOOLEAN]
    BY DEF Typed, IInv, BootstrapTypes
  <1>1. CASE Crash(s) \/ HandleDelete(s)
    <2>1. NoteIf(s \in Running, "drifted")
      BY <1>1 DEF Crash, HandleDelete
    <2> QED
      BY <1>0, <2>1 DEF NoteIf
  <1>2. CASE StationStopFails(s) /\ ~(Crash(s) \/ HandleDelete(s))
    BY <1>0, <1>2 DEF StationStopFails, Note
  <1>3. CASE ~(Crash(s) \/ HandleDelete(s) \/ StationStopFails(s))
    BY <1>3 DEF LocalStep, Construct, AddSettles, Event, Response, HandleStart, HandleStop, StationStops
  <1> QED
    BY <1>1, <1>2, <1>3

(***************************************************************************)
(* What a step of a station does to the starts and stops on their way and  *)
(* to the running stations: it handles a message, or nothing changes, or a *)
(* station that runs is lost, or one starts, or one stops.                 *)
(***************************************************************************)
LEMMA FlightOfStep ==
  ASSUME Typed, Tellings, NEW s \in Stations, LocalStep(s), [Next]_vars
  PROVE  IF Event(s)
         THEN /\ outbox[s] # <<>> /\ (s \in Running' <=> s \in Running)
              /\ Flight(outbox') = Flight(outbox) - Weight(Head(outbox[s]))
         ELSE \/ Flight(outbox') = Flight(outbox) /\ (s \in Running' <=> s \in Running)
              \/ /\ Flight(outbox') = Flight(outbox) /\ history'.drifted
                 /\ s \in Running /\ s \notin Running'
              \/ Flight(outbox') = Flight(outbox) + 1 /\ s \notin Running /\ s \in Running'
              \/ Flight(outbox') = Flight(outbox) - 1 /\ s \in Running /\ s \notin Running'
  <1>0. /\ StationTypes /\ AddTypes /\ Told(s) /\ outbox[s] \in Seq(Events)
        /\ outbox \in Boxes /\ OnlyAt(s, outbox, outbox') /\ Flight(outbox) \in Int
    BY BoxOnly, FlightIsInt DEF Typed, IInv, AddTypes, Tellings
  <1>1. /\ s \in Running <=> station[s].phase = "up" /\ station[s].run # "off"
        /\ s \in Running' <=> station'[s].phase = "up" /\ station'[s].run # "off"
    BY DEF Running, Up
  <1>2. Events = {"added", "started", "stopped", "deleted", "response"}
    BY DEF Events
  <1>3. /\ Weight("added") = 0 /\ Weight("deleted") = 0 /\ Weight("response") = 0
        /\ Weight("started") = 1 /\ Weight("stopped") = -1
    BY DEF Weight
  <1>4. outbox' = outbox => Flight(outbox') = Flight(outbox)
    OBVIOUS
  <1>5. outbox'[s] = outbox[s] => outbox' = outbox
    BY <1>0 DEF OnlyAt, Boxes
  <1>6. CASE Event(s)
    BY <1>0, <1>1, <1>6, WhenHandled, FlightAfterHandling
  <1> SUFFICES ASSUME ~Event(s)
               PROVE  \/ Flight(outbox') = Flight(outbox) /\ (s \in Running' <=> s \in Running)
                      \/ /\ Flight(outbox') = Flight(outbox) /\ history'.drifted
                         /\ s \in Running /\ s \notin Running'
                      \/ Flight(outbox') = Flight(outbox) + 1 /\ s \notin Running /\ s \in Running'
                      \/ Flight(outbox') = Flight(outbox) - 1 /\ s \in Running /\ s \notin Running'
    BY <1>6
  <1>7. CASE Response(s)
    <2>1. Flight(outbox') = Flight(outbox) - Weight("response")
      BY <1>0, <1>7, WhenHandled, FlightAfterHandling
    <2> QED
      BY <1>0, <1>1, <1>3, <1>7, <2>1, WhenHandled
  <1>8. CASE AddSettles(s)
    BY <1>0, <1>1, <1>4, <1>8, WhenSettled
  <1>9. CASE Construct(s)
    <2>1. outbox[s] = <<>> /\ s \notin Running
      BY <1>0, <1>1, <1>9, WhenConstructed DEF Told, Answerable
    <2>2. CASE station'[s].run = "on" /\ outbox'[s] = <<"added", "started", "response">>
      <3> DEFINE mid == [outbox EXCEPT ![s] = Append(Append(outbox[s], "added"), "started")]
      <3>1. Append(Append(outbox[s], "added"), "started") \in Seq(Events)
        BY <1>0, <1>2
      <3>2. /\ mid \in Boxes /\ mid[s] = Append(Append(outbox[s], "added"), "started")
            /\ \A t \in Stations : t # s => mid[t] = outbox[t]
        BY <1>0, <3>1 DEF Boxes
      <3>3. outbox'[s] = Append(mid[s], "response")
        BY <2>1, <2>2, <3>2
      <3>4. OnlyAt(s, outbox, mid) /\ OnlyAt(s, mid, outbox')
        BY <1>0, <3>2 DEF OnlyAt
      <3> HIDE DEF mid
      <3>5. Flight(mid) = Flight(outbox) + Weight("added") + Weight("started")
        BY <1>0, <1>2, <3>2, <3>4, FlightAfterPosts
      <3>6. Flight(outbox') = Flight(mid) + Weight("response")
        BY <1>2, <3>2, <3>3, <3>4, FlightAfterPost
      <3>7. s \in Running'
        BY <1>0, <1>1, <1>9, <2>2, WhenConstructed
      <3>8. Flight(outbox') = Flight(outbox) + 1
        BY <1>0, <1>3, <3>5, <3>6
      <3> QED
        BY <2>1, <3>7, <3>8
    <2>3. CASE station'[s].run = "off" /\ outbox'[s] = <<"added", "response">>
      <3>1. outbox'[s] = Append(Append(outbox[s], "added"), "response")
        BY <2>1, <2>3
      <3>2. Flight(outbox') = Flight(outbox) + Weight("added") + Weight("response")
        BY <1>0, <1>2, <3>1, FlightAfterPosts
      <3> QED
        BY <1>0, <1>1, <1>3, <2>1, <2>3, <3>2
    <2> QED
      BY <1>0, <1>9, <2>2, <2>3, WhenConstructed
  <1>10. CASE HandleStart(s)
    <2>1. CASE station[s].phase = "up"
      <3>1. Flight(outbox') = Flight(outbox) + Weight("started")
        BY <1>0, <1>2, <1>10, <2>1, WhenStarted, FlightAfterPost
      <3>2. s \notin Running /\ s \in Running'
        BY <1>0, <1>1, <1>10, <2>1, WhenStarted
      <3> QED
        BY <1>3, <3>1, <3>2
    <2>2. CASE station[s].phase # "up"
      BY <1>0, <1>1, <1>4, <1>5, <1>10, <2>2, WhenStarted
    <2> QED
      BY <2>1, <2>2
  <1>11. CASE HandleStop(s)
    BY <1>0, <1>1, <1>4, <1>11, WhenToldToStop
  <1>12. CASE HandleDelete(s)
    <2>1. Flight(outbox') = Flight(outbox)
      <3>1. CASE station[s].phase = "up"
        <4>1. Flight(outbox') = Flight(outbox) + Weight("deleted")
          BY <1>0, <1>2, <1>12, <3>1, WhenDeleted, FlightAfterPost
        <4> QED
          BY <1>0, <1>3, <4>1
      <3>2. CASE station[s].phase # "up"
        BY <1>0, <1>4, <1>5, <1>12, <3>2, WhenDeleted
      <3> QED
        BY <3>1, <3>2
    <2>2. s \notin Running'
      BY <1>0, <1>1, <1>12, WhenDeleted
    <2> QED
      BY <1>12, <2>1, <2>2, Drifting
  <1>13. CASE StationStops(s)
    <2>1. station[s].run = "stopping" /\ station'[s].run = "off" /\ s \notin Running'
      BY <1>0, <1>1, <1>13, WhenStopped DEF Typed, Carriers, Carries
    <2>2. CASE station[s].phase = "up"
      <3>1. \/ outbox'[s] = Append(outbox[s], "stopped")
            \/ outbox'[s] = Append(Append(outbox[s], "stopped"), "deleted")
        BY <1>0, <1>13, <2>2, WhenStopped
      <3>2. \/ Flight(outbox') = Flight(outbox) + Weight("stopped")
            \/ Flight(outbox') = Flight(outbox) + Weight("stopped") + Weight("deleted")
        BY <1>0, <1>2, <3>1, FlightAfterPost, FlightAfterPosts
      <3>3. Flight(outbox') = Flight(outbox) - 1
        BY <1>0, <1>3, <3>2
      <3> QED
        BY <1>1, <2>1, <2>2, <3>3
    <2>3. CASE station[s].phase # "up"
      BY <1>0, <1>1, <1>4, <1>5, <1>13, <2>1, <2>3, WhenStopped
    <2> QED
      BY <2>2, <2>3
  <1>14. CASE StationStopFails(s)
    BY <1>0, <1>1, <1>4, <1>14, WhenStopFailed
  <1>15. CASE Crash(s)
    <2>1. s \notin Running' /\ outbox' = outbox
      BY <1>0, <1>1, <1>15, WhenCrashed, Records
    <2> QED
      BY <1>4, <1>15, <2>1, Drifting
  <1> QED
    BY <1>7, <1>8, <1>9, <1>10, <1>11, <1>12, <1>13, <1>14, <1>15 DEF LocalStep

\* The stations that count as started when their messages are handled in order:
\* the next start or stop to be heard is a stop, or there is none and it runs.
CountedOn == {s \in Stations : \/ FirstRun(outbox[s], "stopped")
                               \/ NoRuns(outbox[s]) /\ s \in Running}

\* Only a start that is handled makes a station count as started, and a stop
\* that is handled is that of a station that does.
LEMMA CountedOnOfStep ==
  ASSUME Typed, Tellings, NEW s \in Stations, LocalStep(s), [Next]_vars
  PROVE  /\ s \in CountedOn' => s \in CountedOn \/ (Event(s) /\ Head(outbox[s]) = "started")
         /\ Event(s) /\ Head(outbox[s]) = "stopped" => s \in CountedOn /\ s \notin CountedOn'
  <1> DEFINE q == outbox[s]
             r == outbox'[s]
  <1>0. /\ StationTypes /\ AddTypes /\ Told(s) /\ q \in Seq(Events) /\ Alternates(q)
        /\ s \in Running /\ ~NoRuns(q) => LastRun(q, "started")
    <2>1. StationTypes /\ AddTypes /\ Told(s)
      BY DEF Typed, IInv, Tellings
    <2>2. q \in Seq(Events) /\ Alternates(q)
      BY <2>1 DEF AddTypes, Told, Reports
    <2>3. s \in Running => station[s].phase = "up" /\ RunEvent(s) = "started"
      BY DEF Running, Up, RunEvent
    <2>4. s \in Running /\ ~NoRuns(q) => LastRun(q, "started")
      BY <2>1, <2>3 DEF Told, Reports
    <2> QED
      BY <2>1, <2>2, <2>4
  <1>1. /\ s \in Running <=> station[s].phase = "up" /\ station[s].run # "off"
        /\ s \in Running' <=> station'[s].phase = "up" /\ station'[s].run # "off"
        /\ s \in CountedOn <=> FirstRun(q, "stopped") \/ (NoRuns(q) /\ s \in Running)
        /\ s \in CountedOn' <=> FirstRun(r, "stopped") \/ (NoRuns(r) /\ s \in Running')
    <2>1. /\ s \in Running <=> station[s].phase = "up" /\ station[s].run # "off"
          /\ s \in Running' <=> station'[s].phase = "up" /\ station'[s].run # "off"
      BY DEF Running, Up
    <2>2. s \in CountedOn <=> FirstRun(q, "stopped") \/ (NoRuns(q) /\ s \in Running)
      BY DEF CountedOn
    <2>3. s \in CountedOn' <=> FirstRun(r, "stopped") \/ (NoRuns(r) /\ s \in Running')
      BY DEF CountedOn
    <2> QED
      BY <2>1, <2>2, <2>3
  <1>2. /\ "started" \in RunEvents /\ "stopped" \in RunEvents
        /\ RunEvents \subseteq Events /\ RunEvents = {"started", "stopped"}
        /\ "deleted" \in Events /\ "deleted" \notin RunEvents /\ "response" \notin RunEvents
    BY DEF RunEvents, Events
  <1> HIDE DEF q, r
  <1>3. CASE Event(s) \/ Response(s)
    <2>1. /\ q # <<>> /\ r = Tail(q) /\ (s \in Running' <=> s \in Running)
          /\ Head(q) = Head(outbox[s]) /\ (Response(s) => Head(q) = "response")
      BY <1>0, <1>1, <1>3, WhenHandled DEF q, r
    <2>2. CASE Head(q) \notin RunEvents
      <3>1. (NoRuns(r) <=> NoRuns(q)) /\ (FirstRun(r, "stopped") <=> FirstRun(q, "stopped"))
        BY <1>0, <1>2, <2>1, <2>2, RestOfOther
      <3> QED
        BY <1>1, <1>2, <2>1, <2>2, <3>1
    <2>3. CASE Head(q) = "started"
      <3>1. Event(s)
        BY <1>3, <2>1, <2>3
      <3> QED
        BY <2>1, <2>3, <3>1
    <2>4. CASE Head(q) = "stopped"
      <3>1. /\ FirstRun(q, "stopped") /\ ~NoRuns(q) /\ ~FirstRun(r, "stopped")
            /\ NoRuns(r) => ~LastRun(q, "started")
        BY <1>0, <1>2, <2>1, <2>4, RestOfRun
      <3>2. s \in CountedOn /\ s \notin CountedOn'
        BY <1>0, <1>1, <2>1, <3>1
      <3> QED
        BY <2>1, <2>4, <3>2
    <2> QED
      BY <1>2, <2>2, <2>3, <2>4
  <1> SUFFICES ASSUME ~Event(s) PROVE s \in CountedOn' => s \in CountedOn
    BY <1>3
  <1>4. CASE r = q /\ (s \in Running' => s \in Running)
    BY <1>1, <1>4
  <1>5. CASE Construct(s)
    <2>1. r \in {<<"added", "started", "response">>, <<"added", "response">>}
      BY <1>0, <1>5, WhenConstructed DEF r
    <2>2. /\ ~FirstRun(r, "stopped")
          /\ r = <<"added", "started", "response">> => ~NoRuns(r)
      BY <2>1, FirstPosts
    <2>3. r = <<"added", "response">> => s \notin Running'
      <3>1. \/ station'[s].run = "on" /\ r = <<"added", "started", "response">>
            \/ station'[s].run = "off"
        BY <1>0, <1>5, WhenConstructed DEF r
      <3>2. <<"added", "started", "response">> # <<"added", "response">>
        OBVIOUS
      <3> QED
        BY <1>1, <3>1, <3>2
    <2> QED
      BY <1>1, <2>1, <2>2, <2>3
  <1>6. CASE HandleStart(s)
    <2>1. CASE station[s].phase = "up"
      <3>1. r = Append(q, "started") /\ s \notin Running
        BY <1>0, <1>1, <1>6, <2>1, WhenStarted DEF q, r
      <3>2. NoRuns(q) \/ LastRun(q, "stopped")
        BY <1>0, <1>6, <2>1, WhenStarted DEF Told, Reports, RunEvent, q
      <3>3. ~NoRuns(r) /\ (FirstRun(r, "stopped") => FirstRun(q, "stopped"))
        BY <1>0, <1>2, <3>1, <3>2, MoreRun
      <3> QED
        BY <1>1, <3>3
    <2>2. CASE station[s].phase # "up"
      BY <1>0, <1>1, <1>4, <1>6, <2>2, WhenStarted DEF q, r
    <2> QED
      BY <2>1, <2>2
  <1>7. CASE HandleDelete(s)
    <2>1. s \notin Running' /\ (r = q \/ r = Append(q, "deleted"))
      BY <1>0, <1>1, <1>7, WhenDeleted DEF q, r
    <2>2. FirstRun(Append(q, "deleted"), "stopped") <=> FirstRun(q, "stopped")
      BY <1>0, <1>2, MoreOther
    <2> QED
      BY <1>1, <2>1, <2>2
  <1>8. CASE StationStops(s)
    <2>1. station[s].run = "stopping" /\ s \notin Running'
      BY <1>0, <1>1, <1>8, WhenStopped DEF Typed, Carriers, Carries
    <2>2. CASE station[s].phase = "up"
      <3>1. s \in Running /\ (NoRuns(q) \/ LastRun(q, "started"))
        BY <1>0, <1>1, <2>1, <2>2
      <3>2. CASE NoRuns(q)
        BY <1>1, <3>1, <3>2
      <3>3. CASE ~NoRuns(q)
        <4>1. /\ FirstRun(Append(q, "stopped"), "stopped") <=> FirstRun(q, "stopped")
              /\ Append(q, "stopped") \in Seq(Events)
          BY <1>0, <1>2, <3>1, <3>3, MoreRun, More
        <4>2. FirstRun(Append(Append(q, "stopped"), "deleted"), "stopped")
                  <=> FirstRun(Append(q, "stopped"), "stopped")
          BY <1>2, <4>1, MoreOther
        <4>3. r = Append(q, "stopped") \/ r = Append(Append(q, "stopped"), "deleted")
          BY <1>0, <1>8, <2>2, WhenStopped DEF q, r
        <4> QED
          BY <1>1, <2>1, <4>1, <4>2, <4>3
      <3> QED
        BY <3>2, <3>3
    <2>3. CASE station[s].phase # "up"
      BY <1>0, <1>4, <1>8, <2>1, <2>3, WhenStopped DEF q, r
    <2> QED
      BY <2>2, <2>3
  <1>9. CASE AddSettles(s)
    BY <1>0, <1>1, <1>4, <1>9, WhenSettled DEF q, r
  <1>10. CASE HandleStop(s)
    BY <1>0, <1>1, <1>4, <1>10, WhenToldToStop DEF q, r
  <1>11. CASE StationStopFails(s)
    BY <1>0, <1>1, <1>4, <1>11, WhenStopFailed DEF q, r
  <1>12. CASE Crash(s)
    BY <1>0, <1>1, <1>4, <1>12, WhenCrashed, Records DEF q, r
  <1> QED
    BY <1>3, <1>5, <1>6, <1>7, <1>8, <1>9, <1>10, <1>11, <1>12 DEF LocalStep

(***************************************************************************)
(* What makes Counted inductive: that no more stations wait for their stop *)
(* to be heard than are counted as started, for a stop() that ends forgets *)
(* the stops on their way.                                                 *)
(***************************************************************************)
Tally ==
    /\ stats.started + InFlight >= Cardinality(Running)
    /\ history.drifted \/ stats.started + InFlight = Cardinality(Running)
    /\ Cardinality(CountedOn) <= stats.started
Reckoned == history.overlapped \/ Tally

LEMMA InFlightIsFlight == InFlight = Flight(outbox) /\ InFlight' = Flight(outbox')
  BY DEF InFlight, Flight, Number, Posted, PostedIn

LEMMA Numbers ==
    /\ \A S \in SUBSET Stations : IsFiniteSet(S) /\ Cardinality(S) \in Nat
    /\ \A S \in SUBSET Stations, T \in SUBSET Stations :
          S \subseteq T => Cardinality(S) <= Cardinality(T)
    /\ \A S \in SUBSET Stations, s \in Stations :
          /\ s \notin S => Cardinality(S \cup {s}) = Cardinality(S) + 1
          /\ s \in S => Cardinality(S \ {s}) = Cardinality(S) - 1
  <1>1. \A S \in SUBSET Stations : IsFiniteSet(S) /\ Cardinality(S) \in Nat
    BY SimulatorAssumption, FS_Subset, FS_CardinalityType
  <1>2. \A S \in SUBSET Stations, T \in SUBSET Stations :
            S \subseteq T => Cardinality(S) <= Cardinality(T)
    BY <1>1, FS_Subset
  <1>3. \A S \in SUBSET Stations, s \in Stations :
            s \notin S => Cardinality(S \cup {s}) = Cardinality(S) + 1
    BY <1>1, FS_AddElement
  <1>4. \A S \in SUBSET Stations, s \in Stations :
            s \in S => Cardinality(S \ {s}) = Cardinality(S) - 1
    BY <1>1, FS_RemoveElement
  <1> QED
    BY <1>1, <1>2, <1>3, <1>4

\* Nothing is counted anew where the running stations and the messages stay.
LEMMA SameTally ==
  ASSUME Tally, outbox' = outbox, stats'.started = stats.started,
         history.drifted => history'.drifted,
         \A t \in Stations : t \in Running' <=> t \in Running
  PROVE  Tally'
  <1>1. Running' = Running
    <2>1. Running \subseteq Stations /\ Running' \subseteq Stations
      BY DEF Running, Up
    <2> QED
      BY <2>1
  <1>2. CountedOn' = CountedOn /\ InFlight' = InFlight
    BY <1>1, InFlightIsFlight DEF CountedOn
  <1> QED
    BY <1>1, <1>2 DEF Tally

LEMMA LocalTally ==
  ASSUME Typed, Tellings, Calm, ~history.overlapped, Tally,
         NEW s \in Stations, LocalStep(s), [Next]_vars
  PROVE  Tally'
  <1>0. /\ Running \in SUBSET Stations /\ Running' \in SUBSET Stations
        /\ CountedOn \in SUBSET Stations /\ CountedOn' \in SUBSET Stations
        /\ stats.started \in Int /\ Flight(outbox) \in Int
    BY BoxOnly, FlightIsInt DEF Running, Up, CountedOn, Typed, IInv, BootstrapTypes, StatsRecord
  <1>1. /\ OnlyAt(s, outbox, outbox')
        /\ \A t \in Stations : t # s => (t \in Running' <=> t \in Running)
        /\ history.drifted => history'.drifted
    BY BoxOnly, Drifting
  <1>2. \A t \in Stations : t # s => (t \in CountedOn' <=> t \in CountedOn)
    BY <1>1 DEF CountedOn, OnlyAt
  <1>3. /\ Cardinality(Running) \in Nat /\ Cardinality(Running') \in Nat
        /\ Cardinality(CountedOn) \in Nat /\ Cardinality(CountedOn') \in Nat
    BY <1>0, Numbers
  <1>4. /\ stats.started + Flight(outbox) >= Cardinality(Running)
        /\ history.drifted \/ stats.started + Flight(outbox) = Cardinality(Running)
        /\ Cardinality(CountedOn) <= stats.started
    BY InFlightIsFlight DEF Tally
  <1>5. ASSUME stats'.started + Flight(outbox') >= Cardinality(Running'),
               history'.drifted \/ stats'.started + Flight(outbox') = Cardinality(Running'),
               Cardinality(CountedOn') <= stats'.started
        PROVE  Tally'
    BY <1>5, InFlightIsFlight DEF Tally
  <1>6. /\ (s \in Running' <=> s \in Running) => Running' = Running
        /\ s \in Running /\ s \notin Running' => Running' = Running \ {s}
        /\ s \notin Running /\ s \in Running' => Running' = Running \cup {s}
    BY <1>0, <1>1
  <1>7. /\ s \in Running /\ s \notin Running' => Cardinality(Running') = Cardinality(Running) - 1
        /\ s \notin Running /\ s \in Running' => Cardinality(Running') = Cardinality(Running) + 1
    BY <1>0, <1>6, Numbers
  <1>8. /\ (s \in CountedOn' => s \in CountedOn) => Cardinality(CountedOn') <= Cardinality(CountedOn)
        /\ s \in CountedOn /\ s \notin CountedOn' =>
               Cardinality(CountedOn') <= Cardinality(CountedOn) - 1
        /\ Cardinality(CountedOn') <= Cardinality(CountedOn) + 1
    <2>1. (s \in CountedOn' => s \in CountedOn) => CountedOn' \subseteq CountedOn
      BY <1>0, <1>2
    <2>2. s \in CountedOn /\ s \notin CountedOn' => CountedOn' \subseteq CountedOn \ {s}
      BY <1>0, <1>2
    <2>3. CountedOn' \subseteq CountedOn \cup {s} /\ CountedOn \cup {s} \in SUBSET Stations
          /\ CountedOn \ {s} \in SUBSET Stations
      BY <1>0, <1>2
    <2>4. /\ s \notin CountedOn => Cardinality(CountedOn \cup {s}) = Cardinality(CountedOn) + 1
          /\ s \in CountedOn => CountedOn \cup {s} = CountedOn
          /\ s \in CountedOn => Cardinality(CountedOn \ {s}) = Cardinality(CountedOn) - 1
      BY <1>0, Numbers
    <2>5. /\ Cardinality(CountedOn') <= Cardinality(CountedOn \cup {s})
          /\ CountedOn' \subseteq CountedOn => Cardinality(CountedOn') <= Cardinality(CountedOn)
          /\ CountedOn' \subseteq CountedOn \ {s} =>
                Cardinality(CountedOn') <= Cardinality(CountedOn \ {s})
      BY <1>0, <2>3, Numbers
    <2> QED
      BY <1>3, <2>1, <2>2, <2>4, <2>5
  <1>9. CASE Event(s)
    <2>1. /\ stats'.started = stats.started + Weight(Head(outbox[s])) /\ Running' = Running
          /\ Flight(outbox') = Flight(outbox) - Weight(Head(outbox[s]))
      BY <1>6, <1>9, StartedCount, FlightOfStep
    <2>2. Weight(Head(outbox[s])) \in Int
      BY DEF Weight
    <2>3. stats'.started + Flight(outbox') = stats.started + Flight(outbox)
      BY <1>0, <2>1, <2>2
    <2>4. Cardinality(CountedOn') <= stats'.started
      <3>1. CASE Head(outbox[s]) = "started"
        BY <1>0, <1>3, <1>4, <1>8, <2>1, <3>1 DEF Weight
      <3>2. CASE Head(outbox[s]) = "stopped"
        <4>1. s \in CountedOn /\ s \notin CountedOn'
          BY <1>9, <3>2, CountedOnOfStep
        <4> QED
          BY <1>0, <1>3, <1>4, <1>8, <2>1, <3>2, <4>1 DEF Weight
      <3>3. CASE Head(outbox[s]) \notin {"started", "stopped"}
        <4>1. s \in CountedOn' => s \in CountedOn
          BY <3>3, CountedOnOfStep
        <4> QED
          BY <1>0, <1>3, <1>4, <1>8, <2>1, <3>3, <4>1 DEF Weight
      <3> QED
        BY <3>1, <3>2, <3>3
    <2> QED
      BY <1>1, <1>4, <1>5, <2>1, <2>3, <2>4
  <1>10. CASE ~Event(s)
    <2>1. stats'.started = stats.started
      BY <1>10, StartedCount
    <2>2. Cardinality(CountedOn') <= stats'.started
      <3>1. s \in CountedOn' => s \in CountedOn
        BY <1>10, CountedOnOfStep
      <3> QED
        BY <1>0, <1>3, <1>4, <1>8, <2>1, <3>1
    <2>3. CASE Flight(outbox') = Flight(outbox) /\ (s \in Running' <=> s \in Running)
      BY <1>1, <1>4, <1>5, <1>6, <2>1, <2>2, <2>3
    <2>4. CASE /\ Flight(outbox') = Flight(outbox) /\ history'.drifted
               /\ s \in Running /\ s \notin Running'
      <3>1. stats'.started + Flight(outbox') >= Cardinality(Running')
        BY <1>0, <1>3, <1>4, <1>7, <2>1, <2>4
      <3> QED
        BY <1>5, <2>2, <2>4, <3>1
    <2>5. CASE Flight(outbox') = Flight(outbox) + 1 /\ s \notin Running /\ s \in Running'
      <3>1. /\ stats'.started + Flight(outbox') >= Cardinality(Running')
            /\ history'.drifted \/ stats'.started + Flight(outbox') = Cardinality(Running')
        BY <1>0, <1>1, <1>3, <1>4, <1>7, <2>1, <2>5
      <3> QED
        BY <1>5, <2>2, <3>1
    <2>6. CASE Flight(outbox') = Flight(outbox) - 1 /\ s \in Running /\ s \notin Running'
      <3>1. /\ stats'.started + Flight(outbox') >= Cardinality(Running')
            /\ history'.drifted \/ stats'.started + Flight(outbox') = Cardinality(Running')
        BY <1>0, <1>1, <1>3, <1>4, <1>7, <2>1, <2>6
      <3> QED
        BY <1>5, <2>2, <3>1
    <2> QED
      BY <1>10, <2>3, <2>4, <2>5, <2>6, FlightOfStep
  <1> QED
    BY <1>9, <1>10

\* A stop that ends, or a reload of a simulator that does not run, leaves
\* nothing to count, and a count that is not negative.
LEMMA EmptiedTally ==
  ASSUME Typed, Calm, Reckoned, ~history'.overlapped, StopEnds \/ ReloadRefused
  PROVE  Tally'
  <1>0. StationTypes /\ AddTypes /\ BootstrapTypes
    BY DEF Typed, IInv
  <1>1. \A s \in Stations : station'[s].phase = "none" /\ outbox'[s] = <<>>
    BY Emptied
  <1>2. Running' = {}
    BY <1>1 DEF Running, Up
  <1>3. CountedOn' = {}
    <2>1. \A s \in Stations : ~FirstRun(outbox'[s], "stopped")
      BY <1>1, NoPosts
    <2> QED
      BY <1>2, <2>1 DEF CountedOn
  <1>4. InFlight' = 0 /\ Cardinality({}) = 0
    BY <1>1, FlightOfNothing, InFlightIsFlight, FS_EmptySet
  <1>5. stats'.started \in Int /\ stats'.started >= 0 /\ (history'.drifted \/ stats'.started = 0)
    <2>1. CASE stats' = Zero
      BY <2>1 DEF Zero
    <2>2. CASE StopEnds /\ stats' = stats
      <3>1. Tally /\ Current /\ Connected
        BY <2>2, StopOverlap DEF Reckoned, Calm, Typed, IInv
      <3>2. stats.started \in Int /\ stats.started >= 0
        <4>1. CountedOn \in SUBSET Stations
          BY DEF CountedOn
        <4>2. Cardinality(CountedOn) \in Nat
          BY <4>1, Numbers
        <4> QED
          BY <1>0, <3>1, <4>2 DEF Tally, BootstrapTypes, StatsRecord
      <3>3. ASSUME ~history'.drifted PROVE stats.started = 0
        <4>1. /\ history' = [history EXCEPT !["drifted"] = @ \/
                     (\E s \in {t \in Stations : station[t].generation = workers.generation} :
                          s \in Running \/ outbox[s] # <<>>)]
          BY <2>2 DEF StopEnds, NoteIf
        <4>2. /\ ~history.drifted
              /\ \A s \in Stations : station[s].generation = workers.generation =>
                     s \notin Running /\ outbox[s] = <<>>
          BY <1>0, <3>3, <4>1 DEF BootstrapTypes
        <4>3. \A s \in Stations : s \notin Running /\ outbox[s] = <<>>
          BY <3>1, <4>2 DEF Current, Connected, Running, Up
        <4>4. Running = {}
          BY <4>3 DEF Running, Up
        <4>5. InFlight = 0
          BY <4>3, FlightOfNothing, InFlightIsFlight
        <4> QED
          BY <1>4, <3>1, <3>2, <4>2, <4>4, <4>5 DEF Tally
      <3> QED
        BY <2>2, <3>2, <3>3
    <2> QED
      BY <2>1, <2>2 DEF StopEnds, ReloadRefused, Renew
  <1> QED
    BY <1>2, <1>3, <1>4, <1>5 DEF Tally

LEMMA ReckonedKept == ASSUME Typed, Tellings, Calm, Reckoned, [Next]_vars PROVE Reckoned'
  <1>0. StationTypes /\ AddTypes /\ BootstrapTypes
    BY DEF Typed, IInv
  <1> SUFFICES ASSUME ~history'.overlapped PROVE Tally'
    BY DEF Reckoned
  <1>1. CASE StopEnds \/ ReloadRefused
    BY <1>1, EmptiedTally
  <1>2. CASE ~(StopEnds \/ ReloadRefused)
    <2>1. ~history.overlapped /\ Tally
      BY <1>2, SameOverlap DEF Reckoned
    <2>2. ASSUME NEW s \in Stations, LocalStep(s) PROVE Tally'
      BY <2>1, <2>2, LocalTally
    <2>3. ASSUME UNCHANGED <<station, outbox, stats, history>> PROVE Tally'
      <3>1. \A t \in Stations : t \in Running' <=> t \in Running
        BY <2>3 DEF Running, Up
      <3> QED
        BY <2>1, <2>3, <3>1, SameTally
    <2>4. ASSUME NEW s \in Stations, NEW r \in Requests, AddStation(r, s) PROVE Tally'
      <3>1. outbox' = outbox /\ stats' = stats /\ (history.drifted => history'.drifted)
        <4>1. NoteIf(\E t \in Stations : adds[t].by \in Requests, "raced")
          BY <2>4 DEF AddStation
        <4> QED
          BY <1>0, <2>4, <4>1 DEF AddStation, NoteIf, BootstrapTypes
      <3>2. station[s].phase = "none" /\ station'[s].phase = "asked"
        <4>1. station[s].phase = "none" /\ \E i \in Indexes : station'[s] = Asked(i)
          BY <1>0, <2>4, WhenAdded
        <4> QED
          BY <4>1 DEF Asked
      <3>3. \A t \in Stations : t # s => station'[t] = station[t]
        BY <1>0, <2>4, OthersUntouched DEF Untouched
      <3>4. \A t \in Stations : t \in Running' <=> t \in Running
        BY <3>2, <3>3 DEF Running, Up
      <3> QED
        BY <2>1, <3>1, <3>4, SameTally
    <2>5. CASE StartAdds
      <3>1. outbox' = outbox /\ stats' = stats /\ history' = history
        BY <2>5 DEF StartAdds
      <3>2. \A t \in Stations : t \in Running' <=> t \in Running
        <4> TAKE t \in Stations
        <4>1. CASE Untouched(t)
          BY <4>1 DEF Untouched, Running, Up
        <4>2. CASE ~Untouched(t)
          <5>1. station[t].phase = "none" /\ \E i : station'[t] = Asked(i)
            BY <2>5, <4>2, StartAddsTo
          <5> QED
            BY <5>1 DEF Asked, Running, Up
        <4> QED
          BY <4>1, <4>2
      <3> QED
        BY <2>1, <3>1, <3>2, SameTally
    <2> QED
      BY <1>2, <2>2, <2>3, <2>4, <2>5, Kinds
  <1> QED
    BY <1>1, <1>2

LEMMA InitReckoned == Init => Reckoned
  <1> SUFFICES ASSUME Init PROVE Tally
    BY DEF Reckoned
  <1>1. Running = {}
    BY DEF Init, Running, Up, NoStation
  <1>2. \A s \in Stations : outbox[s] = <<>>
    BY DEF Init
  <1>3. CountedOn = {}
    <2>1. \A s \in Stations : ~FirstRun(outbox[s], "stopped")
      BY <1>2, NoPosts
    <2> QED
      BY <1>1, <2>1 DEF CountedOn
  <1>4. InFlight = 0 /\ Cardinality({}) = 0 /\ stats.started = 0
    BY <1>2, FlightOfNothing, InFlightIsFlight, FS_EmptySet DEF Init, Zero
  <1> QED
    BY <1>1, <1>3, <1>4 DEF Tally

(***************************************************************************)
(* With the starts and stops on their way, Bootstrap never counts fewer    *)
(* stations as started than run, and exactly those unless a station was    *)
(* lost with its worker or deleted while it stopped: for any number of     *)
(* stations and clients.                                                   *)
(***************************************************************************)
THEOREM StartedAreCounted == Spec => []Counted
  <1>1. Init => Fleet /\ Reckoned
    BY InitFleet, InitReckoned
  <1>2. Fleet /\ Reckoned /\ [Next]_vars => (Fleet /\ Reckoned)'
    BY NextFleet, ReckonedKept DEF Fleet
  <1>3. Reckoned => Counted
    BY DEF Reckoned, Tally, Counted
  <1> QED
    BY <1>1, <1>2, <1>3, PTL DEF Spec

-----------------------------------------------------------------------------
(* The stops that stop() awaits *)

HasInternal(q) == \E i \in 1 .. Len(q) : q[i].request = Internal
OnlyStops(q) == \A i \in 1 .. Len(q) : q[i].request = Internal => q[i].command = "stop"

\* stop() sends nothing but stops, and a station that stops has who waits for it.
InternalStops == \A s \in Stations : OnlyStops(inbox[s])
Stoppers == \A s \in Stations : station[s].run = "stopping" => station[s].waiter # Nobody

Clear == ~history.overlapped /\ ~history.raced /\ ~history.drifted /\ ~history.stuck
Stops(boxes) == Number(boxes, "stopped")
Expectable == stop.step = "waiting" => stop.awaited <= Cardinality(Committed) + Stops(outbox)
Assured == Clear => Stoppers /\ Expectable

\* What happened is not forgotten.
LEMMA ClearBefore ==
  ASSUME Typed, [Next]_vars, Clear'
  PROVE  Clear
  <1> USE DEF mainVars, uiVars, stationVars
  <1>0. history \in [overlapped : BOOLEAN, raced : BOOLEAN, drifted : BOOLEAN, stuck : BOOLEAN]
    BY DEF Typed, IInv, BootstrapTypes
  <1>1. history' = history => Clear
    BY DEF Clear
  <1>2. ASSUME NEW event \in {"overlapped", "raced", "drifted", "stuck"}, NEW condition \in BOOLEAN,
               NoteIf(condition, event)
        PROVE  Clear
    BY <1>0, <1>2 DEF NoteIf, Clear
  <1>3. ~Note("stuck")
    BY <1>0 DEF Note, Clear
  <1>4. ASSUME NEW s \in Stations, LocalStep(s) \/ HandleIdle(s) PROVE Clear
    <2>1. NoteIf(s \in Running, "drifted") \/ Note("stuck") \/ history' = history
      BY <1>4 DEF LocalStep, Construct, AddSettles, Event, Response, HandleStart, HandleStop,
                  HandleDelete, StationStops, StationStopFails, Crash, HandleIdle
    <2>2. (s \in Running) \in BOOLEAN
      OBVIOUS
    <2> QED
      BY <1>1, <1>2, <1>3, <2>1, <2>2
  <1>5. ASSUME NEW r \in Requests, NEW s \in Stations, AddStation(r, s) \/ Gather(r, s) PROVE Clear
    <2>1. NoteIf(\E t \in Stations : adds[t].by \in Requests, "raced") \/ history' = history
      BY <1>5 DEF AddStation, Gather
    <2>2. (\E t \in Stations : adds[t].by \in Requests) \in BOOLEAN
      OBVIOUS
    <2> QED
      BY <1>1, <1>2, <2>1, <2>2
  <1>6. ASSUME NEW r \in Requests, NEW command \in Commands, NEW ids \in SUBSET known,
               Broadcast(r, command, ids)
        PROVE  Clear
    BY <1>1, <1>6 DEF Broadcast
  <1>7. CASE StopEnds
    <2>1. NoteIf(\E s \in {t \in Stations : station[t].generation = workers.generation} :
                      s \in Running \/ outbox[s] # <<>>, "drifted")
      BY <1>7 DEF StopEnds
    <2>2. (\E s \in {t \in Stations : station[t].generation = workers.generation} :
                      s \in Running \/ outbox[s] # <<>>) \in BOOLEAN
      OBVIOUS
    <2> QED
      BY <1>2, <2>1, <2>2
  <1>8. CASE ReloadRefused
    <2>1. NoteIf(flags.starting \/ flags.stopping, "overlapped")
      BY <1>8 DEF ReloadRefused
    <2>2. (flags.starting \/ flags.stopping) \in BOOLEAN
      OBVIOUS
    <2> QED
      BY <1>2, <2>1, <2>2
  <1>9. CASE StartSimulator \/ StartAdds \/ StartEnds \/ StopSimulator \/ StopTimesOut \/ ReloadStops
             \/ UNCHANGED vars
    BY <1>1, <1>9 DEF StartSimulator, StartAdds, StartEnds, StopSimulator, StopTimesOut, ReloadStops, vars
  <1> QED
    BY <1>4, <1>5, <1>6, <1>7, <1>8, <1>9 DEF Next, LocalStep

\* Commands that are left when the first one is taken, or one more is sent.
LEMMA Taking ==
  ASSUME NEW q \in Seq(Message), q # <<>>
  PROVE  /\ OnlyStops(q) => OnlyStops(Tail(q))
         /\ HasInternal(q) => HasInternal(Tail(q)) \/ Head(q).request = Internal
         /\ OnlyStops(q) /\ Head(q).request = Internal => Head(q).command = "stop"
  <1>1. Len(q) \in Nat \ {0} /\ Head(q) = q[1] /\ Len(Tail(q)) = Len(q) - 1
    OBVIOUS
  <1>2. \A i \in 1 .. Len(q) - 1 : Tail(q)[i] = q[i + 1]
    OBVIOUS
  <1>3. \A i \in 1 .. Len(q) : i # 1 => i - 1 \in 1 .. Len(q) - 1 /\ q[(i - 1) + 1] = q[i]
    BY <1>1
  <1> QED
    BY <1>1, <1>2, <1>3 DEF OnlyStops, HasInternal

LEMMA Sending ==
  ASSUME NEW q \in Seq(Message), NEW m \in Message
  PROVE  /\ OnlyStops(q) /\ (m.request = Internal => m.command = "stop") => OnlyStops(Append(q, m))
         /\ HasInternal(q) \/ m.request = Internal => HasInternal(Append(q, m))
  <1>1. Len(q) \in Nat /\ Len(Append(q, m)) = Len(q) + 1 /\ Append(q, m)[Len(q) + 1] = m
    OBVIOUS
  <1>2. \A i \in 1 .. Len(q) : Append(q, m)[i] = q[i]
    OBVIOUS
  <1>3. \A i \in 1 .. Len(Append(q, m)) : i \in 1 .. Len(q) \/ i = Len(q) + 1
    BY <1>1
  <1> QED
    BY <1>1, <1>2, <1>3 DEF OnlyStops, HasInternal

\* What a step does to the commands a station has not handled yet.
LEMMA InboxOfStep ==
  ASSUME Typed, [Next]_vars, NEW s \in Stations
  PROVE  \/ inbox'[s] = inbox[s] \/ inbox'[s] = <<>>
         \/ inbox[s] # <<>> /\ inbox'[s] = Tail(inbox[s])
         \/ \E m \in Message : /\ inbox'[s] = Append(inbox[s], m)
                               /\ m.request = Internal => m.command = "stop"
  <1> USE DEF mainVars, uiVars, stationVars
  <1>0. inbox \in [Stations -> Seq(Message)]
    BY DEF Typed, IInv, StationTypes
  <1>1. CASE UNCHANGED inbox
    BY <1>1
  <1>2. ASSUME NEW t \in Stations,
               HandleIdle(t) \/ HandleStart(t) \/ HandleStop(t) \/ HandleDelete(t)
        PROVE  inbox'[s] = inbox[s] \/ (inbox[s] # <<>> /\ inbox'[s] = Tail(inbox[s]))
    <2>1. inbox[t] # <<>> /\ inbox' = [inbox EXCEPT ![t] = Tail(@)]
      BY <1>2 DEF HandleIdle, HandleStart, HandleStop, HandleDelete, Consume
    <2> QED
      BY <1>0, <2>1
  <1>3. ASSUME NEW t \in Stations, Crash(t) PROVE inbox'[s] = inbox[s] \/ inbox'[s] = <<>>
    BY <1>0, <1>3 DEF Crash
  <1>4. CASE StopEnds
    BY <1>4 DEF StopEnds
  <1>5. ASSUME NEW ss, NEW m \in Message, Tell(ss, m), m.request = Internal => m.command = "stop"
        PROVE  \/ inbox'[s] = inbox[s]
               \/ \E n \in Message : /\ inbox'[s] = Append(inbox[s], n)
                                     /\ n.request = Internal => n.command = "stop"
    BY <1>5 DEF Tell
  <1>6. CASE StopSimulator \/ ReloadStops
    <2>1. \E ss : Tell(ss, StopCommand)
      BY <1>6 DEF StopSimulator, ReloadStops, BeginStop
    <2>2. StopCommand \in Message /\ StopCommand.command = "stop"
      BY DEF StopCommand, Message, Commands, Internal
    <2> QED
      BY <1>5, <2>1, <2>2
  <1>7. ASSUME NEW r \in Requests, NEW command \in Commands, NEW ids \in SUBSET known,
               Broadcast(r, command, ids)
        PROVE  \/ inbox'[s] = inbox[s]
               \/ \E n \in Message : /\ inbox'[s] = Append(inbox[s], n)
                                     /\ n.request = Internal => n.command = "stop"
    <2> DEFINE m == [request |-> r, command |-> command]
    <2>1. m \in Message /\ m.request # Internal
      BY SimulatorAssumption DEF Message, Internal
    <2>2. Tell(Addressed(ids), m)
      BY <1>7 DEF Broadcast
    <2> HIDE DEF m
    <2> QED
      BY <1>5, <2>1, <2>2
  <1> QED
    BY <1>1, <1>2, <1>3, <1>4, <1>6, <1>7 DEF Next, vars, StartSimulator, StartAdds, StartEnds,
       StopTimesOut, ReloadRefused, Construct, AddSettles, Event, Response, StationStops,
       StationStopFails, AddStation, Gather

LEMMA InternalStopsKept == ASSUME Typed, InternalStops, [Next]_vars PROVE InternalStops'
  <1> SUFFICES ASSUME NEW s \in Stations PROVE OnlyStops(inbox'[s])
    BY DEF InternalStops
  <1>1. inbox[s] \in Seq(Message) /\ OnlyStops(inbox[s])
    BY DEF InternalStops, Typed, IInv, StationTypes
  <1>2. OnlyStops(<<>>)
    BY DEF OnlyStops
  <1> QED
    BY <1>1, <1>2, InboxOfStep, Taking, Sending

\* A station that stops keeps who waits for it, unless its stop failed.
LEMMA StoppersKept ==
  ASSUME Typed, Stoppers, Clear', [Next]_vars
  PROVE  Stoppers'
  <1> USE DEF SameStation
  <1>0. StationTypes /\ AddTypes /\ BootstrapTypes
    BY DEF Typed, IInv
  <1> SUFFICES ASSUME NEW s \in Stations, station'[s].run = "stopping"
               PROVE  station'[s].waiter # Nobody
    BY DEF Stoppers
  <1>1. station[s].run = "stopping" => station[s].waiter # Nobody
    BY DEF Stoppers
  <1>2. CASE station'[s] = station[s]
    BY <1>1, <1>2
  <1>3. CASE LocalStep(s)
    <2>1. \A m \in Message : m # Nobody
      BY SimulatorAssumption DEF Message, Nobody, Internal
    <2>2. ~StationStopFails(s)
      BY <1>0 DEF StationStopFails, Note, BootstrapTypes, Clear
    <2>3. CASE HandleStop(s)
      BY <1>0, <2>1, <2>3, WhenToldToStop
    <2>4. CASE Construct(s) \/ StationStops(s) \/ HandleStart(s)
      BY <1>0, <2>4, WhenConstructed, WhenStopped, WhenStarted
    <2>5. CASE HandleDelete(s)
      BY <1>0, <1>1, <2>5, WhenDeleted
    <2>6. CASE Crash(s)
      BY <1>0, <2>6, WhenCrashed, Records
    <2>7. CASE AddSettles(s) \/ Event(s) \/ Response(s)
      BY <1>0, <1>2, <2>7, WhenSettled, WhenHandled
    <2> QED
      BY <1>3, <2>2, <2>3, <2>4, <2>5, <2>6, <2>7 DEF LocalStep
  <1>4. CASE \E i : station'[s] = Asked(i)
    BY <1>4 DEF Asked
  <1>5. CASE StopEnds
    BY <1>0, <1>2, <1>5, StopEndsOf, Records DEF Untouched
  <1>6. CASE StartAdds
    <2>1. station'[s] = station[s] \/ \E i : station'[s] = Asked(i)
      BY <1>6, StartAddsTo DEF Untouched
    <2> QED
      BY <1>2, <1>4, <2>1
  <1>7. ASSUME NEW t \in Stations, t # s, LocalStep(t) \/ \E r \in Requests : AddStation(r, t)
        PROVE  station'[s] = station[s]
    BY <1>0, <1>7, OthersUntouched DEF Untouched
  <1>8. ASSUME NEW r \in Requests, AddStation(r, s) PROVE \E i : station'[s] = Asked(i)
    BY <1>0, <1>8, WhenAdded
  <1> QED
    BY <1>2, <1>3, <1>4, <1>5, <1>6, <1>7, <1>8, Kinds

\* Messages that stay where they are stay counted.
LEMMA NumberGrows ==
  ASSUME NEW boxes \in Boxes, NEW s \in Stations, NEW new, OnlyAt(s, boxes, new), NEW e,
         \A i \in 1 .. Len(boxes[s]) : i \in 1 .. Len(new[s]) /\ new[s][i] = boxes[s][i]
  PROVE  Number(new, e) >= Number(boxes, e)
  <1>1. new \in Boxes
    BY DEF OnlyAt
  <1>2. PostedIn(boxes, e) \subseteq PostedIn(new, e)
    <2> SUFFICES ASSUME NEW p \in PostedIn(boxes, e) PROVE p \in PostedIn(new, e)
      OBVIOUS
    <2>1. PICK t \in Stations, i \in Nat : p = <<t, i>>
      BY PostedPlaces
    <2>2. i \in 1 .. Len(boxes[t]) /\ boxes[t][i] = e
      BY <2>1, PostedPlaces
    <2>3. i \in 1 .. Len(new[t]) /\ new[t][i] = e
      BY <2>2 DEF OnlyAt
    <2> QED
      BY <1>1, <2>1, <2>3, PostedPlaces
  <1> QED
    BY <1>1, <1>2, PostedFinite, FS_Subset, FS_CardinalityType DEF Number

\* Who is committed to stop.
LEMMA Commitment ==
  ASSUME Typed, Typed', NEW s \in Stations
  PROVE  /\ s \in Committed <=> s \in Running /\ (station[s].waiter # Nobody \/ HasInternal(inbox[s]))
         /\ s \in Committed' <=>
               s \in Running' /\ (station'[s].waiter # Nobody \/ HasInternal(inbox'[s]))
         /\ s \in Running <=> station[s].phase = "up" /\ station[s].run # "off"
         /\ s \in Running' <=> station'[s].phase = "up" /\ station'[s].run # "off"
  <1>1. inbox[s] \in Seq(Message) /\ inbox'[s] \in Seq(Message)
    BY DEF Typed, IInv, StationTypes
  <1>2. DOMAIN inbox[s] = 1 .. Len(inbox[s]) /\ DOMAIN inbox'[s] = 1 .. Len(inbox'[s])
    BY <1>1
  <1>3. /\ s \in Running <=> station[s].phase = "up" /\ station[s].run # "off"
        /\ s \in Running' <=> station'[s].phase = "up" /\ station'[s].run # "off"
    BY DEF Running, Up
  <1>4. s \in Committed <=> s \in Running /\ (station[s].waiter # Nobody \/ HasInternal(inbox[s]))
    BY <1>2 DEF Committed, HasInternal
  <1>5. s \in Committed' <=>
            s \in Running' /\ (station'[s].waiter # Nobody \/ HasInternal(inbox'[s]))
    BY <1>2 DEF Committed, HasInternal
  <1> QED
    BY <1>3, <1>4, <1>5

(***************************************************************************)
(* A step of a station that handles no event takes no stop back: a station *)
(* that is no longer committed has posted its stop.                        *)
(***************************************************************************)
LEMMA CommittedOfStep ==
  ASSUME Typed, Typed', Tellings, InternalStops, Stoppers, Clear', NEW s \in Stations,
         LocalStep(s) \/ HandleIdle(s), [Next]_vars, ~Event(s)
  PROVE  /\ s \in Committed => s \in Committed' \/ Stops(outbox') >= Stops(outbox) + 1
         /\ Stops(outbox') >= Stops(outbox)
  <1> DEFINE q == outbox[s]
             r == outbox'[s]
             N == Stops(outbox)
             M == Stops(outbox')
  <1>0. /\ StationTypes /\ AddTypes /\ BootstrapTypes /\ q \in Seq(Events) /\ Told(s)
        /\ outbox \in Boxes /\ outbox' \in Boxes /\ N \in Nat /\ M \in Nat
    <2>1. outbox \in Boxes /\ outbox' \in Boxes
      BY DEF Typed, AddTypes, Boxes
    <2>2. N \in Nat /\ M \in Nat
      BY <2>1, PostedFinite DEF Stops
    <2> QED
      BY <2>1, <2>2 DEF Typed, IInv, AddTypes, Tellings
  <1>1. /\ s \in Committed <=> s \in Running /\ (station[s].waiter # Nobody \/ HasInternal(inbox[s]))
        /\ s \in Committed' <=> s \in Running' /\ (station'[s].waiter # Nobody \/ HasInternal(inbox'[s]))
        /\ s \in Running <=> station[s].phase = "up" /\ station[s].run # "off"
        /\ s \in Running' <=> station'[s].phase = "up" /\ station'[s].run # "off"
    BY Commitment
  <1>2. "started" \in Events /\ "stopped" \in Events /\ "deleted" \in Events /\ "response" \in Events
    BY DEF Events
  <1>3. outbox' = outbox => M >= N
    BY <1>0
  <1>4. LocalStep(s) => OnlyAt(s, outbox, outbox')
    BY BoxOnly
  <1> HIDE DEF q, r, N, M
  <1>5. LocalStep(s) /\ (\A i \in 1 .. Len(q) : i \in 1 .. Len(r) /\ r[i] = q[i]) => M >= N
    BY <1>0, <1>4, NumberGrows DEF Stops, N, M, q, r
  <1>6. LocalStep(s) /\ r = q => M >= N
    BY <1>5
  <1>7. LocalStep(s) /\ (r = Append(q, "started") \/ r = Append(q, "deleted")) => M >= N
    BY <1>0, <1>2, <1>5, More
  <1>8. Crash(s) \/ HandleDelete(s) => s \notin Running
    BY Drifting DEF Clear, LocalStep
  <1>9. inbox' = inbox /\ station' = station => (s \in Committed => s \in Committed')
    BY <1>1
  <1> SUFFICES (s \in Committed => s \in Committed' \/ M >= N + 1) /\ M >= N
    BY DEF M, N
  <1>10. CASE Construct(s)
    <2>1. s \notin Running /\ q = <<>>
      BY <1>0, <1>1, <1>10, WhenConstructed DEF Told, Answerable, q
    <2>2. M >= N
      BY <1>5, <1>10, <2>1 DEF LocalStep
    <2> QED
      BY <1>1, <2>1, <2>2
  <1>11. CASE AddSettles(s)
    <2>1. outbox' = outbox /\ station' = station /\ inbox' = inbox
      BY <1>11 DEF AddSettles, stationVars
    <2> QED
      BY <1>3, <1>9, <2>1
  <1>12. CASE Response(s)
    <2>1. station' = station /\ inbox' = inbox /\ outbox[s] # <<>> /\ r = Tail(q) /\ Head(q) = "response"
      BY <1>0, <1>12, WhenHandled DEF Response, q, r
    <2>2. M = N
      <3>1. OnlyAt(s, outbox, outbox')
        BY <1>4, <1>12 DEF LocalStep
      <3>2. Number(outbox', "stopped") = Number(outbox, "stopped") -
                (IF Head(outbox[s]) = "stopped" THEN 1 ELSE 0)
        BY <1>0, <2>1, <3>1, NumberAfterHandling DEF q, r
      <3> QED
        BY <1>0, <2>1, <3>2 DEF M, N, Stops, q
    <2> QED
      BY <1>0, <1>9, <2>1, <2>2
  <1>13. CASE HandleStart(s)
    <2>1. s \notin Running /\ (r = q \/ r = Append(q, "started"))
      BY <1>0, <1>1, <1>13, WhenStarted DEF q, r
    <2> QED
      BY <1>1, <1>6, <1>7, <1>13, <2>1 DEF LocalStep
  <1>14. CASE HandleStop(s)
    <2>1. /\ station'[s].phase = station[s].phase /\ station'[s].run = "stopping" /\ outbox' = outbox
          /\ station'[s].waiter \in Message
      BY <1>0, <1>14, WhenToldToStop
    <2>2. station'[s].waiter # Nobody
      BY <2>1, SimulatorAssumption DEF Message, Nobody, Internal
    <2> QED
      BY <1>1, <1>3, <2>1, <2>2
  <1>15. CASE HandleDelete(s)
    <2>1. r = q \/ r = Append(q, "deleted")
      BY <1>0, <1>15, WhenDeleted DEF q, r
    <2> QED
      BY <1>1, <1>6, <1>7, <1>8, <1>15, <2>1 DEF LocalStep
  <1>16. CASE StationStops(s)
    <2>1. CASE station[s].phase = "up"
      <3> DEFINE mid == [outbox EXCEPT ![s] = Append(q, "stopped")]
      <3>1. Append(q, "stopped") \in Seq(Events)
        BY <1>0, <1>2, More
      <3>2. /\ mid \in Boxes /\ mid[s] = Append(q, "stopped")
            /\ \A t \in Stations : t # s => mid[t] = outbox[t]
        BY <1>0, <3>1 DEF Boxes
      <3>3. OnlyAt(s, outbox, mid) /\ OnlyAt(s, mid, outbox')
        BY <1>0, <1>4, <1>16, <3>2 DEF OnlyAt, LocalStep
      <3> HIDE DEF mid
      <3>4. Number(mid, "stopped") = Number(outbox, "stopped") + 1
        BY <1>0, <1>2, <3>2, <3>3, NumberAfterPost DEF q
      <3>5. r = mid[s] \/ r = Append(mid[s], "deleted")
        BY <1>0, <1>16, <2>1, <3>2, WhenStopped DEF q, r
      <3>6. \A i \in 1 .. Len(mid[s]) : i \in 1 .. Len(r) /\ r[i] = mid[s][i]
        BY <1>2, <3>1, <3>2, <3>5, More
      <3>7. Number(outbox', "stopped") >= Number(mid, "stopped")
        BY <3>2, <3>3, <3>6, NumberGrows DEF r
      <3> QED
        BY <1>0, <3>2, <3>4, <3>7, PostedFinite DEF M, N, Stops
    <2>2. CASE station[s].phase # "up"
      BY <1>0, <1>1, <1>6, <1>16, <2>2, WhenStopped DEF LocalStep, q, r
    <2> QED
      BY <2>1, <2>2
  <1>17. CASE StationStopFails(s)
    BY <1>0, <1>17 DEF StationStopFails, Note, BootstrapTypes, Clear
  <1>18. CASE Crash(s)
    BY <1>0, <1>1, <1>3, <1>8, <1>18, WhenCrashed
  <1>19. CASE HandleIdle(s)
    <2>1. /\ station' = station /\ outbox' = outbox /\ inbox[s] # <<>> /\ inbox[s] \in Seq(Message)
          /\ inbox'[s] = Tail(inbox[s]) /\ OnlyStops(inbox[s])
          /\ Command(s).command = "stop" => station[s].run # "on"
      BY <1>0, <1>19 DEF HandleIdle, mainVars, StationTypes, InternalStops, Command, Consume
    <2>2. HasInternal(inbox[s]) => HasInternal(inbox'[s]) \/ Command(s).command = "stop"
      BY <2>1, Taking DEF Command
    <2>3. station[s].run # "on" /\ station[s].run # "off" => station[s].waiter # Nobody
      BY <1>0 DEF StationTypes, StationRecord, Stoppers
    <2> QED
      BY <1>1, <1>3, <2>1, <2>2, <2>3
  <1> QED
    BY <1>10, <1>11, <1>12, <1>13, <1>14, <1>15, <1>16, <1>17, <1>18, <1>19 DEF LocalStep

\* A UI server that knows no station has not heard of any: what runs has its
\* start on the way.
LEMMA UnknownStarts ==
  ASSUME Typed, Tellings, Shown, known = {}
  PROVE  Cardinality(Running) <= Number(outbox, "started")
  <1> DEFINE At(s) == CHOOSE i \in 1 .. Len(outbox[s]) : outbox[s][i] = "started"
             place == [s \in Running |-> <<s, At(s)>>]
  <1>0. outbox \in Boxes /\ \A s \in Stations : outbox[s] \in Seq(Events)
    BY DEF Typed, AddTypes, Boxes
  <1>1. ASSUME NEW s \in Running
        PROVE  s \in Stations /\ At(s) \in 1 .. Len(outbox[s]) /\ outbox[s][At(s)] = "started"
    <2>1. s \in Stations /\ s \in Up /\ Told(s)
      BY DEF Running, Up, Tellings
    <2>2. Contains(outbox[s], "started")
      BY <2>1 DEF Shown, Told, Reports
    <2>3. \E i \in 1 .. Len(outbox[s]) : outbox[s][i] = "started"
      BY <2>2 DEF Contains
    <2> QED
      BY <2>1, <2>3
  <1>2. \A s \in Running : <<s, At(s)>> \in PostedIn(outbox, "started")
    <2> HIDE DEF At
    <2> QED
      BY <1>0, <1>1, PostedPlaces
  <1>3. place \in Injection(Running, PostedIn(outbox, "started"))
    <2>1. place \in [Running -> PostedIn(outbox, "started")]
      BY <1>2
    <2>2. \A s, t \in Running : place[s] = place[t] => s = t
      <3> HIDE DEF At
      <3> QED
        OBVIOUS
    <2> HIDE DEF place
    <2> QED
      BY <2>1, <2>2, Fun_IsInj
  <1> QED
    BY <1>0, <1>3, PostedFinite, FS_Injection DEF Number

\* stop() awaits no more stops than it commits stations to, or are on the way.
LEMMA StopAssured ==
  ASSUME Typed, Typed', Tellings, Tally, Shown, Clear, BeginStop, UNCHANGED <<station, outbox>>
  PROVE  stop'.awaited <= Cardinality(Committed') + Stops(outbox')
  <1>0. /\ stop'.awaited = stats.started /\ stats.started \in Int
        /\ Running \in SUBSET Stations /\ Committed' \in SUBSET Stations
        /\ outbox \in Boxes /\ outbox' = outbox
    BY DEF BeginStop, Typed, IInv, BootstrapTypes, StatsRecord, Running, Up, Committed, AddTypes, Boxes
  <1>1. /\ Number(outbox, "started") \in Nat /\ Number(outbox, "stopped") \in Nat
        /\ Cardinality(Running) \in Nat /\ Cardinality(Committed') \in Nat
    BY <1>0, Numbers, PostedFinite
  <1>2. stats.started + Number(outbox, "started") - Number(outbox, "stopped") = Cardinality(Running)
    BY <1>0, <1>1, InFlightIsFlight DEF Tally, Clear, Flight
  <1>3. CASE known = {}
    <2>1. Cardinality(Running) <= Number(outbox, "started")
      BY <1>3, UnknownStarts
    <2> QED
      BY <1>0, <1>1, <1>2, <2>1 DEF Stops
  <1>4. CASE known # {}
    <2>1. ASSUME NEW s \in Running PROVE s \in Committed'
      <3>1. s \in Stations /\ s \in Hearing /\ inbox[s] \in Seq(Message) /\ s \in Running'
        BY DEF Running, Up, Hearing, Typed, IInv, StationTypes
      <3>2. inbox'[s] = Append(inbox[s], StopCommand)
        BY <1>4, <3>1 DEF BeginStop, Tell
      <3>3. StopCommand \in Message /\ StopCommand.request = Internal
        BY DEF StopCommand, Message, Commands, Internal
      <3>4. HasInternal(inbox'[s])
        BY <3>1, <3>2, <3>3, Sending
      <3> QED
        BY <3>1, <3>4, Commitment
    <2>2. Cardinality(Running) <= Cardinality(Committed')
      BY <1>0, <2>1, Numbers
    <2> QED
      BY <1>0, <1>1, <1>2, <2>2 DEF Stops
  <1> QED
    BY <1>3, <1>4

\* A step of a station commits and releases no other.
LEMMA CommittedElsewhere ==
  ASSUME Typed, Typed', NEW s \in Stations, LocalStep(s) \/ HandleIdle(s), NEW t \in Stations, t # s
  PROVE  t \in Committed <=> t \in Committed'
  <1> USE DEF mainVars, uiVars, stationVars
  <1>1. station'[t] = station[t]
    <2>1. HandleIdle(s) => station' = station
      BY DEF HandleIdle
    <2> QED
      BY <2>1, OthersUntouched DEF Untouched, Typed, IInv
  <1>2. inbox'[t] = inbox[t]
    <2>1. inbox \in [Stations -> Seq(Message)]
      BY DEF Typed, IInv, StationTypes
    <2>2. CASE HandleIdle(s) \/ HandleStart(s) \/ HandleStop(s) \/ HandleDelete(s)
      BY <2>1, <2>2 DEF HandleIdle, HandleStart, HandleStop, HandleDelete, Consume
    <2>3. CASE Crash(s)
      BY <2>1, <2>3 DEF Crash
    <2>4. CASE Construct(s) \/ AddSettles(s) \/ Event(s) \/ Response(s) \/ StationStops(s)
               \/ StationStopFails(s)
      BY <2>4 DEF Construct, AddSettles, Event, Response, StationStops, StationStopFails
    <2> QED
      BY <2>2, <2>3, <2>4 DEF LocalStep
  <1> QED
    BY <1>1, <1>2, Commitment

\* A step of a station leaves stop() assured of the stops it awaits.
LEMMA ExpectableAtStation ==
  ASSUME Typed, Typed', Tellings, Calm, InternalStops, Stoppers, Expectable, Clear, Clear',
         NEW s \in Stations, LocalStep(s) \/ HandleIdle(s), [Next]_vars
  PROVE  Expectable'
  <1> SUFFICES ASSUME stop'.step = "waiting"
               PROVE  stop'.awaited <= Cardinality(Committed') + Stops(outbox')
    BY DEF Expectable
  <1>0. /\ Committed \in SUBSET Stations /\ Committed' \in SUBSET Stations
        /\ outbox \in Boxes /\ outbox' \in Boxes /\ stop.awaited \in Int
    BY DEF Committed, Running, Up, Typed, IInv, BootstrapTypes, AddTypes, Boxes
  <1>1. /\ Cardinality(Committed) \in Nat /\ Cardinality(Committed') \in Nat
        /\ Stops(outbox) \in Nat /\ Stops(outbox') \in Nat
    BY <1>0, Numbers, PostedFinite DEF Stops
  <1>2. \A t \in Stations : t # s => (t \in Committed <=> t \in Committed')
    BY CommittedElsewhere
  <1>3. CASE Event(s)
    <2>1. /\ outbox[s] # <<>> /\ outbox'[s] = Tail(outbox[s]) /\ OnlyAt(s, outbox, outbox')
          /\ station' = station /\ inbox' = inbox
      BY <1>3, WhenHandled, BoxOnly DEF Typed, IInv, Event, LocalStep
    <2>2. Stops(outbox') = Stops(outbox) - (IF Head(outbox[s]) = "stopped" THEN 1 ELSE 0)
      BY <1>0, <2>1, NumberAfterHandling DEF Stops
    <2>3. Committed' = Committed
      <3>1. s \in Committed <=> s \in Committed'
        BY <2>1, Commitment
      <3> QED
        BY <1>0, <1>2, <3>1
    <2>4. CASE Head(outbox[s]) = "stopped"
      <3>1. stop' = OneLessAwaited
        BY <1>3, <2>4, Listened DEF EventStopped, Clear
      <3>2. stop.step = "waiting" /\ stop'.awaited = stop.awaited - 1
        BY <3>1 DEF OneLessAwaited
      <3> QED
        BY <1>0, <1>1, <2>2, <2>3, <2>4, <3>2 DEF Expectable
    <2>5. CASE Head(outbox[s]) # "stopped"
      <3>1. EventAdded(s) \/ EventStarted(s) \/ EventDeleted(s)
        BY <1>3, <2>5, Listened DEF Events, Clear
      <3>2. stop' = stop
        BY <3>1 DEF EventAdded, EventStarted, EventDeleted
      <3> QED
        BY <1>1, <2>2, <2>3, <2>5, <3>2 DEF Expectable
    <2> QED
      BY <2>4, <2>5
  <1>4. CASE ~Event(s)
    <2>1. stop' = stop
      BY <1>4 DEF LocalStep, Construct, AddSettles, Response, HandleStart, HandleStop, HandleDelete,
                  StationStops, StationStopFails, Crash, HandleIdle, mainVars
    <2>2. stop.awaited <= Cardinality(Committed) + Stops(outbox)
      BY <2>1 DEF Expectable
    <2>3. /\ s \in Committed => s \in Committed' \/ Stops(outbox') >= Stops(outbox) + 1
          /\ Stops(outbox') >= Stops(outbox)
      BY <1>4, CommittedOfStep
    <2>4. CASE s \in Committed => s \in Committed'
      <3>1. Committed \subseteq Committed'
        BY <1>0, <1>2, <2>4
      <3>2. Cardinality(Committed) <= Cardinality(Committed')
        BY <1>0, <3>1, Numbers
      <3> QED
        BY <1>0, <1>1, <2>1, <2>2, <2>3, <3>2
    <2>5. CASE s \in Committed /\ s \notin Committed'
      <3>1. Committed \ {s} \subseteq Committed' /\ Committed \ {s} \in SUBSET Stations
        BY <1>0, <1>2
      <3>2. Cardinality(Committed) - 1 <= Cardinality(Committed')
        BY <1>0, <2>5, <3>1, Numbers
      <3> QED
        BY <1>0, <1>1, <2>1, <2>2, <2>3, <2>5, <3>2
    <2> QED
      BY <2>4, <2>5
  <1> QED
    BY <1>3, <1>4

\* Where nothing is posted or handled, and no station is released, neither.
LEMMA SameExpectable ==
  ASSUME Typed, Typed', Expectable, stop' = stop, outbox' = outbox,
         \A t \in Stations : t \in Committed => t \in Committed'
  PROVE  Expectable'
  <1>0. /\ Committed \in SUBSET Stations /\ Committed' \in SUBSET Stations
        /\ outbox \in Boxes /\ stop.awaited \in Int
    BY DEF Committed, Running, Up, Typed, IInv, BootstrapTypes, AddTypes, Boxes
  <1>1. Cardinality(Committed) <= Cardinality(Committed')
    <2>1. Committed \subseteq Committed'
      BY <1>0
    <2> QED
      BY <1>0, <2>1, Numbers
  <1>2. Cardinality(Committed) \in Nat /\ Cardinality(Committed') \in Nat /\ Stops(outbox) \in Nat
    BY <1>0, Numbers, PostedFinite DEF Stops
  <1> QED
    BY <1>0, <1>1, <1>2 DEF Expectable

LEMMA ExpectableKept ==
  ASSUME Typed, Typed', Tellings, Calm, Identified, Reckoned, InternalStops, Stoppers, Expectable,
         Clear, Clear', [Next]_vars
  PROVE  Expectable'
  <1> USE DEF mainVars, uiVars, stationVars
  <1>0. /\ StationTypes /\ AddTypes /\ \A t \in Stations : inbox[t] \in Seq(Message)
        /\ Shown /\ Tally
    BY DEF Typed, IInv, StationTypes, Identified, Reckoned, Clear
  <1>1. ASSUME NEW s \in Stations, LocalStep(s) \/ HandleIdle(s) PROVE Expectable'
    BY <1>1, ExpectableAtStation
  <1>2. CASE StopSimulator \/ ReloadStops
    <2>1. BeginStop /\ UNCHANGED <<station, outbox>>
      BY <1>2 DEF StopSimulator, ReloadStops
    <2> QED
      BY <1>0, <2>1, StopAssured DEF Expectable
  <1>3. CASE StopEnds \/ StopTimesOut
    <2>1. stop'.step = "idle"
      BY <1>3 DEF StopEnds, StopTimesOut, Typed, IInv, BootstrapTypes
    <2> QED
      BY <2>1 DEF Expectable
  <1>4. ASSUME stop' = stop, outbox' = outbox, station' = station, inbox' = inbox
        PROVE  Expectable'
    <2>1. \A t \in Stations : t \in Committed => t \in Committed'
      BY <1>4, Commitment
    <2> QED
      BY <1>4, <2>1, SameExpectable
  <1>5. CASE \/ StartSimulator \/ StartEnds \/ ReloadRefused \/ UNCHANGED vars
             \/ \E r \in Requests : \E s \in Stations : Gather(r, s)
    BY <1>4, <1>5 DEF StartSimulator, StartEnds, ReloadRefused, Gather, vars
  <1>6. ASSUME stop' = stop, outbox' = outbox, inbox' = inbox,
               \A t \in Stations : station'[t] = station[t] \/ station[t].phase = "none"
        PROVE  Expectable'
    <2>1. \A t \in Stations : t \in Committed => t \in Committed'
      BY <1>6, Commitment
    <2> QED
      BY <1>6, <2>1, SameExpectable
  <1>7. CASE StartAdds
    <2>1. stop' = stop /\ outbox' = outbox /\ inbox' = inbox
      BY <1>7 DEF StartAdds
    <2>2. \A t \in Stations : station'[t] = station[t] \/ station[t].phase = "none"
      BY <1>7, StartAddsTo DEF Untouched
    <2> QED
      BY <1>6, <2>1, <2>2
  <1>8. ASSUME NEW r \in Requests, NEW s \in Stations, AddStation(r, s) PROVE Expectable'
    <2>1. stop' = stop /\ outbox' = outbox /\ inbox' = inbox
      BY <1>8 DEF AddStation
    <2>2. \A t \in Stations : station'[t] = station[t] \/ station[t].phase = "none"
      BY <1>0, <1>8, OthersUntouched, WhenAdded DEF Untouched
    <2> QED
      BY <1>6, <2>1, <2>2
  <1>9. ASSUME NEW r \in Requests, NEW command \in Commands, NEW ids \in SUBSET known,
               Broadcast(r, command, ids)
        PROVE  Expectable'
    <2> DEFINE m == [request |-> r, command |-> command]
    <2>1. stop' = stop /\ outbox' = outbox /\ station' = station /\ Tell(Addressed(ids), m)
      BY <1>9 DEF Broadcast
    <2>2. m \in Message
      BY DEF Message
    <2> HIDE DEF m
    <2>3. \A t \in Stations : inbox'[t] = inbox[t] \/ inbox'[t] = Append(inbox[t], m)
      BY <2>1 DEF Tell
    <2>4. \A t \in Stations : HasInternal(inbox[t]) => HasInternal(inbox'[t])
      BY <1>0, <2>2, <2>3, Sending
    <2>5. \A t \in Stations : t \in Committed => t \in Committed'
      BY <2>1, <2>4, Commitment
    <2> QED
      BY <2>1, <2>5, SameExpectable
  <1> QED
    BY <1>1, <1>2, <1>3, <1>5, <1>7, <1>8, <1>9 DEF Next, LocalStep

(***************************************************************************)
(* As long as nothing else happened, each 'stopped' event that stop()      *)
(* awaits is on its way, or has a running station that is committed to     *)
(* send it, so that stop() needs no timeout: for any number of stations.   *)
(***************************************************************************)
Committing == Fleet /\ Reckoned /\ InternalStops /\ Assured

LEMMA CommittingKept == Committing /\ [Next]_vars => Committing'
  <1> SUFFICES ASSUME Committing, [Next]_vars PROVE Committing'
    OBVIOUS
  <1>1. Fleet' /\ Reckoned' /\ InternalStops'
    BY NextFleet, ReckonedKept, InternalStopsKept DEF Committing, Fleet
  <1>2. ASSUME Clear' PROVE Stoppers' /\ Expectable'
    <2>1. Clear /\ Stoppers /\ Expectable
      BY <1>2, ClearBefore DEF Committing, Fleet, Assured
    <2> QED
      BY <1>1, <1>2, <2>1, StoppersKept, ExpectableKept DEF Committing, Fleet
  <1> QED
    BY <1>1, <1>2 DEF Committing, Assured

THEOREM StopsAreCommitted == Spec => []StopCommitted
  <1>1. Init => Committing
    <2> SUFFICES ASSUME Init PROVE Committing
      OBVIOUS
    <2>1. InternalStops /\ Assured
      BY DEF Init, InternalStops, OnlyStops, Assured, Stoppers, Expectable, NoStation
    <2> QED
      BY <2>1, InitFleet, InitReckoned DEF Committing
  <1>2. Committing => StopCommitted
    <2> SUFFICES ASSUME Committing, stop.step = "waiting", \A event \in DOMAIN history : ~history[event]
                 PROVE  stop.awaited <= Cardinality(Committed) + Cardinality(Posted("stopped"))
      BY DEF StopCommitted
    <2>1. DOMAIN history = {"overlapped", "raced", "drifted", "stuck"}
      BY DEF Committing, Fleet, Typed, IInv, BootstrapTypes
    <2>2. Clear
      BY <2>1 DEF Clear
    <2>3. stop.awaited <= Cardinality(Committed) + Stops(outbox)
      BY <2>2 DEF Committing, Assured, Expectable
    <2> QED
      BY <2>3 DEF Stops, Number, Posted, PostedIn
  <1> QED
    BY <1>1, <1>2, CommittingKept, PTL DEF Spec
=============================================================================
