------------------------------ MODULE Requests20 ------------------------------
(***************************************************************************)
(* The transactions and the resets of an OCPP 2.0.1 station with EVSEs:    *)
(* RequestStartTransaction, RequestStopTransaction and Reset, immediate    *)
(* and on idle, of the station and of an EVSE, with the stop and the       *)
(* initialisation of the station a reset goes through.                     *)
(*                                                                         *)
(* Everything the handlers await is an answer of the central system, which *)
(* comes at any time and in any order; an error or a timeout is swallowed  *)
(* by sendMessage and counts as an answer.  A suspended handler, a timer   *)
(* and an interval are tasks in a bag.                                     *)
(*                                                                         *)
(* EVSE 0 stands for the station and has connector 0; every other EVSE has *)
(* one connector, which the template numbers like its EVSE.  The state of  *)
(* a connector is an object: initialize() replaces all of them, and a task *)
(* that was suspended before keeps the object it had.  generation counts   *)
(* the replacements.  An initialisation that finds the file in the cache   *)
(* reads the very objects an earlier one put there, as long as no save has *)
(* replaced them by copies.  Transactions are numbered in the order of     *)
(* their start.                                                            *)
(***************************************************************************)
EXTENDS BaseReports, ChargingProfiles20, Bags

CONSTANTS Evses,             \* 1..n
          Station,           \* the station that is reset, a member of Stations
          Tokens,            \* the idTokens that occur
          LocalTokens,       \* those of the local list, {} without one
          LocalAuthListEnabled, RemoteAuthorization,
          Profiles,          \* the charging profiles that occur
          Now,               \* the date
          StopTransactionsOnStopped,
          Immediates,        \* the targets of an immediate Reset
          OnIdles,           \* and of one on idle: EVSEs, 0 or Whole
          MaxRequests,       \* bound: requests of the central system
          MaxGeneration      \* bound: initialisations of the station

Whole == -1                           \* a Reset without evseId
Connectors20 == {0} \union Evses
None == 0                             \* no transaction

ASSUME RequestsAssumption ==
    /\ IsFiniteSet(Evses) /\ Evses = 1..Cardinality(Evses)
    /\ Station \in Stations
    /\ Immediates \subseteq {Whole} \union Connectors20
    /\ OnIdles \subseteq {Whole} \union Connectors20
    /\ MaxGeneration \in Nat

VARIABLES life,        \* "up", "stopping", "wedged" (a stop that failed) or "down"
          registered,  \* the BootNotification has been accepted
          generation,
          connectorOf, \* the number an EVSE has for its connector
          tx,          \* the transaction of a connector
          status,      \* its status, "none" without one
          profiles,    \* the TxProfiles it has; one of another purpose stays for good
          saved,       \* the connectors of the configuration file
          linked,      \* whether the cache of the file holds the connectors themselves
          tasks,       \* what is suspended
          evseOf,      \* the connector a transaction was started on
          ended,       \* how many Ended events of a transaction were sent
          late         \* the connectors an Occupied came to when they had no transaction

connectorVars == <<tx, status, profiles>>
stationVars == <<life, registered, generation, connectorOf, saved, linked>>
vars == <<stationVars, connectorVars, tasks, evseOf, ended, late, requests, reportVars>>

-----------------------------------------------------------------------------
(* Tasks and connectors.                                                   *)

Spawn(ts) == SetToBag(ts)
Replace(t, ts) == (tasks (-) SetToBag({t})) (+) SetToBag(ts)
Suspended(op) == {t \in BagToSet(tasks) : t.op = op}

\* getConnectorStatus: the first EVSE that has a connector of this number.
Numbered(c) == {e \in Connectors20 : connectorOf[e] = c}
ConnectorStatus(c) == CHOOSE e \in Numbered(c) : \A f \in Numbered(c) : e <= f

\* getNumberOfRunningTransactions does not look at EVSE 0.
Running == {e \in Evses : tx[e] # None}

Current(t) == t.generation = generation

\* A StatusNotification whose answer sets the status of a connector.
Notification(e, st) ==
    [op |-> "notify", evse |-> ConnectorStatus(connectorOf[e]), status |-> st,
     generation |-> generation]

\* restoreConnectorStatus
Restores(e) ==
    IF status[ConnectorStatus(connectorOf[e])] # "Available"
    THEN {Notification(e, "Available")} ELSE {}

Accepting == life # "down" /\ registered /\ requests < MaxRequests

NewRequest == requests' = requests + 1 /\ UNCHANGED reportVars

-----------------------------------------------------------------------------
(* RequestStartTransaction.                                                 *)

IsIdTokenAuthorized(token) ==
    \/ ~LocalAuthListEnabled /\ ~RemoteAuthorization
    \/ LocalAuthListEnabled /\ token \in LocalTokens
    \/ RemoteAuthorization

StartableWhileBusy(e, token, profile) ==
    /\ IsIdTokenAuthorized(token)
    /\ \A p \in profile : ValidateChargingProfile(p, e, Cardinality(Evses), Now)

Startable(e, token, profile) ==
    /\ tx[ConnectorStatus(connectorOf[e])] = None
    /\ IsIdTokenAuthorized(token)
    /\ \A p \in profile : ValidateChargingProfile(p, e, Cardinality(Evses), Now)

\* The profiles of a request that are TxProfiles, of a transaction, and whether they
\* name a transaction: an earlier one, as nobody knows the new one yet.
TxProfiles(profile, id) ==
    {[transaction |-> id, names |-> p.transactionId # {}] : p \in {q \in profile : q.purpose = "TxProfile"}}

BeginTransaction(e, profile) ==
    LET o == ConnectorStatus(connectorOf[e])
        id == Len(evseOf) + 1
    IN  /\ tx' = [tx EXCEPT ![o] = id]
        /\ evseOf' = Append(evseOf, o)
        /\ ended' = Append(ended, 0)
        /\ tasks' = tasks (+) Spawn({[op |-> "start", evse |-> o, id |-> id, generation |-> generation,
                                       profile |-> TxProfiles(profile, id)]})
        /\ UNCHANGED <<stationVars, status, profiles, late>>

\* profile is {} or has the profile of the request.
RequestStartTransaction ==
    \E e \in Evses, token \in Tokens, profile \in {{}} \union {{p} : p \in Profiles} :
        /\ Accepting
        /\ NewRequest
        /\ \/ Startable(e, token, profile) /\ BeginTransaction(e, profile)
           \/ /\ ~Startable(e, token, profile)
              /\ UNCHANGED <<stationVars, connectorVars, tasks, evseOf, ended, late>>

\* The StatusNotification Occupied is answered: the profile is stored, and the
\* request answered Accepted, whatever happened to the transaction meanwhile.  An
\* array of profiles that was empty at the last save is shared by the copy of the
\* connector a later initialisation takes from the cache.
Occupied(t) ==
    /\ t.op = "start"
    /\ IF Current(t)
       THEN /\ status' = [status EXCEPT ![t.evse] = "Occupied"]
            /\ profiles' = [profiles EXCEPT ![t.evse] = @ \union t.profile]
            /\ late' = IF tx[t.evse] = None THEN late \union {t.evse} ELSE late
       ELSE /\ UNCHANGED <<status, late>>
            /\ profiles' \in {profiles, [profiles EXCEPT ![t.evse] = @ \union t.profile]}
    /\ tasks' = Replace(t, {})
    /\ UNCHANGED <<stationVars, tx, evseOf, ended, requests, reportVars>>

-----------------------------------------------------------------------------
(* requestStopTransaction, by a RequestStopTransaction or a Reset.          *)

\* The stop of the transactions of connectors: for says what follows, waits has what
\* was found for those whose Ended event is not answered, frees the connectors whose
\* Available is not.
Stopping20(for, target, found) ==
    [op |-> "stop", for |-> for, evse |-> target, generation |-> generation,
     waits |-> found, frees |-> {}]

\* The connectors among es whose stop sends an Ended event: the one the number of
\* the connector leads to has a transaction.
Stoppable(es) == {e \in es : tx[ConnectorStatus(connectorOf[e])] # None}
Found(es) == {[of |-> e, evse |-> ConnectorStatus(connectorOf[e])] : e \in Stoppable(es)}

Counted(found) ==
    ended' = [id \in DOMAIN ended |->
                ended[id] + Cardinality({w \in found : tx[w.evse] = id})]

RequestStopTransaction ==
    \E id \in DOMAIN evseOf :
        /\ Accepting
        /\ NewRequest
        /\ LET found == Found({e \in Connectors20 : tx[e] = id})
           IN  IF found # {}
               THEN Counted(found) /\ tasks' = tasks (+) Spawn({Stopping20("request", 0, found)})
               ELSE UNCHANGED <<ended, tasks>>
        /\ UNCHANGED <<stationVars, connectorVars, evseOf, late>>

\* The Available that follows the Ended event of a connector looks the connector up
\* by the number it had, which is that of its EVSE or 0: nothing is sent when a
\* replacement has left no connector with this number.
Freed(o) ==
    IF Numbered(o) = {} THEN {} ELSE {[evse |-> ConnectorStatus(o), generation |-> generation]}

\* The TxProfiles resetConnectorStatus keeps: those that name a transaction other than
\* the one the connector has, if it has one.
Kept(o) == {p \in profiles[o] : p.names /\ tx[o] # None}

EndedAnsweredKeepingProfiles(t) ==
    /\ t.op = "stop"
    /\ \E w \in t.waits :
         /\ IF Current(t)
            THEN /\ tx' = [tx EXCEPT ![w.evse] = None]
                 /\ late' = late \ {w.evse}
                 /\ UNCHANGED profiles
            ELSE UNCHANGED <<tx, profiles, late>>
         /\ tasks' = Replace(t, {[t EXCEPT !.waits = @ \ {w}, !.frees = @ \union Freed(w.evse)]})
    /\ UNCHANGED <<stationVars, status, evseOf, ended, requests, reportVars>>

\* resetConnectorStatus: the transaction the connector has by now, and its profiles.
EndedAnswered(t) ==
    /\ t.op = "stop"
    /\ \E w \in t.waits :
         /\ IF Current(t)
            THEN /\ tx' = [tx EXCEPT ![w.evse] = None]
                 /\ profiles' = [profiles EXCEPT ![w.evse] = Kept(w.evse)]
                 /\ late' = late \ {w.evse}
            ELSE UNCHANGED <<tx, profiles, late>>
         /\ tasks' = Replace(t, {[t EXCEPT !.waits = @ \ {w}, !.frees = @ \union Freed(w.evse)]})
    /\ UNCHANGED <<stationVars, status, evseOf, ended, requests, reportVars>>

\* The StatusNotification Available that follows is answered.
AvailableAnswered(t) ==
    /\ t.op = "stop"
    /\ \E f \in t.frees :
         /\ status' = IF Current(f) THEN [status EXCEPT ![f.evse] = "Available"] ELSE status
         /\ tasks' = Replace(t, {[t EXCEPT !.frees = @ \ {f}]})
    /\ UNCHANGED <<stationVars, tx, profiles, evseOf, ended, late, requests, reportVars>>

\* Nothing more to follow for a RequestStopTransaction, which is answered.
Stopped20(t) ==
    /\ t.op = "stop" /\ t.waits = {} /\ t.frees = {} /\ t.for = "request"
    /\ tasks' = Replace(t, {})
    /\ UNCHANGED <<stationVars, connectorVars, evseOf, ended, late, requests, reportVars>>

-----------------------------------------------------------------------------
(* Reset of an EVSE.                                                        *)

Timer(e) == [op |-> "timer", evse |-> e]

\* scheduleEvseReset: Unavailable at once, restored by a timer of one second.
ScheduleEvseReset(e) == Spawn({Notification(e, "Unavailable"), Timer(e)})

\* The timer looks at the status, not at the transaction.
Restore(t) ==
    /\ t.op = "timer"
    /\ tasks' = Replace(t, Restores(t.evse))
    /\ UNCHANGED <<stationVars, connectorVars, evseOf, ended, late, requests, reportVars>>

Notified20(t) ==
    /\ t.op = "notify"
    /\ status' = IF Current(t) THEN [status EXCEPT ![t.evse] = t.status] ELSE status
    /\ tasks' = Replace(t, {})
    /\ UNCHANGED <<stationVars, tx, profiles, evseOf, ended, late, requests, reportVars>>

\* The connectors of a target: those of the EVSE itself.
Busy(target) == IF target = Whole THEN Running # {} ELSE target > 0 /\ tx[target] # None

-----------------------------------------------------------------------------
(* Reset of the station: stop, sleep, initialize, start.                    *)

\* stop() of the station.  Stopping a transaction is not supported in 2.0.1: the
\* request cannot be built and the stop fails with stopping set, for good.
CallReset ==
    IF life # "up" THEN [life |-> life, spawned |-> Spawn({[op |-> "sleep"]})]
    ELSE IF StopTransactionsOnStopped /\ Running # {}
    THEN [life |-> "wedged", spawned |-> EmptyBag]
    ELSE [life |-> "stopping",
          spawned |-> Spawn({[op |-> "down", todo |-> 1, generation |-> generation]})]

Reset20 == life' = CallReset.life /\ tasks' = tasks (+) CallReset.spawned

\* The statuses are notified one after the other; the status deleted is the one of
\* the EVSE's own connector.
Down(t) ==
    LET e == t.todo
        o == ConnectorStatus(connectorOf[e])
    IN  /\ t.op = "down" /\ e \in Evses
        /\ status' = IF Current(t) THEN [[status EXCEPT ![o] = "Unavailable"] EXCEPT ![e] = "none"]
                     ELSE status
        /\ tasks' = Replace(t, {[op |-> "down", todo |-> e + 1, generation |-> generation]})
        /\ UNCHANGED <<stationVars, tx, profiles, evseOf, ended, late, requests, reportVars>>

\* What a save writes of the connectors, by buildEvsesStatus.
EvsesStatus == [tx |-> tx, status |-> status]

\* The end of stop(): the connectors are saved; reset() sleeps.
StopEnds(t) ==
    /\ t.op = "down" /\ t.todo \notin Evses
    /\ life' = "down"
    /\ registered' = FALSE
    /\ saved' = EvsesStatus /\ linked' = FALSE
    /\ tasks' = Replace(t, {[op |-> "sleep"]})
    /\ UNCHANGED <<generation, connectorOf, connectorVars, evseOf, ended, late, requests, reportVars>>

ConnectorsFromFileShifted == [e \in Connectors20 |-> e + 1]

\* initializeConnectorsOrEvsesFromFile numbers the connectors of an EVSE by their
\* index in the file.
ConnectorsFromFile == [e \in Connectors20 |-> 0]

\* start() does nothing unless the station is down.
Started == IF life = "down" THEN "up" ELSE life

\* initialize(), with connectors from the file, and start().  prepareConnectorStatus
\* drops the TxProfiles; the status stays.
Initialize(t) ==
    /\ t.op = "sleep"
    /\ generation < MaxGeneration
    /\ generation' = generation + 1
    /\ connectorOf' = ConnectorsFromFile
    /\ tx' = saved.tx
    /\ status' = saved.status
    /\ profiles' = [e \in Connectors20 |-> {}]
    /\ linked' = TRUE
    /\ life' = Started
    /\ tasks' = Replace(t, {})
    /\ UNCHANGED <<registered, saved, evseOf, ended, late, requests, reportVars>>

\* The same when the cache still has the connectors of the last initialisation: they
\* are taken as they are by now.
Reinitialize(t) ==
    /\ t.op = "sleep" /\ linked
    /\ profiles' = [e \in Connectors20 |-> {}]
    /\ life' = Started
    /\ tasks' = Replace(t, {})
    /\ UNCHANGED <<registered, generation, connectorOf, saved, linked, tx, status, evseOf, ended, late,
                   requests, reportVars>>

\* The StatusNotification of an EVSE's connector in the message sequence, with the
\* status the connector has then (getBootConnectorStatus).
Booting(e) ==
    IF e \in Evses
    THEN {[op |-> "boot", todo |-> e, generation |-> generation,
           status |-> IF status[e] = "none" THEN "Available" ELSE status[e]]}
    ELSE {}

\* The answer to the BootNotification, which saves the configuration unless it is that
\* of the file; then the statuses of the message sequence.
Register ==
    /\ life = "up" /\ ~registered
    /\ registered' = TRUE
    /\ saved' = EvsesStatus
    /\ linked' \in IF saved = EvsesStatus THEN {FALSE, linked} ELSE {FALSE}
    /\ tasks' = tasks (+) Spawn(Booting(1))
    /\ UNCHANGED <<life, generation, connectorOf, connectorVars, evseOf, ended, late, requests, reportVars>>

\* The answer to the notification of an EVSE's connector sets what was sent.
Boot(t) ==
    LET o == ConnectorStatus(connectorOf[t.todo])
    IN  /\ t.op = "boot"
        /\ IF Current(t)
           THEN /\ status' = [status EXCEPT ![o] = t.status]
                /\ late' = IF t.status = "Occupied" /\ tx[o] = None THEN late \union {o} ELSE late
           ELSE UNCHANGED <<status, late>>
        /\ tasks' = Replace(t, Booting(t.todo + 1))
        /\ UNCHANGED <<stationVars, tx, profiles, evseOf, ended, requests, reportVars>>

\* SetVariables and the like save the configuration, and change a report.
Save ==
    /\ Change(Station)
    /\ saved' = EvsesStatus /\ linked' = FALSE
    /\ UNCHANGED <<life, registered, generation, connectorOf, connectorVars, tasks, evseOf, ended, late>>

-----------------------------------------------------------------------------
(* Reset requests.                                                          *)

\* The EVSEs whose transactions an immediate Reset ends first.
Terminated(target) == IF target = Whole THEN Connectors20 ELSE {target}
HasTransaction(es) == {e \in es : tx[e] # None}

\* An EVSE is looked at by its own connector, and stopped by the connector's number.
ResetImmediate ==
    \E target \in Immediates :
        LET found == Found(HasTransaction(Terminated(target)))
        IN  /\ Accepting
            /\ NewRequest
            /\ IF Busy(target)
               THEN /\ Counted(found)
                    /\ tasks' = tasks (+) Spawn({Stopping20("reset", target, found)})
                    /\ UNCHANGED life
               ELSE /\ IF target = Whole
                       THEN /\ life' = CallReset.life
                            /\ tasks' = (tasks (+) Spawn({Notification(e, "Unavailable") : e \in Connectors20}))
                                        (+) CallReset.spawned
                       ELSE tasks' = tasks (+) ScheduleEvseReset(target) /\ UNCHANGED life
                    /\ UNCHANGED ended
            /\ UNCHANGED <<registered, generation, connectorOf, saved, linked, connectorVars, evseOf, late>>

\* All transactions are stopped.
Terminate(t) ==
    /\ t.op = "stop" /\ t.waits = {} /\ t.frees = {} /\ t.for = "reset"
    /\ IF t.evse = Whole
       THEN life' = CallReset.life /\ tasks' = Replace(t, {}) (+) CallReset.spawned
       ELSE tasks' = Replace(t, {}) (+) ScheduleEvseReset(t.evse) /\ UNCHANGED life
    /\ UNCHANGED <<registered, generation, connectorOf, saved, linked, connectorVars, evseOf, ended, late, requests, reportVars>>

Monitor(target) == [op |-> "monitor", evse |-> target]

ResetOnIdle ==
    \E target \in OnIdles :
        /\ Accepting
        /\ NewRequest
        /\ IF Busy(target) THEN tasks' = tasks (+) Spawn({Monitor(target)}) /\ UNCHANGED life
           ELSE IF target = Whole THEN Reset20
           ELSE tasks' = tasks (+) ScheduleEvseReset(target) /\ UNCHANGED life
        /\ UNCHANGED <<registered, generation, connectorOf, saved, linked, connectorVars, evseOf, ended, late>>

\* The interval of a Reset on idle, which nothing but the idleness clears.
BecomesIdle(t) ==
    /\ t.op = "monitor" /\ ~Busy(t.evse)
    /\ IF t.evse = Whole
       THEN life' = CallReset.life /\ tasks' = Replace(t, {}) (+) CallReset.spawned
       ELSE tasks' = Replace(t, {}) (+) ScheduleEvseReset(t.evse) /\ UNCHANGED life
    /\ UNCHANGED <<registered, generation, connectorOf, saved, linked, connectorVars, evseOf, ended, late, requests, reportVars>>

-----------------------------------------------------------------------------

Init ==
    /\ ReportInit
    /\ life = "up" /\ registered = FALSE
    /\ generation = 0
    /\ connectorOf = [e \in Connectors20 |-> e]
    /\ tx = [e \in Connectors20 |-> None]
    /\ status = [e \in Connectors20 |-> "none"]
    /\ profiles = [e \in Connectors20 |-> {}]
    /\ saved = EvsesStatus /\ linked = FALSE
    /\ tasks = EmptyBag
    /\ evseOf = <<>>
    /\ ended = <<>>
    /\ late = {}

Answered(t) ==
    \/ Occupied(t) \/ EndedAnswered(t) \/ AvailableAnswered(t) \/ Stopped20(t) \/ Terminate(t)
    \/ Notified20(t) \/ Down(t) \/ StopEnds(t) \/ Boot(t)

Elapsed(t) == Restore(t) \/ BecomesIdle(t) \/ Initialize(t) \/ Reinitialize(t)

Transacting ==
    \/ RequestStartTransaction \/ RequestStopTransaction \/ ResetImmediate \/ ResetOnIdle
    \/ Register \/ Save
    \/ \E t \in BagToSet(tasks) : Answered(t) \/ Elapsed(t)

\* Requests for a report reach the stations of the worker.
Reports ==
    /\ \/ Reporting
       \/ \E s \in Stations : (s = Station => life # "down" /\ registered) /\ GetBaseReport(s)
    /\ UNCHANGED <<stationVars, connectorVars, tasks, evseOf, ended, late>>

Next == Transacting \/ Reports

Spec == Init /\ [][Next]_vars

-----------------------------------------------------------------------------

TransactionIds == DOMAIN evseOf

\* The variables keep the shape the handlers rely on.
TypeOK ==
    /\ life \in {"up", "stopping", "wedged", "down"}
    /\ registered \in BOOLEAN
    /\ generation \in 0..MaxGeneration
    /\ connectorOf \in [Connectors20 -> Connectors20]
    /\ tx \in [Connectors20 -> {None} \union TransactionIds]
    /\ status \in [Connectors20 -> {"none", "Available", "Occupied", "Unavailable"}]
    /\ saved \in [tx : [Connectors20 -> {None} \union TransactionIds],
                  status : [Connectors20 -> {"none", "Available", "Occupied", "Unavailable"}]]
    /\ linked \in BOOLEAN
    /\ profiles \in [Connectors20 -> SUBSET [transaction : TransactionIds, names : BOOLEAN]]
    /\ IsABag(tasks)
    /\ late \subseteq Connectors20
    /\ DOMAIN ended = TransactionIds

EndedTwice(o) == {id \in TransactionIds : evseOf[id] = o /\ ended[id] > 1}

\* A connector loses a transaction only after an Ended event of it was sent, unless
\* an earlier transaction of the connector was stopped by two requests at once: the
\* second answer clears whatever runs by then.  (A replacement of the connectors by
\* those of the file is no loss.)
ClearedAfterEnded ==
    [][\A o \in Connectors20 :
         tx[o] # None /\ tx'[o] = None /\ generation' = generation =>
           ended[tx[o]] > 0 \/ EndedTwice(o) # {}]_vars

\* No start, notification or stop in flight will set the state of a connector's object.
Settled(o) ==
    \A t \in BagToSet(tasks) :
        /\ t.op \in {"start", "notify"} => t.evse # o \/ ~Current(t)
        /\ t.op = "stop" =>
             /\ \A w \in t.waits : w.evse # o \/ ~Current(t)
             /\ \A f \in t.frees : f.evse # o \/ ~Current(f)

\* A connector without transaction that no request in flight is about is not shown
\* Occupied and keeps no TxProfile, one that names another transaction aside, however
\* many stops were sent: unless an Occupied, of a start or of the message sequence,
\* has come to it since it lost its last transaction.  This holds until the
\* connectors are read back from the file, which takes their numbers from them and
\* may show one Occupied that was saved between Ended and Available.
SettledConnector ==
    generation = 0 =>
        \A o \in Connectors20 \ late :
            tx[o] = None /\ Settled(o) =>
                status[o] # "Occupied" /\ \A p \in profiles[o] : p.names

\* The connectors keep the numbers the template gives them.
ConnectorsKeepNumbers == \A e \in Connectors20 : connectorOf[e] = e
===============================================================================
