------------------------- MODULE StationConnection -------------------------
(***************************************************************************)
(* A charging station's life and its connection to the server: start, stop  *)
(* and reset, the WebSockets it opens one after the other, the registration *)
(* loop of onOpen, and the timers of heartbeats and pings that the message   *)
(* sequence of a registered station starts.                                          *)
(*                                                                          *)
(* One JavaScript thread: an action is a maximal piece of code between two  *)
(* returns to the event loop.  A socket that wsConnection no longer refers  *)
(* to keeps its listeners, so its events still reach the station.           *)
(***************************************************************************)
EXTENDS Naturals

CONSTANTS
  AutoReconnectMaxRetries, \* stationInfo.autoReconnectMaxRetries, not -1
  RegistrationMaxRetries,  \* stationInfo.registrationMaxRetries, not -1
  MaxSockets, \* bound: WebSockets ever created
  MaxResets,  \* bound: resets requested
  MaxAsked    \* bound: BootNotification requests outside of onOpen

ASSUME ConnectionAssumption ==
  /\ AutoReconnectMaxRetries \in Nat /\ RegistrationMaxRetries \in Nat
  /\ MaxSockets \in Nat \ {0} /\ MaxResets \in Nat /\ MaxAsked \in Nat

Sockets == 1..MaxSockets

VARIABLES
  life,       \* "stopped", "started" or "stopping"
  stopForReset, \* the stop in progress is the first half of a reset
  resetting,  \* resets that sleep for resetTime
  resets,     \* resets requested so far
  socket,     \* readyState of each WebSocket, "none" before it is created
  opened,     \* number of WebSockets created
  current,    \* wsConnection, 0 when null
  retry,      \* wsConnectionRetryCount
  reconnects, \* activations of reconnect that sleep
  registration, \* bootNotificationResponse.status
  boot,       \* control state of the loop of onOpen, per socket
  via,        \* the socket its last BootNotification was written to
  tries,      \* its registrationRetryCount
  asked,      \* as via, for a BootNotification asked by the UI or the server
  askedCount, \* how many of those so far
  heartbeat,  \* heartbeatSetInterval is set
  ping,       \* wsPingSetInterval is set
  lastClose,  \* history: kind of the last close event, "lost" when abnormal and the
              \* heartbeat of a registered station ran until then
  bootFailed  \* history: a loop of onOpen ended without a registration

lifeVars == <<life, stopForReset, resetting, resets>>
socketVars == <<socket, opened, current>>
retryVars == <<retry, reconnects, lastClose>>
bootVars == <<registration, boot, via, tries, bootFailed>>
askVars == <<asked, askedCount>>
timerVars == <<heartbeat, ping>>
vars == <<lifeVars, socketVars, retryVars, bootVars, askVars, timerVars>>

Init ==
  /\ life = "stopped" /\ stopForReset = FALSE /\ resetting = 0 /\ resets = 0
  /\ socket = [s \in Sockets |-> "none"] /\ opened = 0 /\ current = 0
  /\ retry = 0 /\ reconnects = 0 /\ lastClose = "none"
  /\ registration = "unknown" /\ bootFailed = FALSE
  /\ boot = [s \in Sockets |-> "none"]
  /\ via = [s \in Sockets |-> 0] /\ tries = [s \in Sockets |-> 0]
  /\ asked = 0 /\ askedCount = 0
  /\ heartbeat = FALSE /\ ping = FALSE

Started == life # "stopped"

\* isWebSocketConnectionOpened
IsOpen == current # 0 /\ socket[current] = "open"

\* A socket whose close event is to come: its messages still arrive.
Live(s) == socket[s] \in {"connecting", "open", "closing"}
Readable(s) == s # 0 /\ socket[s] \in {"open", "closing"}

-----------------------------------------------------------------------------
(* Opening and closing the connection *)

\* closeWSConnection, as a new value of the sockets.
CloseCurrent == IF IsOpen THEN [socket EXCEPT ![current] = "closing"] ELSE socket

\* openWSConnection from its last check on.
NewSocket(sockets) ==
  /\ opened < MaxSockets
  /\ opened' = opened + 1
  /\ socket' = [sockets EXCEPT ![opened + 1] = "connecting"]
  /\ current' = opened + 1

\* Faulty: a connection is taken for an opened one whatever its state.
OpenWSConnectionOnce ==
  IF current # 0 THEN UNCHANGED socketVars ELSE NewSocket(socket)

\* openWSConnection of a started station: an opened connection is kept.
OpenWSConnection ==
  IF IsOpen THEN UNCHANGED socketVars ELSE NewSocket(socket)

\* openWSConnection with closeOpened.
ReopenWSConnection == NewSocket(CloseCurrent)

KindOfClose(normal) ==
  IF normal THEN "normal"
  ELSE IF heartbeat /\ registration = "accepted" THEN "lost" ELSE "abnormal"

\* Faulty: the timers survive the connection.
OnCloseKeepingTimers(normal) ==
  /\ UNCHANGED timerVars
  /\ lastClose' = KindOfClose(normal)
  /\ \/ normal /\ retry' = 0 /\ UNCHANGED reconnects
     \/ /\ ~normal /\ Started /\ retry < AutoReconnectMaxRetries
        /\ retry' = retry + 1 /\ reconnects' = reconnects + 1
     \/ /\ ~normal /\ ~(Started /\ retry < AutoReconnectMaxRetries)
        /\ UNCHANGED <<retry, reconnects>>

\* onClose, whichever socket it is about: stop ping and heartbeat, then
\* reconnect unless the close was normal.
OnClose(normal) ==
  /\ heartbeat' = FALSE /\ ping' = FALSE
  /\ lastClose' = KindOfClose(normal)
  /\ \/ normal /\ retry' = 0 /\ UNCHANGED reconnects
     \/ /\ ~normal /\ Started /\ retry < AutoReconnectMaxRetries
        /\ retry' = retry + 1 /\ reconnects' = reconnects + 1
     \/ /\ ~normal /\ ~(Started /\ retry < AutoReconnectMaxRetries)
        /\ UNCHANGED <<retry, reconnects>>

\* The sleep of reconnect ends.
Reconnect ==
  /\ reconnects > 0
  /\ reconnects' = reconnects - 1
  /\ IF Started THEN ReopenWSConnection ELSE UNCHANGED socketVars
  /\ UNCHANGED <<retry, lastClose, lifeVars, bootVars, askVars, timerVars>>

\* The procedures OPEN_CONNECTION and CLOSE_CONNECTION of the UI.
OpenConnection ==
  /\ Started
  /\ OpenWSConnection
  /\ UNCHANGED <<lifeVars, retryVars, bootVars, askVars, timerVars>>

CloseConnection ==
  /\ IsOpen
  /\ socket' = CloseCurrent
  /\ current' = 0
  /\ UNCHANGED <<opened, lifeVars, retryVars, bootVars, askVars, timerVars>>

-----------------------------------------------------------------------------
(* start, stop and reset *)

\* start
Start ==
  /\ life = "stopped"
  /\ life' = "started"
  /\ OpenWSConnection
  /\ UNCHANGED <<stopForReset, resetting, resets, retryVars, bootVars, askVars, timerVars>>

\* stop up to the requests it awaits; they may never be answered.
StopBegins(forReset) ==
  /\ life = "started"
  /\ life' = "stopping"
  /\ stopForReset' = forReset
  /\ heartbeat' = FALSE /\ ping' = FALSE
  /\ UNCHANGED <<resetting, socketVars, retryVars, bootVars, askVars>>

Stop == StopBegins(FALSE) /\ UNCHANGED resets

\* reset: a stop first, unless the station is stopped or stopping.
Reset ==
  /\ resets < MaxResets
  /\ resets' = resets + 1
  /\ \/ StopBegins(TRUE)
     \/ /\ life # "started"
        /\ resetting' = resetting + 1
        /\ UNCHANGED <<life, stopForReset, socketVars, retryVars, bootVars, askVars, timerVars>>

\* The rest of stop.  A connecting socket is left alone.
StopEnds ==
  /\ life = "stopping"
  /\ life' = "stopped"
  /\ socket' = CloseCurrent
  /\ current' = IF IsOpen THEN 0 ELSE current
  /\ registration' = "unknown"
  /\ resetting' = IF stopForReset THEN resetting + 1 ELSE resetting
  /\ stopForReset' = FALSE
  /\ UNCHANGED <<resets, opened, boot, via, tries, bootFailed, retryVars, askVars, timerVars>>

\* The sleep of reset ends: initialize, then start.
ResetEnds ==
  /\ resetting > 0
  /\ resetting' = resetting - 1
  /\ IF Started
     THEN UNCHANGED <<life, socketVars>>
     ELSE life' = "started" /\ OpenWSConnection
  /\ UNCHANGED <<stopForReset, resets, retryVars, bootVars, askVars, timerVars>>

-----------------------------------------------------------------------------
(* Registration *)

\* internalSendMessage on a BootNotification: it leaves if the connection is
\* open and the station not rejected, and fails at once otherwise.
BootCanBeSent == IsOpen /\ registration # "rejected"

\* The loop of socket s ends, or sleeps before its next request.
LoopEnds(s) ==
  /\ boot' = [boot EXCEPT ![s] = "none"]
  /\ via' = [via EXCEPT ![s] = 0]
  /\ tries' = [tries EXCEPT ![s] = 0]

LoopSleeps(s) ==
  /\ boot' = [boot EXCEPT ![s] = "sleeping"]
  /\ via' = [via EXCEPT ![s] = 0]
  /\ tries' = [tries EXCEPT ![s] = @ + 1]

\* Faulty: the loop of a station in the pending state ends too, unnoticed.
BootRequestFailedForGood(s) ==
  /\ LoopEnds(s)
  /\ bootFailed' = (bootFailed \/ registration = "unknown")

\* A failed BootNotification: reading the missing response throws and ends
\* the loop, a response stored earlier makes it go on.
BootRequestFailed(s) ==
  IF registration \in {"unknown", "accepted"}
  THEN /\ LoopEnds(s)
       /\ bootFailed' = (bootFailed \/ registration = "unknown")
  ELSE LoopSleeps(s) /\ UNCHANGED bootFailed

\* One turn of the loop of onOpen.
RequestBoot(s) ==
  \/ /\ BootCanBeSent'
     /\ boot' = [boot EXCEPT ![s] = "requesting"]
     /\ via' = [via EXCEPT ![s] = current]
     /\ UNCHANGED <<tries, bootFailed>>
  \/ ~BootCanBeSent' /\ BootRequestFailed(s)

\* onOpen looks at wsConnection, not at the socket that opened.
SocketOpened(s) ==
  /\ socket[s] = "connecting"
  /\ socket' = [socket EXCEPT ![s] = "open"]
  /\ UNCHANGED <<opened, current, registration, heartbeat, lifeVars, retryVars, askVars>>
  /\ IF IsOpen'
     THEN /\ ping' = TRUE
          /\ IF registration = "accepted"
             THEN UNCHANGED <<boot, via, tries, bootFailed>>
             ELSE RequestBoot(s)
     ELSE UNCHANGED <<ping, boot, via, tries, bootFailed>>

\* handleResponseBootNotification and the listeners of its events.
Registered(status) ==
  /\ registration' = status
  /\ retry' = IF status \in {"accepted", "rejected"} THEN 0 ELSE retry
  /\ IF status = "accepted"
     THEN heartbeat' = TRUE /\ ping' = TRUE
     ELSE UNCHANGED timerVars
  /\ UNCHANGED <<reconnects, lastClose>>

Statuses == {"accepted", "pending", "rejected"}

\* The answer to the BootNotification of a loop.
BootAnswered(s) ==
  /\ boot[s] = "requesting" /\ Readable(via[s])
  /\ \E status \in Statuses :
       /\ Registered(status)
       /\ IF status = "accepted" THEN LoopEnds(s) ELSE LoopSleeps(s)
  /\ UNCHANGED <<bootFailed, socketVars, lifeVars, askVars>>

\* It is answered by a CALL_ERROR, or its send fails or times out.
BootErrored(s) ==
  /\ boot[s] = "requesting"
  /\ BootRequestFailed(s)
  /\ UNCHANGED <<registration, socketVars, lifeVars, retryVars, askVars, timerVars>>

\* The sleep between two requests of the loop ends.
BootAgain(s) ==
  /\ boot[s] = "sleeping"
  /\ UNCHANGED <<registration, socketVars, lifeVars, retryVars, askVars, timerVars>>
  /\ IF registration # "accepted" /\ tries[s] <= RegistrationMaxRetries
     THEN RequestBoot(s)
     ELSE /\ LoopEnds(s)
          /\ bootFailed' = (bootFailed \/ registration # "accepted")

\* BootNotification of the UI, or asked by TriggerMessage.
AskBoot ==
  /\ askedCount < MaxAsked /\ asked = 0 /\ BootCanBeSent
  /\ asked' = current
  /\ askedCount' = askedCount + 1
  /\ UNCHANGED <<lifeVars, socketVars, retryVars, bootVars, timerVars>>

AskedBootAnswered ==
  /\ Readable(asked)
  /\ asked' = 0
  /\ \E status \in Statuses : Registered(status)
  /\ UNCHANGED <<askedCount, boot, via, tries, bootFailed, socketVars, lifeVars>>

\* ChangeConfiguration of the heartbeat or ping interval restarts its timer,
\* or only stops it when the new interval is 0.
ChangeConfiguration ==
  /\ \E s \in Sockets : Readable(s)
  /\ registration # "rejected"
  /\ \/ heartbeat' \in BOOLEAN /\ UNCHANGED ping
     \/ ping' \in BOOLEAN /\ UNCHANGED heartbeat
  /\ UNCHANGED <<lifeVars, socketVars, retryVars, bootVars, askVars>>

-----------------------------------------------------------------------------
(* Events of the sockets *)

\* The handshake fails: an error event, whose listener closes whatever
\* connection is open, then the close event.
HandshakeFailed(s) ==
  /\ socket[s] = "connecting"
  /\ socket' = [CloseCurrent EXCEPT ![s] = "closed"]
  /\ current' = IF IsOpen THEN 0 ELSE current
  /\ OnClose(FALSE)
  /\ UNCHANGED <<opened, lifeVars, bootVars, askVars>>

\* An open or closing socket is closed, normally or not.
SocketClosed(s) ==
  /\ socket[s] \in {"open", "closing"}
  /\ socket' = [socket EXCEPT ![s] = "closed"]
  /\ \E normal \in BOOLEAN : OnClose(normal)
  /\ UNCHANGED <<opened, current, lifeVars, bootVars, askVars>>

Registering ==
  \/ \E s \in Sockets : BootAnswered(s) \/ BootErrored(s) \/ BootAgain(s)
  \/ AskBoot \/ AskedBootAnswered \/ ChangeConfiguration

Next ==
  \/ Start \/ Stop \/ Reset \/ StopEnds \/ ResetEnds
  \/ Reconnect \/ OpenConnection \/ CloseConnection
  \/ \E s \in Sockets : SocketOpened(s) \/ HandshakeFailed(s) \/ SocketClosed(s)
  \/ Registering

Spec == Init /\ [][Next]_vars

-----------------------------------------------------------------------------
(* Properties *)

TypeOK ==
  /\ life \in {"stopped", "started", "stopping"} /\ stopForReset \in BOOLEAN
  /\ resets \in 0..MaxResets /\ resetting \in Nat
  /\ opened \in 0..MaxSockets /\ current \in 0..opened
  /\ socket \in [Sockets -> {"none", "connecting", "open", "closing", "closed"}]
  /\ \A s \in Sockets : socket[s] = "none" <=> s > opened
  /\ retry \in Nat /\ reconnects \in Nat
  /\ lastClose \in {"none", "normal", "abnormal", "lost"}
  /\ registration \in {"unknown"} \cup Statuses /\ bootFailed \in BOOLEAN
  /\ boot \in [Sockets -> {"none", "requesting", "sleeping"}]
  /\ via \in [Sockets -> 0..opened] /\ tries \in [Sockets -> Nat]
  /\ asked \in 0..opened /\ askedCount \in 0..MaxAsked
  /\ heartbeat \in BOOLEAN /\ ping \in BOOLEAN

\* Neither heartbeat nor ping outlives the connections: when every socket is
\* closed both timers are off, in whatever order the answers, the stops and
\* the close events of current and superseded sockets came.
NoTimerWithoutSocket == (\A s \in Sockets : ~Live(s)) => ~heartbeat /\ ~ping

\* A started station without any connection is about to reconnect, unless it
\* has used up its retries or the last close was a normal one.
DisconnectedIsRecovering ==
  life = "started" /\ (\A s \in Sockets : ~Live(s)) =>
    \/ reconnects > 0 \/ retry = AutoReconnectMaxRetries
    \/ lastClose = "normal"

\* wsConnectionRetryCount stays within autoReconnectMaxRetries.
RetriesBounded == retry <= AutoReconnectMaxRetries

\* A station connected and not registered has a registration loop to register
\* it, unless a loop has failed or used up its retries, or a BootNotification
\* asked outside of a loop withdrew the registration.
UnregisteredIsBooting ==
  life = "started" /\ IsOpen /\ registration # "accepted" =>
    bootFailed \/ askedCount > 0 \/ \E s \in Sockets : boot[s] # "none"

\* A rejected station sends no BootNotification until it is stopped: the loop
\* of onOpen goes on, and internalSendMessage refuses each of its requests.
RejectedStaysSilent ==
  [][registration = "rejected" =>
       \A s \in Sockets : boot'[s] = "requesting" => boot[s] = "requesting"]_vars

\* The message sequence is started after a reconnection: when reconnect has
\* replaced the connection that a registered station lost, an abnormal close
\* having stopped its heartbeat, and the new one opens, the heartbeat runs or the
\* station registers once more, which starts the sequence and the heartbeat with it.
Reconnected(s) ==
  /\ s = current /\ reconnects = 0 /\ lastClose = "lost"
  /\ \A t \in Sockets \ {s} : ~Live(t)

ReconnectionRestartsSequence ==
  [][\A s \in Sockets :
       SocketOpened(s) /\ Reconnected(s) /\ life = "started" /\ registration = "accepted" =>
         heartbeat' \/ \E t \in Sockets : boot'[t] = "requesting"]_vars

=============================================================================
