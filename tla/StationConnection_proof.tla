---------------------- MODULE StationConnection_proof ----------------------
(***************************************************************************)
(* Theorems about StationConnection, for any number of sockets, resets and  *)
(* retries.                                                                 *)
(***************************************************************************)
EXTENDS StationConnection, TLAPS

USE ConnectionAssumption DEF Sockets, Live, Readable, Statuses

\* Closing the current connection keeps every close event to come.
LEMMA ClosingKeepsLive ==
  ASSUME TypeOK
  PROVE  /\ CloseCurrent \in [Sockets -> {"none", "connecting", "open", "closing", "closed"}]
         /\ \A s \in Sockets : CloseCurrent[s] = "none" <=> socket[s] = "none"
         /\ \A s \in Sockets : Live(s) <=> CloseCurrent[s] \in {"connecting", "open", "closing"}
BY DEF TypeOK, CloseCurrent, IsOpen

\* A new socket keeps the numbering of the sockets, and is alive.
LEMMA NewSocketIsLive ==
  ASSUME TypeOK, NEW sockets \in [Sockets -> {"none", "connecting", "open", "closing", "closed"}],
         \A s \in Sockets : sockets[s] = "none" <=> s > opened,
         NewSocket(sockets)
  PROVE  /\ opened' \in 0..MaxSockets /\ current' \in 0..opened' /\ opened' > opened
         /\ socket' \in [Sockets -> {"none", "connecting", "open", "closing", "closed"}]
         /\ \A s \in Sockets : socket'[s] = "none" <=> s > opened'
         /\ \E s \in Sockets : Live(s)'
<1>1. /\ opened' = opened + 1 /\ opened < MaxSockets /\ opened + 1 \in Sockets
      /\ socket' = [sockets EXCEPT ![opened + 1] = "connecting"]
      /\ current' = opened + 1
  BY DEF TypeOK, NewSocket
<1>2. socket'[opened + 1] = "connecting"
  BY <1>1
<1>3. \A s \in Sockets : socket'[s] = IF s = opened + 1 THEN "connecting" ELSE sockets[s]
  BY <1>1
<1>4. opened \in Nat /\ opened' > opened /\ opened' \in 0..MaxSockets /\ current' \in 0..opened'
  BY <1>1 DEF TypeOK
<1>5. \A s \in Sockets : socket'[s] = "none" <=> s > opened'
  BY <1>1, <1>3, <1>4
<1>6. \E s \in Sockets : Live(s)'
  BY <1>1, <1>2
<1> QED
  BY <1>1, <1>4, <1>5, <1>6

\* What openWSConnection does to the sockets.
LEMMA OpeningIsLive ==
  ASSUME TypeOK, OpenWSConnection
  PROVE  /\ opened' \in 0..MaxSockets /\ current' \in 0..opened' /\ opened' >= opened
         /\ socket' \in [Sockets -> {"none", "connecting", "open", "closing", "closed"}]
         /\ \A s \in Sockets : socket'[s] = "none" <=> s > opened'
         /\ \E s \in Sockets : Live(s)'
<1>1. CASE IsOpen
  <2>1. UNCHANGED socketVars /\ current \in Sockets /\ socket[current] = "open"
    BY <1>1 DEF OpenWSConnection, IsOpen, TypeOK
  <2>2. opened' = opened /\ current' = current /\ socket' = socket
    BY <2>1 DEF socketVars
  <2>3. Live(current)'
    BY <2>1, <2>2
  <2>4. opened >= opened /\ opened \in Nat
    BY DEF TypeOK
  <2>5. \A s \in Sockets : socket'[s] = "none" <=> s > opened'
    BY <2>2 DEF TypeOK
  <2> QED
    BY <2>1, <2>2, <2>3, <2>4, <2>5 DEF TypeOK
<1>2. CASE ~IsOpen
  <2>1. NewSocket(socket)
    BY <1>2 DEF OpenWSConnection
  <2>2. /\ socket \in [Sockets -> {"none", "connecting", "open", "closing", "closed"}]
        /\ \A s \in Sockets : socket[s] = "none" <=> s > opened
    BY DEF TypeOK
  <2>3. opened \in Nat
    BY DEF TypeOK
  <2>4. /\ opened' \in 0..MaxSockets /\ current' \in 0..opened' /\ opened' > opened
        /\ socket' \in [Sockets -> {"none", "connecting", "open", "closing", "closed"}]
        /\ \A s \in Sockets : socket'[s] = "none" <=> s > opened'
        /\ \E s \in Sockets : Live(s)'
    BY ONLY TypeOK, <2>1, <2>2, NewSocketIsLive
  <2>5. opened' >= opened
    BY ONLY <2>3, <2>4
  <2> QED
    BY <2>4, <2>5
<1> HIDE DEF Live, Sockets
<1> QED
  BY <1>1, <1>2

LEMMA ReopeningIsLive ==
  ASSUME TypeOK, ReopenWSConnection
  PROVE  /\ opened' \in 0..MaxSockets /\ current' \in 0..opened' /\ opened' >= opened
         /\ socket' \in [Sockets -> {"none", "connecting", "open", "closing", "closed"}]
         /\ \A s \in Sockets : socket'[s] = "none" <=> s > opened'
         /\ \E s \in Sockets : Live(s)'
<1>1. \A s \in Sockets : CloseCurrent[s] = "none" <=> s > opened
  BY ClosingKeepsLive DEF TypeOK
<1>2. NewSocket(CloseCurrent)
  BY DEF ReopenWSConnection
<1>3. CloseCurrent \in [Sockets -> {"none", "connecting", "open", "closing", "closed"}]
  BY ClosingKeepsLive
<1>4. /\ opened' \in 0..MaxSockets /\ current' \in 0..opened' /\ opened' > opened
      /\ socket' \in [Sockets -> {"none", "connecting", "open", "closing", "closed"}]
      /\ \A s \in Sockets : socket'[s] = "none" <=> s > opened'
      /\ \E s \in Sockets : Live(s)'
  BY ONLY TypeOK, <1>1, <1>2, <1>3, NewSocketIsLive
<1>5. opened' >= opened
  BY <1>4 DEF TypeOK
<1> QED
  BY <1>4, <1>5

-----------------------------------------------------------------------------
(* Type correctness, the retry counter, and the timers *)

ConnectionInv == TypeOK /\ RetriesBounded /\ NoTimerWithoutSocket

\* The conjuncts of TypeOK, grouped as the variables are.
LifeOK ==
  /\ life \in {"stopped", "started", "stopping"} /\ stopForReset \in BOOLEAN
  /\ resets \in 0..MaxResets /\ resetting \in Nat

SocketOK ==
  /\ opened \in 0..MaxSockets /\ current \in 0..opened
  /\ socket \in [Sockets -> {"none", "connecting", "open", "closing", "closed"}]
  /\ \A s \in Sockets : socket[s] = "none" <=> s > opened

RetryOK ==
  /\ retry \in Nat /\ reconnects \in Nat
  /\ lastClose \in {"none", "normal", "abnormal", "lost"}

BootOK ==
  /\ registration \in {"unknown"} \cup Statuses /\ bootFailed \in BOOLEAN
  /\ boot \in [Sockets -> {"none", "requesting", "sleeping"}]
  /\ via \in [Sockets -> 0..opened] /\ tries \in [Sockets -> Nat]

AskOK == asked \in 0..opened /\ askedCount \in 0..MaxAsked

TimerOK == heartbeat \in BOOLEAN /\ ping \in BOOLEAN

LEMMA TypeParts == TypeOK <=> LifeOK /\ SocketOK /\ RetryOK /\ BootOK /\ AskOK /\ TimerOK
BY ONLY DEF TypeOK, LifeOK, SocketOK, RetryOK, BootOK, AskOK, TimerOK

\* The steps of the loop of onOpen keep its state well formed.
LEMMA LoopTyping ==
  ASSUME TypeOK, NEW s \in Sockets,
         RequestBoot(s) \/ BootRequestFailed(s) \/ LoopEnds(s) \/ LoopSleeps(s)
  PROVE  /\ boot' \in [Sockets -> {"none", "requesting", "sleeping"}]
         /\ via' \in [Sockets -> 0..opened] /\ tries' \in [Sockets -> Nat]
<1>1. CASE LoopEnds(s)
  BY <1>1 DEF TypeOK, LoopEnds
<1>2. CASE LoopSleeps(s)
  BY <1>2 DEF TypeOK, LoopSleeps
<1>3. BootRequestFailed(s) => LoopEnds(s) \/ LoopSleeps(s)
  BY DEF BootRequestFailed
<1>4. CASE RequestBoot(s)
  <2>1. CASE ~BootRequestFailed(s)
    BY <1>4, <2>1 DEF TypeOK, RequestBoot
  <2> QED
    BY <1>1, <1>2, <1>3, <2>1
<1> QED
  BY <1>1, <1>2, <1>3, <1>4

\* A close event keeps the counters in range and stops both timers.
LEMMA CloseTyping ==
  ASSUME TypeOK, RetriesBounded, NEW normal \in BOOLEAN, OnClose(normal)
  PROVE  /\ retry' \in Nat /\ reconnects' \in Nat /\ retry' <= AutoReconnectMaxRetries
         /\ lastClose' \in {"none", "normal", "abnormal", "lost"}
         /\ heartbeat' = FALSE /\ ping' = FALSE
BY DEF TypeOK, RetriesBounded, OnClose, KindOfClose

\* So does the answer to a BootNotification, but for the timers.
LEMMA RegisteredTyping ==
  ASSUME TypeOK, RetriesBounded, NEW status \in Statuses, Registered(status)
  PROVE  /\ retry' \in Nat /\ reconnects' \in Nat /\ retry' <= AutoReconnectMaxRetries
         /\ lastClose' \in {"none", "normal", "abnormal", "lost"}
         /\ registration' \in {"unknown"} \cup Statuses
         /\ heartbeat' \in BOOLEAN /\ ping' \in BOOLEAN
<1>1. retry' = 0 \/ retry' = retry
  BY DEF Registered
<1>2. \/ heartbeat' = TRUE /\ ping' = TRUE
      \/ heartbeat' = heartbeat /\ ping' = ping
  BY DEF Registered, timerVars
<1>3. heartbeat' \in BOOLEAN /\ ping' \in BOOLEAN
  BY <1>2 DEF TypeOK
<1>4. registration' = status /\ reconnects' = reconnects /\ lastClose' = lastClose
  BY DEF Registered
<1>5. retry' \in Nat /\ retry' <= AutoReconnectMaxRetries
  BY <1>1 DEF TypeOK, RetriesBounded
<1> QED
  BY <1>3, <1>4, <1>5 DEF TypeOK

LEMMA ConnectionInit == Init => ConnectionInv
<1> SUFFICES ASSUME Init PROVE ConnectionInv
  OBVIOUS
<1>1. TypeOK
  <2>1. \A s \in Sockets : socket[s] = "none" /\ s > opened
    BY DEF Init
  <2>2. /\ opened \in 0..MaxSockets /\ current \in 0..opened /\ asked \in 0..opened
        /\ via \in [Sockets -> 0..opened] /\ tries \in [Sockets -> Nat]
    BY DEF Init
  <2>3. /\ socket \in [Sockets -> {"none", "connecting", "open", "closing", "closed"}]
        /\ boot \in [Sockets -> {"none", "requesting", "sleeping"}]
    BY DEF Init
  <2>4. /\ stopForReset \in BOOLEAN /\ bootFailed \in BOOLEAN
        /\ heartbeat \in BOOLEAN /\ ping \in BOOLEAN
    BY DEF Init
  <2>5. /\ life = "stopped" /\ resets = 0 /\ resetting = 0 /\ retry = 0 /\ reconnects = 0
        /\ lastClose = "none" /\ registration = "unknown" /\ askedCount = 0
    BY DEF Init
  <2>6. 0 \in 0..MaxResets /\ 0 \in 0..MaxAsked /\ 0 \in Nat
    OBVIOUS
  <2> QED
    BY <2>1, <2>2, <2>3, <2>4, <2>5, <2>6 DEF TypeOK
<1>2. RetriesBounded
  BY DEF Init, RetriesBounded
<1>3. NoTimerWithoutSocket
  BY DEF Init, NoTimerWithoutSocket
<1> QED
  BY <1>1, <1>2, <1>3 DEF ConnectionInv

\* What holds of a group of variables still holds when they are left alone;
\* sockets may have been created meanwhile.
LEMMA Frame ==
  ASSUME TypeOK, opened' \in Nat, opened' >= opened
  PROVE  /\ UNCHANGED lifeVars => LifeOK'
         /\ UNCHANGED <<retry, reconnects, lastClose>> => RetryOK'
         /\ UNCHANGED bootVars => BootOK'
         /\ UNCHANGED askVars => AskOK'
         /\ UNCHANGED timerVars => TimerOK'
<1>1. UNCHANGED lifeVars => LifeOK'
  BY DEF TypeOK, LifeOK, lifeVars
<1>2. UNCHANGED <<retry, reconnects, lastClose>> => RetryOK'
  BY DEF TypeOK, RetryOK
<1>3. opened \in Nat /\ 0..opened \subseteq 0..opened'
  BY DEF TypeOK
<1>4. UNCHANGED bootVars => BootOK'
  BY <1>3 DEF TypeOK, BootOK, bootVars
<1>5. UNCHANGED askVars => AskOK'
  BY <1>3 DEF TypeOK, AskOK, askVars
<1>6. UNCHANGED timerVars => TimerOK'
  BY DEF TypeOK, TimerOK, timerVars
<1> QED
  BY <1>1, <1>2, <1>4, <1>5, <1>6

\* Sockets of which none was created and none closed.
LEMMA SocketsKept ==
  ASSUME TypeOK, UNCHANGED socketVars
  PROVE  SocketOK' /\ opened' \in Nat /\ opened' >= opened /\ \A s \in Sockets : Live(s) => Live(s)'
BY DEF TypeOK, SocketOK, socketVars

LEMMA SocketsClosing ==
  ASSUME TypeOK, socket' = CloseCurrent, current' \in {0, current}, opened' = opened
  PROVE  SocketOK' /\ opened' \in Nat /\ opened' >= opened /\ \A s \in Sockets : Live(s) => Live(s)'
<1>1. opened \in Nat /\ current' \in 0..opened'
  BY DEF TypeOK
<1>2. \A s \in Sockets : socket'[s] = "none" <=> s > opened'
  BY ClosingKeepsLive DEF TypeOK
<1>3. \A s \in Sockets : Live(s) => Live(s)'
  BY ClosingKeepsLive
<1> QED
  BY <1>1, <1>2, <1>3, ClosingKeepsLive DEF TypeOK, SocketOK

\* The readyState of one existing socket changes.
LEMMA SocketMoves ==
  ASSUME TypeOK, NEW s \in Sockets, NEW state \in {"open", "closing", "closed"},
         NEW sockets \in {socket, CloseCurrent}, Live(s),
         socket' = [sockets EXCEPT ![s] = state], current' \in {0, current}, opened' = opened
  PROVE  SocketOK' /\ opened' \in Nat /\ opened' >= opened
<1>1. opened \in Nat /\ current' \in 0..opened'
  BY DEF TypeOK
<1>2. /\ sockets \in [Sockets -> {"none", "connecting", "open", "closing", "closed"}]
      /\ \A t \in Sockets : sockets[t] = "none" <=> t > opened
  BY ClosingKeepsLive DEF TypeOK
<1>3. ~(s > opened)
  BY DEF TypeOK
<1>4. \A t \in Sockets : socket'[t] = IF t = s THEN state ELSE sockets[t]
  BY <1>2
<1>5. \A t \in Sockets : socket'[t] = "none" <=> t > opened'
  BY <1>2, <1>3, <1>4
<1> QED
  BY <1>1, <1>2, <1>5 DEF TypeOK, SocketOK

\* The three parts of ConnectionInv after a step, from what the step does to
\* each group of variables.
LEMMA Conclude ==
  ASSUME LifeOK', SocketOK', RetryOK', BootOK', AskOK', TimerOK',
         retry' <= AutoReconnectMaxRetries,
         (heartbeat \/ ping)' => \E s \in Sockets : Live(s)'
  PROVE  ConnectionInv'
<1>1. TypeOK'
  BY TypeParts, PTL
<1>2. RetriesBounded' /\ NoTimerWithoutSocket'
  BY DEF RetriesBounded, NoTimerWithoutSocket
<1> QED
  BY <1>1, <1>2 DEF ConnectionInv

LEMMA ConnectionStep == ConnectionInv /\ [Next]_vars => ConnectionInv'
<1> SUFFICES ASSUME ConnectionInv, [Next]_vars PROVE ConnectionInv'
  OBVIOUS
<1> DEFINE LiveNow == \E s \in Sockets : Live(s)
           Quiet == UNCHANGED timerVars \/ (heartbeat' = FALSE /\ ping' = FALSE)
<1>a. TypeOK /\ retry <= AutoReconnectMaxRetries /\ (heartbeat \/ ping => LiveNow)
  BY DEF ConnectionInv, RetriesBounded, NoTimerWithoutSocket
<1>b. Quiet => TimerOK'
  BY <1>a DEF TypeOK, TimerOK, timerVars
<1>c. ASSUME Quiet, (LiveNow => LiveNow')
      PROVE  (heartbeat \/ ping)' => LiveNow'
  BY <1>a, <1>c DEF timerVars
<1>d. UNCHANGED retryVars => RetryOK' /\ retry' <= AutoReconnectMaxRetries
  BY <1>a DEF TypeOK, RetryOK, retryVars
<1>1. CASE Start
  <2>1. OpenWSConnection /\ life' = "started" /\ UNCHANGED <<stopForReset, resetting, resets>>
        /\ UNCHANGED retryVars /\ UNCHANGED bootVars /\ UNCHANGED askVars /\ UNCHANGED timerVars
    BY <1>1 DEF Start
  <2>2. SocketOK' /\ opened' \in Nat /\ opened' >= opened /\ LiveNow'
    BY <1>a, <2>1, OpeningIsLive DEF SocketOK
  <2>3. LifeOK'
    BY <1>a, <2>1 DEF TypeOK, LifeOK
  <2> QED
    BY <1>a, <1>b, <1>d, <2>1, <2>2, <2>3, Frame, Conclude
<1>2. ASSUME NEW forReset \in BOOLEAN, StopBegins(forReset), resets' \in 0..MaxResets
      PROVE  ConnectionInv'
  <2>1. life' = "stopping" /\ stopForReset' = forReset /\ resetting' = resetting
        /\ heartbeat' = FALSE /\ ping' = FALSE
        /\ UNCHANGED socketVars /\ UNCHANGED retryVars /\ UNCHANGED bootVars /\ UNCHANGED askVars
    BY <1>2 DEF StopBegins
  <2>2. LifeOK'
    BY <1>a, <1>2, <2>1 DEF TypeOK, LifeOK
  <2> QED
    BY <1>a, <1>b, <1>d, <2>1, <2>2, SocketsKept, Frame, Conclude
<1>3. CASE Stop
  <2>1. StopBegins(FALSE) /\ resets' \in 0..MaxResets
    BY <1>a, <1>3 DEF Stop, TypeOK
  <2> QED
    BY <1>2, <2>1
<1>4. CASE Reset
  <2>1. resets' \in 0..MaxResets
    BY <1>a, <1>4 DEF Reset, TypeOK
  <2>2. CASE StopBegins(TRUE)
    BY <1>2, <2>1, <2>2
  <2>3. CASE ~StopBegins(TRUE)
    <3>1. resetting' = resetting + 1 /\ life' = life /\ stopForReset' = stopForReset
          /\ UNCHANGED socketVars /\ UNCHANGED retryVars /\ UNCHANGED bootVars
          /\ UNCHANGED askVars /\ UNCHANGED timerVars
      BY <1>4, <2>3 DEF Reset
    <3>2. LifeOK'
      BY <1>a, <2>1, <3>1 DEF TypeOK, LifeOK
    <3> QED
      BY <1>a, <1>b, <1>c, <1>d, <3>1, <3>2, SocketsKept, Frame, Conclude
  <2> QED
    BY <2>2, <2>3
<1>5. CASE StopEnds
  <2>1. life' = "stopped" /\ stopForReset' = FALSE /\ resets' = resets
        /\ resetting' \in {resetting, resetting + 1}
        /\ socket' = CloseCurrent /\ current' \in {0, current} /\ opened' = opened
        /\ UNCHANGED retryVars /\ UNCHANGED askVars /\ UNCHANGED timerVars
    BY <1>5 DEF StopEnds
  <2>2. LifeOK'
    <3>1. resetting \in Nat /\ resetting + 1 \in Nat
      BY <1>a DEF TypeOK
    <3>2. resetting' \in Nat /\ resets' \in 0..MaxResets
      BY <1>a, <2>1, <3>1 DEF TypeOK
    <3>3. stopForReset' \in BOOLEAN
      BY <2>1
    <3> QED
      BY <2>1, <3>2, <3>3 DEF LifeOK
  <2>3. registration' = "unknown" /\ UNCHANGED <<boot, via, tries, bootFailed>>
    BY <1>5 DEF StopEnds
  <2>4. BootOK'
    BY <1>a, <2>1, <2>3 DEF TypeOK, BootOK
  <2> QED
    BY <1>a, <1>b, <1>c, <1>d, <2>1, <2>2, <2>4, SocketsClosing, Frame, Conclude
<1>6. CASE ResetEnds
  <2>1. resetting' = resetting - 1 /\ resetting > 0 /\ UNCHANGED <<stopForReset, resets>>
        /\ life' \in {life, "started"}
        /\ UNCHANGED retryVars /\ UNCHANGED bootVars /\ UNCHANGED askVars /\ UNCHANGED timerVars
    BY <1>6 DEF ResetEnds
  <2>2. LifeOK'
    <3>1. resetting' \in Nat
      BY <1>a, <2>1 DEF TypeOK
    <3>2. life' \in {"stopped", "started", "stopping"}
      BY <1>a, <2>1 DEF TypeOK
    <3> QED
      BY <1>a, <2>1, <3>1, <3>2 DEF TypeOK, LifeOK
  <2>3. CASE OpenWSConnection
    <3>1. SocketOK' /\ opened' \in Nat /\ opened' >= opened /\ LiveNow'
      BY <1>a, <2>3, OpeningIsLive DEF SocketOK
    <3> QED
      BY <1>a, <1>b, <1>d, <2>1, <2>2, <3>1, Frame, Conclude
  <2>4. CASE UNCHANGED socketVars
    BY <1>a, <1>b, <1>c, <1>d, <2>1, <2>2, <2>4, SocketsKept, Frame, Conclude
  <2> QED
    BY <1>6, <2>3, <2>4 DEF ResetEnds
<1>7. CASE Reconnect
  <2>1. reconnects' = reconnects - 1 /\ reconnects > 0 /\ retry' = retry /\ lastClose' = lastClose
        /\ UNCHANGED lifeVars /\ UNCHANGED bootVars /\ UNCHANGED askVars /\ UNCHANGED timerVars
    BY <1>7 DEF Reconnect
  <2>2. RetryOK' /\ retry' <= AutoReconnectMaxRetries
    BY <1>a, <2>1 DEF TypeOK, RetryOK
  <2>3. CASE ReopenWSConnection
    <3>1. SocketOK' /\ opened' \in Nat /\ opened' >= opened /\ LiveNow'
      BY <1>a, <2>3, ReopeningIsLive DEF SocketOK
    <3> QED
      BY <1>a, <1>b, <2>1, <2>2, <3>1, Frame, Conclude
  <2>4. CASE UNCHANGED socketVars
    BY <1>a, <1>b, <1>c, <2>1, <2>2, <2>4, SocketsKept, Frame, Conclude
  <2> QED
    BY <1>7, <2>3, <2>4 DEF Reconnect
<1>8. CASE OpenConnection
  <2>1. OpenWSConnection /\ UNCHANGED lifeVars
        /\ UNCHANGED retryVars /\ UNCHANGED bootVars /\ UNCHANGED askVars /\ UNCHANGED timerVars
    BY <1>8 DEF OpenConnection
  <2>2. SocketOK' /\ opened' \in Nat /\ opened' >= opened /\ LiveNow'
    BY <1>a, <2>1, OpeningIsLive DEF SocketOK
  <2> QED
    BY <1>a, <1>b, <1>d, <2>1, <2>2, Frame, Conclude
<1>9. CASE CloseConnection
  <2>1. socket' = CloseCurrent /\ current' \in {0, current} /\ opened' = opened /\ UNCHANGED lifeVars
        /\ UNCHANGED retryVars /\ UNCHANGED bootVars /\ UNCHANGED askVars /\ UNCHANGED timerVars
    BY <1>9 DEF CloseConnection
  <2> QED
    BY <1>a, <1>b, <1>c, <1>d, <2>1, SocketsClosing, Frame, Conclude
<1>10. ASSUME NEW s \in Sockets, SocketOpened(s) PROVE ConnectionInv'
  <2>1. Live(s) /\ socket' = [socket EXCEPT ![s] = "open"] /\ opened' = opened /\ current' = current
        /\ registration' = registration /\ heartbeat' = heartbeat
        /\ UNCHANGED lifeVars /\ UNCHANGED retryVars /\ UNCHANGED askVars
    BY <1>10 DEF SocketOpened
  <2>2. SocketOK' /\ opened' \in Nat /\ opened' >= opened
    <3>1. current' \in {0, current} /\ "open" \in {"open", "closing", "closed"} /\ socket \in {socket, CloseCurrent}
      BY <2>1
    <3> QED
      BY <1>a, <2>1, <3>1, SocketMoves
  <2>3. LiveNow'
    BY <1>a, <2>1 DEF TypeOK
  <2>4. ping' \in {ping, TRUE}
    BY <1>10 DEF SocketOpened
  <2>5. TimerOK'
    BY <1>a, <2>1, <2>4 DEF TypeOK, TimerOK
  <2>6. BootOK'
    <3>1. CASE UNCHANGED <<boot, via, tries, bootFailed>>
      BY <1>a, <2>1, <3>1 DEF TypeOK, BootOK
    <3>2. CASE RequestBoot(s)
      <4>1. bootFailed' \in BOOLEAN
        BY <1>a, <3>2 DEF TypeOK, RequestBoot, BootRequestFailed
      <4>2. /\ boot' \in [Sockets -> {"none", "requesting", "sleeping"}]
            /\ via' \in [Sockets -> 0..opened] /\ tries' \in [Sockets -> Nat]
        BY <1>a, <3>2, LoopTyping
      <4> QED
        BY <1>a, <2>1, <4>1, <4>2 DEF TypeOK, BootOK
    <3> QED
      BY <1>10, <3>1, <3>2 DEF SocketOpened
  <2> QED
    BY <1>a, <1>d, <2>1, <2>2, <2>3, <2>5, <2>6, Frame, Conclude
<1>11. ASSUME NEW s \in Sockets, NEW normal \in BOOLEAN, NEW sockets \in {socket, CloseCurrent},
              Live(s), socket' = [sockets EXCEPT ![s] = "closed"], current' \in {0, current},
              opened' = opened, OnClose(normal),
              UNCHANGED lifeVars, UNCHANGED bootVars, UNCHANGED askVars
       PROVE  ConnectionInv'
  <2>1. SocketOK' /\ opened' \in Nat /\ opened' >= opened
    <3>1. "closed" \in {"open", "closing", "closed"}
      OBVIOUS
    <3> QED
      BY <1>a, <1>11, <3>1, SocketMoves
  <2>2. /\ retry' \in Nat /\ reconnects' \in Nat /\ retry' <= AutoReconnectMaxRetries
        /\ lastClose' \in {"none", "normal", "abnormal", "lost"}
        /\ heartbeat' = FALSE /\ ping' = FALSE
    BY <1>a, <1>11, CloseTyping DEF RetriesBounded
  <2>3. RetryOK' /\ TimerOK'
    BY <2>2 DEF RetryOK, TimerOK
  <2> QED
    BY <1>a, <1>11, <2>1, <2>2, <2>3, Frame, Conclude
<1>12. ASSUME NEW s \in Sockets, HandshakeFailed(s) PROVE ConnectionInv'
  <2>1. Live(s) /\ socket' = [CloseCurrent EXCEPT ![s] = "closed"] /\ current' \in {0, current}
        /\ opened' = opened /\ OnClose(FALSE)
        /\ UNCHANGED lifeVars /\ UNCHANGED bootVars /\ UNCHANGED askVars
    BY <1>12 DEF HandshakeFailed
  <2> HIDE DEF Live
  <2> QED
    BY <1>11, <2>1
<1>13. ASSUME NEW s \in Sockets, SocketClosed(s) PROVE ConnectionInv'
  <2>1. Live(s) /\ socket' = [socket EXCEPT ![s] = "closed"] /\ current' \in {0, current}
        /\ opened' = opened
        /\ UNCHANGED lifeVars /\ UNCHANGED bootVars /\ UNCHANGED askVars
    BY <1>13 DEF SocketClosed
  <2>2. PICK normal \in BOOLEAN : OnClose(normal)
    BY <1>13 DEF SocketClosed
  <2> HIDE DEF Live
  <2> QED
    BY <1>11, <2>1, <2>2
<1>14. ASSUME NEW t \in Nat, t <= opened, Readable(t), NEW status \in Statuses, Registered(status),
              UNCHANGED socketVars, UNCHANGED lifeVars, AskOK', bootFailed' = bootFailed,
              boot' \in [Sockets -> {"none", "requesting", "sleeping"}],
              via' \in [Sockets -> 0..opened], tries' \in [Sockets -> Nat]
       PROVE  ConnectionInv'
  <2>1. SocketOK' /\ opened' \in Nat /\ opened' >= opened /\ (LiveNow => LiveNow')
    BY <1>a, <1>14, SocketsKept
  <2>2. LiveNow
    <3>1. t \in Sockets
      BY <1>a, <1>14 DEF TypeOK
    <3> QED
      BY <1>14, <3>1
  <2>3. /\ retry' \in Nat /\ reconnects' \in Nat /\ retry' <= AutoReconnectMaxRetries
        /\ lastClose' \in {"none", "normal", "abnormal", "lost"}
        /\ registration' \in {"unknown"} \cup Statuses
        /\ heartbeat' \in BOOLEAN /\ ping' \in BOOLEAN
    BY <1>a, <1>14, RegisteredTyping DEF RetriesBounded
  <2>4. RetryOK' /\ TimerOK'
    BY <2>3 DEF RetryOK, TimerOK
  <2>5. opened' = opened /\ bootFailed' \in BOOLEAN
    BY <1>a, <1>14 DEF TypeOK, socketVars
  <2>6. BootOK'
    BY <1>14, <2>3, <2>5 DEF BootOK
  <2> QED
    BY <1>a, <1>14, <2>1, <2>2, <2>3, <2>4, <2>6, Frame, Conclude
<1>15. ASSUME NEW s \in Sockets, BootAnswered(s) PROVE ConnectionInv'
  <2>1. Readable(via[s]) /\ via[s] \in Nat /\ via[s] <= opened
    BY <1>a, <1>15 DEF BootAnswered, TypeOK
  <2>2. PICK status \in Statuses : Registered(status) /\ (LoopEnds(s) \/ LoopSleeps(s))
    BY <1>15 DEF BootAnswered
  <2>3. UNCHANGED socketVars /\ UNCHANGED lifeVars /\ UNCHANGED askVars /\ bootFailed' = bootFailed
    BY <1>15 DEF BootAnswered
  <2>4. /\ boot' \in [Sockets -> {"none", "requesting", "sleeping"}]
        /\ via' \in [Sockets -> 0..opened] /\ tries' \in [Sockets -> Nat]
    BY <1>a, <2>2, LoopTyping
  <2>5. AskOK'
    BY <1>a, <2>3, SocketsKept, Frame
  <2> QED
    BY <1>14, <2>1, <2>2, <2>3, <2>4, <2>5
<1>16. ASSUME NEW s \in Sockets, RequestBoot(s) \/ BootRequestFailed(s) \/ LoopEnds(s),
              bootFailed' \in BOOLEAN, registration' = registration,
              UNCHANGED socketVars, UNCHANGED lifeVars, UNCHANGED retryVars,
              UNCHANGED askVars, UNCHANGED timerVars
       PROVE  ConnectionInv'
  <2>1. /\ boot' \in [Sockets -> {"none", "requesting", "sleeping"}]
        /\ via' \in [Sockets -> 0..opened] /\ tries' \in [Sockets -> Nat]
    BY <1>a, <1>16, LoopTyping
  <2>2. opened' = opened
    BY <1>16 DEF socketVars
  <2>3. BootOK'
    BY <1>a, <1>16, <2>1, <2>2 DEF TypeOK, BootOK
  <2> QED
    BY <1>a, <1>b, <1>c, <1>d, <1>16, <2>3, SocketsKept, Frame, Conclude
<1>17. ASSUME NEW s \in Sockets, BootErrored(s) PROVE ConnectionInv'
  <2>1. BootRequestFailed(s) /\ registration' = registration
        /\ UNCHANGED socketVars /\ UNCHANGED lifeVars /\ UNCHANGED retryVars
        /\ UNCHANGED askVars /\ UNCHANGED timerVars
    BY <1>17 DEF BootErrored
  <2>2. bootFailed' \in BOOLEAN
    BY <1>a, <2>1 DEF TypeOK, BootRequestFailed
  <2> QED
    BY <1>16, <2>1, <2>2
<1>18. ASSUME NEW s \in Sockets, BootAgain(s) PROVE ConnectionInv'
  <2>1. (RequestBoot(s) \/ LoopEnds(s)) /\ registration' = registration
        /\ UNCHANGED socketVars /\ UNCHANGED lifeVars /\ UNCHANGED retryVars
        /\ UNCHANGED askVars /\ UNCHANGED timerVars
    BY <1>18 DEF BootAgain
  <2>2. bootFailed' \in BOOLEAN
    BY <1>a, <1>18 DEF TypeOK, BootAgain, RequestBoot, BootRequestFailed
  <2> QED
    BY <1>16, <2>1, <2>2
<1>19. CASE AskBoot
  <2>1. asked' = current /\ askedCount' = askedCount + 1 /\ askedCount < MaxAsked
        /\ UNCHANGED socketVars /\ UNCHANGED lifeVars /\ UNCHANGED retryVars
        /\ UNCHANGED bootVars /\ UNCHANGED timerVars
    BY <1>19 DEF AskBoot
  <2>2. opened' = opened
    BY <2>1 DEF socketVars
  <2>3. AskOK'
    BY <1>a, <2>1, <2>2 DEF TypeOK, AskOK
  <2> QED
    BY <1>a, <1>b, <1>c, <1>d, <2>1, <2>3, SocketsKept, Frame, Conclude
<1>20. CASE AskedBootAnswered
  <2>1. Readable(asked) /\ asked \in Nat /\ asked <= opened /\ opened \in Nat
    BY <1>a, <1>20 DEF AskedBootAnswered, TypeOK
  <2>2. PICK status \in Statuses : Registered(status)
    BY <1>20 DEF AskedBootAnswered
  <2>3. UNCHANGED socketVars /\ UNCHANGED lifeVars /\ bootFailed' = bootFailed
        /\ asked' = 0 /\ askedCount' = askedCount /\ UNCHANGED <<boot, via, tries>>
    BY <1>20 DEF AskedBootAnswered
  <2>4. /\ boot' \in [Sockets -> {"none", "requesting", "sleeping"}]
        /\ via' \in [Sockets -> 0..opened] /\ tries' \in [Sockets -> Nat]
    BY <1>a, <2>3 DEF TypeOK
  <2>5. AskOK'
    BY <1>a, <2>1, <2>3 DEF TypeOK, AskOK, socketVars
  <2> QED
    BY <1>14, <2>1, <2>2, <2>3, <2>4, <2>5
<1>21. CASE ChangeConfiguration
  <2>1. LiveNow /\ heartbeat' \in BOOLEAN /\ ping' \in BOOLEAN
        /\ UNCHANGED socketVars /\ UNCHANGED lifeVars /\ UNCHANGED retryVars
        /\ UNCHANGED bootVars /\ UNCHANGED askVars
    BY <1>a, <1>21 DEF ChangeConfiguration, TypeOK
  <2>2. TimerOK'
    BY <1>a, <2>1 DEF TypeOK, TimerOK
  <2> QED
    BY <1>a, <1>d, <2>1, <2>2, SocketsKept, Frame, Conclude
<1>22. CASE UNCHANGED vars
  <2>1. UNCHANGED socketVars /\ UNCHANGED lifeVars /\ UNCHANGED retryVars
        /\ UNCHANGED bootVars /\ UNCHANGED askVars /\ UNCHANGED timerVars
    BY <1>22 DEF vars
  <2> QED
    BY <1>a, <1>b, <1>c, <1>d, <2>1, SocketsKept, Frame, Conclude
<1> HIDE DEF LiveNow, Quiet
<1> QED
  BY <1>1, <1>3, <1>4, <1>5, <1>6, <1>7, <1>8, <1>9, <1>10, <1>12, <1>13, <1>15,
     <1>17, <1>18, <1>19, <1>20, <1>21, <1>22 DEF Next, Registering

\* The invariant behind the theorems below.
LEMMA ConnectionInvariance == Spec => []ConnectionInv
BY ConnectionInit, ConnectionStep, PTL DEF Spec

\* Every reachable state is well formed: among others, sockets are numbered in
\* order of creation and no loop or request refers to one that does not exist.
THEOREM Typing == Spec => []TypeOK
BY ConnectionInvariance, PTL DEF ConnectionInv

\* wsConnectionRetryCount never exceeds autoReconnectMaxRetries.
THEOREM RetriesAreBounded == Spec => []RetriesBounded
BY ConnectionInvariance, PTL DEF ConnectionInv

\* Heartbeat and ping stop with the last socket, in whatever order the close
\* events of current and superseded sockets, the stops and the answers come.
THEOREM TimersStopWithSockets == Spec => []NoTimerWithoutSocket
BY ConnectionInvariance, PTL DEF ConnectionInv

\* Once rejected, a station sends no BootNotification: whatever loop wakes up
\* or socket opens, internalSendMessage refuses, until a stop or an answer to
\* an earlier request changes the registration.
THEOREM RejectedSendsNothing == Spec => RejectedStaysSilent
<1> DEFINE Step == registration = "rejected" =>
             \A s \in Sockets : boot'[s] = "requesting" => boot[s] = "requesting"
<1>1. ASSUME TypeOK, [Next]_vars PROVE Step
  <2> SUFFICES ASSUME registration = "rejected"
               PROVE  \A s \in Sockets : boot'[s] = "requesting" => boot[s] = "requesting"
    OBVIOUS
  <2>1. boot \in [Sockets -> {"none", "requesting", "sleeping"}]
    BY <1>1 DEF TypeOK
  <2>2. ASSUME NEW t \in Sockets, LoopEnds(t) \/ LoopSleeps(t)
        PROVE  \A s \in Sockets : boot'[s] = "requesting" => boot[s] = "requesting"
    BY <2>1, <2>2 DEF LoopEnds, LoopSleeps
  <2>3. ASSUME NEW t \in Sockets, RequestBoot(t) \/ BootRequestFailed(t), registration' = registration
        PROVE  LoopEnds(t) \/ LoopSleeps(t)
    BY <2>3 DEF RequestBoot, BootRequestFailed, BootCanBeSent
  <2>4. ASSUME NEW t \in Sockets, SocketOpened(t)
        PROVE  UNCHANGED boot \/ LoopEnds(t) \/ LoopSleeps(t)
    BY <2>3, <2>4 DEF SocketOpened
  <2>5. ASSUME NEW t \in Sockets, BootAnswered(t) \/ BootErrored(t) \/ BootAgain(t)
        PROVE  LoopEnds(t) \/ LoopSleeps(t)
    BY <2>3, <2>5 DEF BootAnswered, BootErrored, BootAgain
  <2>6. \/ UNCHANGED boot
        \/ \E t \in Sockets : LoopEnds(t) \/ LoopSleeps(t)
    <3>1. CASE \E t \in Sockets : SocketOpened(t) \/ BootAnswered(t) \/ BootErrored(t) \/ BootAgain(t)
      BY <2>4, <2>5, <3>1
    <3>2. CASE ~(\E t \in Sockets : SocketOpened(t) \/ BootAnswered(t) \/ BootErrored(t) \/ BootAgain(t))
      BY <1>1, <3>2 DEF Next, Registering, Start, Stop, StopBegins, Reset, StopEnds, ResetEnds, Reconnect,
         OpenConnection, CloseConnection, HandshakeFailed, SocketClosed, AskBoot, AskedBootAnswered,
         ChangeConfiguration, vars, bootVars
    <3> QED
      BY <3>1, <3>2
  <2> QED
    BY <2>2, <2>6
<1>2. TypeOK /\ [Next]_vars => [Step]_vars
  BY <1>1
<1>3. Spec => []TypeOK
  BY Typing
<1>4. Spec => [][Step]_vars
  BY <1>2, <1>3, PTL DEF Spec
<1> QED
  BY <1>4 DEF RejectedStaysSilent

-----------------------------------------------------------------------------
(* Recovery and registration *)

\* Only the close of the last live socket can take the station off the ways to
\* recover: an answer, which resets the retries, needs a live socket.
LEMMA RecoveringStep ==
  ConnectionInv /\ DisconnectedIsRecovering /\ [Next]_vars => DisconnectedIsRecovering'
<1> SUFFICES ASSUME ConnectionInv, DisconnectedIsRecovering, [Next]_vars,
                    life' = "started", \A s \in Sockets : ~Live(s)'
             PROVE  (reconnects > 0 \/ retry = AutoReconnectMaxRetries \/ lastClose = "normal")'
  BY DEF DisconnectedIsRecovering
<1>1. TypeOK /\ retry <= AutoReconnectMaxRetries /\ retry \in Nat /\ reconnects \in Nat
  BY DEF ConnectionInv, RetriesBounded, TypeOK
<1>2. ASSUME UNCHANGED retryVars, life = "started", \A s \in Sockets : Live(s) => Live(s)'
      PROVE  (reconnects > 0 \/ retry = AutoReconnectMaxRetries \/ lastClose = "normal")'
  BY <1>2 DEF DisconnectedIsRecovering, retryVars
<1>3. CASE UNCHANGED vars
  BY <1>2, <1>3 DEF vars, lifeVars, socketVars
<1>4. CASE Start \/ OpenConnection
  <2>1. OpenWSConnection
    BY <1>4 DEF Start, OpenConnection
  <2> QED BY <1>1, <2>1, OpeningIsLive
<1>5. CASE Stop \/ StopEnds \/ Reset
  <2>1. CASE \E forReset \in BOOLEAN : StopBegins(forReset)
    BY <2>1 DEF StopBegins
  <2>2. CASE Reset /\ life # "started"
    BY <2>2 DEF Reset, StopBegins
  <2>3. CASE StopEnds
    BY <2>3 DEF StopEnds
  <2> QED BY <1>5, <2>1, <2>2, <2>3 DEF Stop, Reset
<1>6. CASE ResetEnds
  <2>1. CASE Started
    <3>1. life = "started"
      BY <1>6, <2>1 DEF ResetEnds
    <3> QED BY <1>2, <1>6, <2>1, <3>1 DEF ResetEnds, socketVars
  <2>2. CASE ~Started
    BY <1>1, <1>6, <2>2, OpeningIsLive DEF ResetEnds
  <2> QED BY <2>1, <2>2
<1>7. CASE Reconnect
  <2>1. Started
    BY <1>7 DEF Reconnect, Started, lifeVars
  <2> QED BY <1>1, <1>7, <2>1, ReopeningIsLive DEF Reconnect
<1>8. CASE CloseConnection
  <2>1. socket' = CloseCurrent /\ UNCHANGED retryVars /\ life = "started"
    BY <1>8 DEF CloseConnection, lifeVars
  <2>2. \A s \in Sockets : Live(s) => Live(s)'
    BY <1>1, <2>1, ClosingKeepsLive
  <2> QED BY <1>2, <2>1, <2>2
<1>9. ASSUME NEW s \in Sockets, SocketOpened(s)
      PROVE  (reconnects > 0 \/ retry = AutoReconnectMaxRetries \/ lastClose = "normal")'
  <2>1. Live(s)'
    BY <1>1, <1>9 DEF SocketOpened, TypeOK
  <2> QED BY <2>1
<1>10. ASSUME NEW normal \in BOOLEAN, OnClose(normal), UNCHANGED life
       PROVE  (reconnects > 0 \/ retry = AutoReconnectMaxRetries \/ lastClose = "normal")'
  <2>1. CASE normal
    BY <1>10, <2>1 DEF OnClose, KindOfClose
  <2>2. CASE ~normal /\ Started /\ retry < AutoReconnectMaxRetries
    <3>1. reconnects' = reconnects + 1
      BY <1>10, <2>2 DEF OnClose, KindOfClose
    <3> QED BY <1>1, <3>1
  <2>3. CASE ~normal /\ ~(Started /\ retry < AutoReconnectMaxRetries)
    <3>1. Started
      BY <1>10 DEF Started
    <3>2. retry' = retry
      BY <1>10, <2>3 DEF OnClose, KindOfClose
    <3>3. retry = AutoReconnectMaxRetries /\ AutoReconnectMaxRetries' = AutoReconnectMaxRetries
      BY <1>1, <2>3, <3>1, ConnectionAssumption
    <3> QED BY <3>2, <3>3
  <2> QED BY <2>1, <2>2, <2>3
<1>11. ASSUME NEW s \in Sockets, HandshakeFailed(s) \/ SocketClosed(s)
       PROVE  (reconnects > 0 \/ retry = AutoReconnectMaxRetries \/ lastClose = "normal")'
  <2>1. UNCHANGED life /\ \E normal \in BOOLEAN : OnClose(normal)
    BY <1>11 DEF HandshakeFailed, SocketClosed, lifeVars
  <2> QED BY <1>10, <2>1
<1>12. CASE \/ \E s \in Sockets : BootAnswered(s)
            \/ AskedBootAnswered
  <2>1. \E s \in Sockets : Live(s)
    <3>1. \A s \in Sockets : Readable(via[s]) => via[s] \in Sockets
      BY <1>1 DEF TypeOK
    <3>2. Readable(asked) => asked \in Sockets
      BY <1>1 DEF TypeOK
    <3> QED BY <1>12, <3>1, <3>2 DEF BootAnswered, AskedBootAnswered
  <2>2. UNCHANGED socket
    BY <1>12 DEF BootAnswered, AskedBootAnswered, socketVars
  <2> QED BY <2>1, <2>2
<1>13. CASE \/ \E s \in Sockets : BootErrored(s) \/ BootAgain(s)
            \/ AskBoot \/ ChangeConfiguration
  BY <1>2, <1>13 DEF BootErrored, BootAgain, AskBoot, ChangeConfiguration, lifeVars, socketVars
<1> QED BY <1>3, <1>4, <1>5, <1>6, <1>7, <1>8, <1>9, <1>11, <1>12, <1>13 DEF Next, Registering

\* A started station without a connection reconnects (DisconnectedIsRecovering),
\* for any number of sockets, resets and retries: whichever socket closes last,
\* its close event asks for a reconnection unless it is normal or the retries
\* are used up, and no late answer resets the retries in between.
THEOREM DisconnectionIsRecovered == Spec => []DisconnectedIsRecovering
<1>1. Init => DisconnectedIsRecovering
  BY DEF Init, DisconnectedIsRecovering
<1> QED BY <1>1, ConnectionInvariance, RecoveringStep, PTL DEF Spec

\* Whether the station is started does not matter, and an answer asked for was
\* counted.
Booting ==
  /\ IsOpen /\ registration # "accepted" =>
       bootFailed \/ askedCount > 0 \/ \E s \in Sockets : boot[s] # "none"
  /\ asked # 0 => askedCount > 0

\* A turn of the loop goes on, or says that it has failed.
LEMMA LoopGoesOn ==
  ASSUME TypeOK, NEW s \in Sockets, registration # "accepted",
         RequestBoot(s) \/ BootRequestFailed(s)
  PROVE  bootFailed' \/ boot'[s] # "none"
BY DEF TypeOK, RequestBoot, BootRequestFailed, LoopEnds, LoopSleeps

LEMMA BootingStep == TypeOK /\ Booting /\ [Next]_vars => Booting'
<1> SUFFICES ASSUME TypeOK, Booting, [Next]_vars PROVE Booting'
  OBVIOUS
<1>1. ASSUME UNCHANGED <<bootVars, askVars>>, IsOpen' => IsOpen PROVE Booting'
  BY <1>1 DEF Booting, bootVars, askVars
<1>2. ASSUME NewSocket(socket) \/ NewSocket(CloseCurrent) PROVE ~IsOpen'
  <2>1. opened + 1 \in Sockets /\ CloseCurrent \in [Sockets -> {"none", "connecting", "open", "closing", "closed"}]
    BY <1>2, ClosingKeepsLive DEF NewSocket, TypeOK
  <2> QED BY <1>2, <2>1 DEF NewSocket, IsOpen, TypeOK
<1>3. CASE UNCHANGED vars
  BY <1>1, <1>3 DEF vars, socketVars, IsOpen
<1>4. ASSUME OpenWSConnection \/ UNCHANGED socketVars PROVE IsOpen' => IsOpen
  <2>1. CASE UNCHANGED socketVars
    BY <2>1 DEF socketVars, IsOpen
  <2>2. CASE OpenWSConnection /\ ~IsOpen
    <3>1. NewSocket(socket)
      BY <2>2 DEF OpenWSConnection
    <3> QED BY <1>2, <3>1
  <2> QED BY <1>4, <2>1, <2>2
<1>5. CASE Start \/ OpenConnection \/ ResetEnds
  BY <1>1, <1>4, <1>5 DEF Start, OpenConnection, ResetEnds, socketVars
<1>6. CASE Stop \/ Reset
  BY <1>1, <1>4, <1>6 DEF Stop, Reset, StopBegins
<1>7. CASE StopEnds
  <2>1. ~IsOpen'
    BY <1>7 DEF StopEnds, IsOpen, CloseCurrent
  <2> QED BY <1>7, <2>1 DEF StopEnds, Booting, askVars
<1>8. CASE Reconnect
  BY <1>1, <1>2, <1>4, <1>8 DEF Reconnect, ReopenWSConnection
<1>9. CASE CloseConnection
  BY <1>1, <1>9 DEF CloseConnection, IsOpen
<1>10. ASSUME NEW s \in Sockets, HandshakeFailed(s) \/ SocketClosed(s) PROVE Booting'
  <2>1. IsOpen' => IsOpen
    <3>1. CASE SocketClosed(s)
      BY <3>1 DEF SocketClosed, IsOpen, TypeOK
    <3>2. CASE HandshakeFailed(s) /\ IsOpen
      BY <3>2
    <3>3. CASE HandshakeFailed(s) /\ ~IsOpen
      <4>1. socket' = [socket EXCEPT ![s] = "closed"] /\ current' = current
        BY <3>3 DEF HandshakeFailed, CloseCurrent
      <4> QED BY <4>1 DEF IsOpen, TypeOK
    <3> QED BY <1>10, <3>1, <3>2, <3>3
  <2> QED BY <1>1, <1>10, <2>1 DEF HandshakeFailed, SocketClosed
<1>11. ASSUME NEW s \in Sockets, SocketOpened(s) PROVE Booting'
  <2>1. UNCHANGED <<registration, askVars>>
    BY <1>11 DEF SocketOpened
  <2>2. CASE IsOpen' /\ registration # "accepted"
    <3>1. bootFailed' \/ boot'[s] # "none"
      BY <1>11, <2>2, LoopGoesOn DEF SocketOpened
    <3> QED BY <2>1, <3>1 DEF Booting, askVars
  <2>3. CASE ~(IsOpen' /\ registration # "accepted")
    BY <2>1, <2>3 DEF Booting, askVars
  <2> QED BY <2>2, <2>3
<1>12. ASSUME NEW s \in Sockets, BootAnswered(s) PROVE Booting'
  BY <1>12 DEF BootAnswered, Registered, LoopSleeps, Booting, askVars, TypeOK
<1>13. ASSUME NEW s \in Sockets, BootErrored(s) \/ BootAgain(s) PROVE Booting'
  <2>1. UNCHANGED <<registration, askVars>>
    BY <1>13 DEF BootErrored, BootAgain
  <2>2. registration # "accepted" => bootFailed' \/ boot'[s] # "none"
    BY <1>13, LoopGoesOn DEF BootErrored, BootAgain
  <2> QED BY <2>1, <2>2 DEF Booting, askVars
<1>14. CASE AskBoot
  BY <1>14 DEF AskBoot, Booting, TypeOK
<1>15. CASE AskedBootAnswered
  BY <1>15 DEF AskedBootAnswered, Booting, TypeOK
<1>16. CASE ChangeConfiguration
  BY <1>1, <1>4, <1>16 DEF ChangeConfiguration
<1> QED BY <1>3, <1>5, <1>6, <1>7, <1>8, <1>9, <1>10, <1>11, <1>12, <1>13, <1>14, <1>15, <1>16
        DEF Next, Registering

\* A connected station that is not registered has a loop that registers it
\* (UnregisteredIsBooting), for any number of sockets and loops: a loop ends only
\* registered or failed, whichever socket it was started for.
THEOREM ConnectionRegisters == Spec => []UnregisteredIsBooting
<1>1. Init => Booting
  BY DEF Init, Booting, IsOpen
<1>2. Booting => UnregisteredIsBooting
  BY DEF Booting, UnregisteredIsBooting
<1> QED BY <1>1, <1>2, Typing, BootingStep, PTL DEF Spec

=============================================================================
