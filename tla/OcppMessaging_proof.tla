------------------------ MODULE OcppMessaging_proof ------------------------
(***************************************************************************)
(* Proofs about OcppMessaging, for every set of messages, every bound on    *)
(* connection losses and every number of loop identities.                   *)
(***************************************************************************)
EXTENDS OcppMessaging, SequenceTheorems, FiniteSetTheorems, FunctionTheorems, TLAPS

Buffered(m) == \E i \in DOMAIN queue : queue[i] = m

\* What an activation of sendMessageBuffer gave to ws.send is still the head
\* of the buffer when the callback runs.
LoopHoldsHead ==
  \A l \in Loops : loop[l] \in {"sending", "failing"} =>
    queue # <<>> /\ head[l] = Head(queue)

BufferInv ==
  /\ TypeOK
  /\ OneFlushLoop
  /\ LoopHoldsHead
  /\ BufferKeepsOrder

-----------------------------------------------------------------------------
(* Steps seen from the buffer *)

\* A step that leaves the buffer and its flush loop alone.
BufferQuiet == UNCHANGED <<queue, pushed, flushing, loop, head, flushed>>

\* A step that buffers a message.
BufferPush(m) ==
  /\ queue' = Append(queue, m)
  /\ pushed' = Append(pushed, m)
  /\ UNCHANGED <<flushing, loop, head, flushed>>

\* A step that starts, continues or ends the flush loop, buffer unchanged.
BufferTurn(l) ==
  /\ loop[l] = "sleeping" \/ (loop[l] = "idle" /\ ~flushing)
  /\ SendMessageBuffer(l)
  /\ UNCHANGED <<queue, pushed, flushed>>


-----------------------------------------------------------------------------
(* Type correctness *)

LEMMA InitTyped == Init => TypeOK
<1> SUFFICES ASSUME Init PROVE TypeOK
  OBVIOUS
<1>1. /\ losses \in 0..MaxLosses
      /\ queue \in Seq(Messages) /\ pushed \in Seq(Messages) /\ flushed \in Seq(Messages)
  BY MessagesAssumption DEF Init
<1>2. /\ promise \in [Messages -> {"none", "pending", "settled"}]
      /\ handling \in [Slow -> Nat]
      /\ loop \in [Loops -> {"idle", "sending", "failing", "sleeping", "lost"}]
      /\ head \in [Loops -> Messages \cup {NoMessage}]
      /\ sent \in [Messages -> Nat] /\ answered \in [Messages -> Nat]
  BY DEF Init
<1>3. QED BY <1>1, <1>2 DEF Init, TypeOK

LEMMA SettleTyped ==
  ASSUME TypeOK, NEW m \in Messages, Settle(m)
  PROVE  promise' \in [Messages -> {"none", "pending", "settled"}]
  BY DEF TypeOK, Settle

LEMMA SendErrorTyped ==
  ASSUME TypeOK, NEW m \in Messages, HandleSendError(m)
  PROVE  /\ requests' \subseteq Calls
         /\ queue' \in Seq(Messages) /\ pushed' \in Seq(Messages)
         /\ interval' \in BOOLEAN
<1>1. CASE m \in Unbuffered
  BY <1>1 DEF TypeOK, HandleSendError, bufferVars
<1>2. CASE m \notin Unbuffered
  <2>1. BufferMessage(m) /\ requests' = requests \cup ({m} \cap Calls)
    BY <1>2 DEF HandleSendError
  <2>2. QED BY <2>1 DEF TypeOK, BufferMessage
<1>3. QED BY <1>1, <1>2

LEMMA TurnTyped ==
  ASSUME TypeOK, NEW l \in Loops, SendMessageBuffer(l)
  PROVE  /\ loop' \in [Loops -> {"idle", "sending", "failing", "sleeping", "lost"}]
         /\ head' \in [Loops -> Messages \cup {NoMessage}]
         /\ flushing' \in BOOLEAN
<1>1. CASE queue = <<>>
  BY <1>1 DEF TypeOK, SendMessageBuffer
<1>2. CASE queue # <<>>
  <2>1. Head(queue) \in Messages
    BY <1>2 DEF TypeOK
  <2>2. \E c \in {"sending", "failing", "lost"} : loop' = [loop EXCEPT ![l] = c]
    BY <1>2 DEF SendMessageBuffer
  <2>3. /\ head' = [head EXCEPT ![l] = Head(queue)]
        /\ flushing' = TRUE
    BY <1>2 DEF SendMessageBuffer
  <2>4. QED BY <2>1, <2>2, <2>3 DEF TypeOK
<1>3. QED BY <1>1, <1>2

LEMMA RequestingTyped ==
  ASSUME TypeOK, NEW m \in Messages, Requesting(m)
  PROVE  TypeOK'
<1> USE DEF TypeOK, connectionVars, flushVars, wireVars
<1>1. CASE SendOpen(m)
  BY <1>1 DEF SendOpen, bufferVars
<1>2. CASE SendNotOpen(m)
  BY <1>2, SendErrorTyped DEF SendNotOpen
<1>3. CASE SendRefused(m)
  BY <1>3 DEF SendRefused, bufferVars
<1>4. CASE SendTimeout(m)
  BY <1>4, SendErrorTyped, SettleTyped DEF SendTimeout
<1>5. CASE SendSucceeded(m)
  <2>1. sent' \in [Messages -> Nat]
    BY <1>5 DEF SendSucceeded
  <2>2. requests' \subseteq Calls /\ promise' \in [Messages -> {"none", "pending", "settled"}]
    BY <1>5, SettleTyped DEF SendSucceeded
  <2>3. callback' \subseteq Messages /\ timer' \subseteq callback'
    BY <1>5 DEF SendSucceeded
  <2>4. QED BY <1>5, <2>1, <2>2, <2>3 DEF SendSucceeded, bufferVars
<1>6. CASE SendFailed(m)
  BY <1>6, SendErrorTyped, SettleTyped DEF SendFailed
<1>7. QED BY <1>1, <1>2, <1>3, <1>4, <1>5, <1>6 DEF Requesting

LEMMA AnsweringTyped ==
  ASSUME TypeOK, NEW m \in Messages, Answering(m)
  PROVE  TypeOK'
<1> USE SettleTyped DEF TypeOK, bufferVars, flushVars, Answer
<1>1. CASE Response(m)
  <2>1. registration' \in {"unknown", "pending", "accepted", "rejected"}
        /\ sequence' \in BOOLEAN /\ UNCHANGED <<ws, losses>>
    BY <1>1 DEF Response, RegisterAs, connectionVars
  <2>2. /\ answered' \in [Messages -> Nat] /\ UNCHANGED sent
        /\ requests' \subseteq Calls
        /\ promise' \in [Messages -> {"none", "pending", "settled"}]
    BY <1>1 DEF Response
  <2>3. UNCHANGED <<callback, timer, handling, timedOut, bufferVars, flushVars, crashed>>
    BY <1>1 DEF Response
  <2>4. QED BY <2>1, <2>2, <2>3
<1>2. CASE SlowResponse(m)
  BY <1>2 DEF SlowResponse, connectionVars
<1>3. CASE SlowHandlerDone(m)
  <2>1. /\ handling \in [Slow -> Nat] /\ m \in Slow /\ handling[m] > 0
        /\ handling' = [handling EXCEPT ![m] = @ - 1]
    BY <1>3 DEF SlowHandlerDone
  <2>2. handling' \in [Slow -> Nat]
    BY ONLY <2>1
  <2>3. requests' \subseteq Calls
    BY <1>3 DEF SlowHandlerDone
  <2>4. QED BY <1>3, <2>2, <2>3 DEF SlowHandlerDone, connectionVars, wireVars
<1>4. CASE ErrorAnswer(m)
  <2>0. /\ answered \in [Messages -> Nat] /\ requests \subseteq Calls
        /\ answered' = [answered EXCEPT ![m] = @ + 1] /\ requests' = requests \ {m}
    BY <1>4 DEF ErrorAnswer
  <2>1. answered' \in [Messages -> Nat] /\ requests' \subseteq Calls
    BY ONLY <2>0
  <2>2. promise' \in [Messages -> {"none", "pending", "settled"}]
    BY <1>4 DEF ErrorAnswer
  <2>3. UNCHANGED <<connectionVars, callback, timer, handling, timedOut, bufferVars, flushVars, crashed, sent>>
    BY <1>4 DEF ErrorAnswer
  <2>4. QED BY <2>1, <2>2, <2>3 DEF connectionVars
<1>5. CASE UnknownAnswer(m)
  BY <1>5 DEF UnknownAnswer, connectionVars, requestVars
<1>6. QED BY <1>1, <1>2, <1>3, <1>4, <1>5 DEF Answering

LEMMA FlushingTyped ==
  ASSUME TypeOK, LoopHoldsHead, Flushing
  PROVE  TypeOK'
<1> USE DEF TypeOK, connectionVars, requestVars, wireVars
<1>1. ASSUME NEW l \in Loops, FlushSucceeded(l) PROVE TypeOK'
  <2>1. queue # <<>> /\ head[l] = Head(queue) /\ queue \in Seq(Messages)
    BY <1>1 DEF FlushSucceeded, LoopHoldsHead
  <2>2. head[l] \in Messages /\ Tail(queue) \in Seq(Messages)
    BY ONLY <2>1, HeadTailProperties
  <2>3. sent' \in [Messages -> Nat] /\ flushed' \in Seq(Messages) /\ queue' \in Seq(Messages)
    BY <1>1, <2>1, <2>2 DEF FlushSucceeded
  <2>4. loop' \in [Loops -> {"idle", "sending", "failing", "sleeping", "lost"}]
    BY <1>1 DEF FlushSucceeded
  <2>5. QED BY <1>1, <2>3, <2>4 DEF FlushSucceeded
<1>2. ASSUME NEW l \in Loops, FlushFailed(l) PROVE TypeOK'
  BY <1>2 DEF FlushFailed, bufferVars
<1>3. ASSUME NEW l \in Loops, FlushAgain(l) PROVE TypeOK'
  BY <1>3, TurnTyped DEF FlushAgain, bufferVars
<1>4. CASE FlushInterval
  BY <1>4, TurnTyped DEF FlushInterval, FlushMessageBuffer, flushVars
<1>5. CASE EndOfMessageSequence
  BY <1>5, TurnTyped DEF EndOfMessageSequence, FlushMessageBuffer, bufferVars, flushVars
<1>6. CASE MessageSequenceFails
  BY <1>6 DEF MessageSequenceFails, bufferVars, flushVars
<1>7. QED BY <1>1, <1>2, <1>3, <1>4, <1>5, <1>6 DEF Flushing

LEMMA ConnectingTyped ==
  ASSUME TypeOK, Connecting
  PROVE  TypeOK'
<1> USE MessagesAssumption DEF TypeOK, SetConnection, bufferVars, requestVars, flushVars, wireVars
<1>1. CASE Connect \/ Opened
  BY <1>1 DEF Connect, Opened
<1>2. CASE HandshakeFailed
  BY <1>2 DEF HandshakeFailed
<1>3. CASE Dropped \/ CloseWSConnection
  BY <1>3 DEF Dropped, CloseWSConnection
<1>4. CASE StopStation
  BY <1>4 DEF StopStation
<1>5. QED BY <1>1, <1>2, <1>3, <1>4 DEF Connecting

LEMMA StutterTyped == TypeOK /\ UNCHANGED vars => TypeOK'
  BY DEF TypeOK, vars, connectionVars, requestVars, bufferVars, flushVars, wireVars

-----------------------------------------------------------------------------
(* The buffer and its flush loop *)

\* Every step leaves the buffer alone, buffers one message, or is a step of
\* the flush loop; only the loop's own success takes a message out.
LEMMA BufferSteps ==
  ASSUME Next
  PROVE  \/ BufferQuiet
         \/ \E m \in Messages : BufferPush(m)
         \/ \E l \in Loops : BufferTurn(l) \/ FlushSucceeded(l) \/ FlushFailed(l)
<1> USE DEF BufferQuiet, flushVars
<1>1. ASSUME NEW m \in Messages, Requesting(m) PROVE BufferQuiet \/ BufferPush(m)
  <2>1. CASE SendOpen(m) \/ SendRefused(m) \/ SendSucceeded(m)
    BY <2>1 DEF SendOpen, SendRefused, SendSucceeded, bufferVars
  <2>2. CASE SendNotOpen(m) \/ SendTimeout(m) \/ SendFailed(m)
    <3>1. HandleSendError(m) /\ UNCHANGED flushVars
      BY <2>2 DEF SendNotOpen, SendTimeout, SendFailed
    <3>2. QED BY <3>1 DEF HandleSendError, BufferMessage, BufferPush, bufferVars
  <2>3. QED BY <1>1, <2>1, <2>2 DEF Requesting
<1>2. ASSUME NEW m \in Messages, Answering(m) PROVE BufferQuiet
  BY <1>2 DEF Answering, Response, SlowResponse, SlowHandlerDone, ErrorAnswer, UnknownAnswer, bufferVars
<1>3. CASE Connecting
  BY <1>3 DEF Connecting, Connect, Opened, HandshakeFailed, Dropped, CloseWSConnection,
              StopStation, SetConnection, bufferVars
<1>4. ASSUME FlushMessageBuffer, UNCHANGED <<queue, pushed>>
      PROVE  BufferQuiet \/ \E l \in Loops : BufferTurn(l)
  BY <1>4 DEF FlushMessageBuffer, BufferTurn
<1>5. CASE Flushing
  <2>1. ASSUME NEW l \in Loops, FlushAgain(l) PROVE BufferTurn(l)
    BY <2>1 DEF FlushAgain, BufferTurn, bufferVars
  <2>2. CASE FlushInterval
    BY <2>2, <1>4 DEF FlushInterval
  <2>3. CASE EndOfMessageSequence
    BY <2>3, <1>4 DEF EndOfMessageSequence, bufferVars
  <2>4. CASE MessageSequenceFails
    BY <2>4 DEF MessageSequenceFails, bufferVars, flushVars
  <2>5. QED BY <1>5, <2>1, <2>2, <2>3, <2>4 DEF Flushing
<1>6. QED BY <1>1, <1>2, <1>3, <1>5 DEF Next

LEMMA MoveHead ==
  ASSUME NEW S, NEW s \in Seq(S), NEW t \in Seq(S), t # <<>>
  PROVE  s \o t = Append(s, Head(t)) \o Tail(t)
OBVIOUS

\* The buffer's invariant is inductive.
LEMMA BufferInvInductive ==
  ASSUME BufferInv, [Next]_vars
  PROVE  BufferInv'
<1>1. TypeOK'
  <2>1. CASE Next
    BY <2>1, RequestingTyped, AnsweringTyped, FlushingTyped, ConnectingTyped DEF Next, BufferInv
  <2>2. CASE UNCHANGED vars
    BY <2>2, StutterTyped DEF BufferInv
  <2>3. QED BY <2>1, <2>2
<1> DEFINE Rest == OneFlushLoop /\ LoopHoldsHead /\ BufferKeepsOrder
<1> USE DEF OneFlushLoop, LoopHoldsHead, BufferKeepsOrder
<1>2. ASSUME BufferQuiet PROVE Rest'
  BY <1>2 DEF BufferInv, BufferQuiet
<1>3. ASSUME NEW m \in Messages, BufferPush(m) PROVE Rest'
  <2>1. queue \in Seq(Messages) /\ flushed \in Seq(Messages)
    BY DEF BufferInv, TypeOK
  <2>2. BufferKeepsOrder'
    <3>1. /\ pushed = flushed \o queue /\ flushed' = flushed
          /\ pushed' = Append(pushed, m) /\ queue' = Append(queue, m)
      BY <1>3 DEF BufferInv, BufferPush
    <3>0. m \in Messages
      OBVIOUS
    <3>2. Append(flushed \o queue, m) = flushed \o Append(queue, m)
      BY ONLY <2>1, <3>0
    <3>3. QED BY <3>1, <3>2
  <2>3. queue # <<>> => queue' # <<>> /\ Head(queue') = Head(queue)
    BY <1>3, <2>1 DEF BufferPush
  <2>4. OneFlushLoop' /\ LoopHoldsHead'
    BY <1>3, <2>3 DEF BufferInv, BufferPush
  <2>5. QED BY <2>2, <2>4
<1>4. ASSUME NEW l \in Loops, BufferTurn(l) PROVE Rest'
  <2>1. \A k \in Loops : k # l => loop[k] = "idle"
    BY <1>4 DEF BufferInv, BufferTurn
  <2>2. \A k \in Loops : k # l => loop'[k] = "idle"
    BY <1>4, <2>1 DEF BufferInv, TypeOK, BufferTurn, SendMessageBuffer
  <2>3. (loop'[l] = "idle" /\ queue = <<>>) \/ (flushing' /\ queue # <<>> /\ head'[l] = Head(queue))
    BY <1>4 DEF BufferInv, TypeOK, BufferTurn, SendMessageBuffer
  <2>4. UNCHANGED <<queue, pushed, flushed>>
    BY <1>4 DEF BufferTurn
  <2>5. QED BY <2>2, <2>3, <2>4 DEF BufferInv
<1>5. ASSUME NEW l \in Loops, FlushSucceeded(l) PROVE Rest'
  <2>1. /\ queue # <<>> /\ head[l] = Head(queue)
        /\ queue \in Seq(Messages) /\ flushed \in Seq(Messages)
    BY <1>5 DEF BufferInv, TypeOK, FlushSucceeded
  <2>2. BufferKeepsOrder'
    BY <1>5, <2>1, MoveHead DEF BufferInv, FlushSucceeded
  <2>3. \A k \in Loops : k # l => loop[k] = "idle"
    BY <1>5 DEF BufferInv, FlushSucceeded
  <2>4. loop'[l] = "sleeping" /\ (\A k \in Loops : k # l => loop'[k] = "idle") /\ flushing'
    BY <1>5, <2>3 DEF BufferInv, TypeOK, FlushSucceeded
  <2>5. QED BY <2>2, <2>4
<1>6. ASSUME NEW l \in Loops, FlushFailed(l) PROVE Rest'
  <2>1. \A k \in Loops : k # l => loop[k] = "idle"
    BY <1>6 DEF BufferInv, FlushFailed
  <2>2. loop'[l] = "sleeping" /\ (\A k \in Loops : k # l => loop'[k] = "idle") /\ flushing'
    BY <1>6, <2>1 DEF BufferInv, TypeOK, FlushFailed
  <2>3. UNCHANGED <<queue, pushed, flushed>>
    BY <1>6 DEF FlushFailed, bufferVars
  <2>4. QED BY <2>2, <2>3 DEF BufferInv
<1>7. Rest'
  <2>1. CASE Next
    BY <2>1, BufferSteps, <1>2, <1>3, <1>4, <1>5, <1>6
  <2>2. CASE UNCHANGED vars
    BY <2>2, <1>2 DEF BufferQuiet, vars, bufferVars, flushVars
  <2>3. QED BY <2>1, <2>2
<1>8. QED BY <1>1, <1>7 DEF BufferInv

LEMMA InitBufferInv == Init => BufferInv
<1> SUFFICES ASSUME Init PROVE BufferInv
  OBVIOUS
<1>1. OneFlushLoop /\ LoopHoldsHead
  BY DEF Init, OneFlushLoop, LoopHoldsHead
<1>2. BufferKeepsOrder
  BY DEF Init, BufferKeepsOrder
<1>3. QED BY <1>1, <1>2, InitTyped DEF BufferInv

LEMMA BufferInvariant == Spec => []BufferInv
<1>1. Init => BufferInv
  BY InitBufferInv
<1>2. BufferInv /\ [Next]_vars => BufferInv'
  BY BufferInvInductive
<1>3. QED BY <1>1, <1>2, PTL DEF Spec

\* Type correctness of the request engine and of the message buffer.
THEOREM Typing == Spec => []TypeOK
<1>1. BufferInv => TypeOK
  BY DEF BufferInv
<1>2. QED BY <1>1, BufferInvariant, PTL

\* flushMessageBuffer never runs two activations of sendMessageBuffer.
THEOREM FlushIsExclusive == Spec => []OneFlushLoop
<1>1. BufferInv => OneFlushLoop
  BY DEF BufferInv
<1>2. QED BY <1>1, BufferInvariant, PTL

\* messageQueue loses, duplicates and reorders nothing.
THEOREM BufferIsFifo == Spec => []BufferKeepsOrder
<1>1. BufferInv => BufferKeepsOrder
  BY DEF BufferInv
<1>2. QED BY <1>1, BufferInvariant, PTL

\* The message buffer implements an outbox: every step of the station accepts a
\* message, delivers the oldest undelivered one, or does neither.
THEOREM BufferIsAnOutbox == Spec => ImplementsOutbox
<1>1. Init => Outbox!Init
  BY DEF Init, Outbox!Init
<1>2. BufferInv /\ [Next]_vars => [Outbox!Next]_(Outbox!vars)
  <2> SUFFICES ASSUME BufferInv, [Next]_vars PROVE [Outbox!Next]_(Outbox!vars)
    OBVIOUS
  <2>1. BufferQuiet \/ (\E l \in Loops : BufferTurn(l) \/ FlushFailed(l)) => UNCHANGED Outbox!vars
    BY DEF BufferQuiet, BufferTurn, FlushFailed, bufferVars, Outbox!vars
  <2>2. ASSUME NEW m \in Messages, BufferPush(m) PROVE Outbox!Accept(m)
    BY <2>2 DEF BufferPush, Outbox!Accept
  <2>3. ASSUME NEW l \in Loops, FlushSucceeded(l) PROVE Outbox!Deliver
    <3>1. /\ queue # <<>> /\ head[l] = Head(queue) /\ pushed = flushed \o queue
          /\ queue \in Seq(Messages) /\ flushed \in Seq(Messages)
      BY <2>3 DEF BufferInv, LoopHoldsHead, BufferKeepsOrder, TypeOK, FlushSucceeded
    <3>2. Len(flushed) < Len(pushed) /\ pushed[Len(flushed) + 1] = head[l]
      BY ONLY <3>1
    <3>3. QED BY <2>3, <3>2 DEF FlushSucceeded, Outbox!Deliver
  <2>4. CASE Next
    BY <2>4, BufferSteps, <2>1, <2>2, <2>3 DEF Outbox!Next
  <2>5. CASE UNCHANGED vars
    BY <2>5, <2>1 DEF BufferQuiet, vars, bufferVars, flushVars
  <2>6. QED BY <2>4, <2>5
<1>3. QED BY <1>1, <1>2, BufferInvariant, PTL DEF Spec, ImplementsOutbox, Outbox!Spec

-----------------------------------------------------------------------------
(* The request cache *)

\* A message nobody asked to send yet has left no trace.
UnsentIsFresh ==
  \A m \in Messages : promise[m] = "none" => sent[m] = 0 /\ m \notin callback /\ ~Buffered(m)

\* A request that must not be buffered is sent once, directly.
UnbufferedIsDirect ==
  \A m \in Unbuffered : ~Buffered(m) /\ (m \in callback => sent[m] = 0)

HandlingIsAnswered ==
  \A m \in Slow : handling[m] > 0 => answered[m] > 0

\* A call on its way to the server, or already there, is in the cache until
\* it is answered.
UnansweredIsCached ==
  \A m \in Calls : (Buffered(m) \/ sent[m] > 0) /\ answered[m] = 0 => m \in requests

CacheInv ==
  /\ UnsentIsFresh
  /\ UnbufferedIsDirect
  /\ HandlingIsAnswered
  /\ UnansweredIsCached
  /\ PendingIsAnswerable

LEMMA BufferedAfterPush ==
  ASSUME TypeOK, NEW x \in Messages, queue' = Append(queue, x), NEW m
  PROVE  Buffered(m)' <=> Buffered(m) \/ m = x
<1>1. queue \in Seq(Messages) /\ queue' = Append(queue, x)
  BY DEF TypeOK
<1>2. /\ DOMAIN queue = 1..Len(queue) /\ DOMAIN queue' = 1..(Len(queue) + 1) /\ Len(queue) \in Nat
      /\ queue'[Len(queue) + 1] = x
      /\ \A i \in 1..Len(queue) : queue'[i] = queue[i]
  BY <1>1
<1>3. DOMAIN queue' = DOMAIN queue \cup {Len(queue) + 1}
  BY ONLY <1>2
<1>4. QED BY <1>2, <1>3 DEF Buffered

LEMMA BufferedAfterShift ==
  ASSUME TypeOK, queue # <<>>, queue' = Tail(queue), NEW m
  PROVE  /\ Buffered(m)' => Buffered(m)
         /\ Buffered(Head(queue))
<1>1. queue \in Seq(Messages) /\ queue # <<>> /\ queue' = Tail(queue)
  BY DEF TypeOK
<1>2. /\ DOMAIN queue = 1..Len(queue) /\ 1 \in DOMAIN queue /\ Head(queue) = queue[1]
      /\ \A i \in DOMAIN queue' : i + 1 \in DOMAIN queue /\ queue'[i] = queue[i + 1]
  BY ONLY <1>1
<1>3. QED BY <1>2 DEF Buffered

LEMMA BufferedUnchanged ==
  ASSUME UNCHANGED queue, NEW m
  PROVE  Buffered(m)' <=> Buffered(m)
BY DEF Buffered

\* What handleSendError does to the buffer and to the cache.
LEMMA SendErrorEffect ==
  ASSUME TypeOK, NEW x \in Messages, HandleSendError(x), NEW m
  PROVE  /\ x \in Unbuffered => (Buffered(m)' <=> Buffered(m)) /\ requests' = requests \ {x}
         /\ x \notin Unbuffered => /\ Buffered(m)' <=> Buffered(m) \/ m = x
                                  /\ requests' = requests \cup ({x} \cap Calls)
<1>1. CASE x \in Unbuffered
  BY <1>1, BufferedUnchanged DEF HandleSendError, bufferVars
<1>2. CASE x \notin Unbuffered
  BY <1>2, BufferedAfterPush DEF HandleSendError, BufferMessage
<1>3. QED BY <1>1, <1>2

LEMMA SettleEffect ==
  ASSUME TypeOK, NEW x \in Messages, Settle(x), NEW m \in Messages
  PROVE  /\ promise'[m] = "pending" => promise[m] = "pending" /\ m # x
         /\ promise'[m] = "none" => promise[m] = "none"
BY DEF TypeOK, Settle

LEMMA RequestingKeepsCache ==
  ASSUME TypeOK, CacheInv, NEW x \in Messages, Requesting(x)
  PROVE  CacheInv'
<1>0. /\ UNCHANGED <<handling, answered>>
      /\ Unbuffered \subseteq Calls /\ Calls \subseteq Messages /\ Slow \subseteq Calls
  BY MessagesAssumption DEF Requesting, SendOpen, SendNotOpen, SendRefused, SendTimeout,
     SendSucceeded, SendFailed, wireVars, Messages
<1>1. HandlingIsAnswered'
  BY <1>0 DEF CacheInv, HandlingIsAnswered
<1> DEFINE Rest == UnsentIsFresh /\ UnbufferedIsDirect /\ UnansweredIsCached /\ PendingIsAnswerable
<1> USE DEF UnsentIsFresh, UnbufferedIsDirect, UnansweredIsCached, PendingIsAnswerable
<1>2. CASE SendOpen(x)
  <2>1. /\ sent[x] = 0 /\ \A m : Buffered(m)' <=> Buffered(m)
        /\ UNCHANGED <<sent, requests>>
    BY <1>2, BufferedUnchanged DEF CacheInv, SendOpen, bufferVars, wireVars
  <2>2. Rest'
    BY <1>0, <1>2, <2>1 DEF CacheInv, SendOpen, TypeOK
  <2>3. QED BY <1>1, <2>2 DEF CacheInv
<1>3. CASE SendNotOpen(x)
  <2>1. /\ sent[x] = 0 /\ x \notin callback /\ UNCHANGED <<sent, callback>>
        /\ promise' = [promise EXCEPT ![x] = "settled"] /\ HandleSendError(x)
    BY <1>3 DEF CacheInv, SendNotOpen, wireVars
  <2>2. \A m \in Messages : IF m = x THEN promise'[m] = "settled" ELSE promise'[m] = promise[m]
    BY <2>1 DEF TypeOK
  <2>3. UnsentIsFresh' /\ UnbufferedIsDirect'
    BY <1>0, <2>1, <2>2, SendErrorEffect DEF CacheInv
  <2>4. UnansweredIsCached'
    BY <1>0, <2>1, SendErrorEffect DEF CacheInv
  <2>5. PendingIsAnswerable'
    BY <1>0, <2>1, <2>2, SendErrorEffect DEF CacheInv
  <2>6. QED BY <1>1, <2>3, <2>4, <2>5 DEF CacheInv
<1>4. CASE SendRefused(x)
  <2>1. /\ \A m : Buffered(m)' <=> Buffered(m)
        /\ UNCHANGED <<sent, requests, callback>>
        /\ promise' = [promise EXCEPT ![x] = "settled"]
    BY <1>4, BufferedUnchanged DEF SendRefused, bufferVars, wireVars
  <2>2. Rest'
    BY <1>0, <2>1 DEF CacheInv, TypeOK
  <2>3. QED BY <1>1, <2>2 DEF CacheInv
<1>5. CASE SendTimeout(x) \/ SendFailed(x)
  <2>1. /\ x \in callback /\ callback' \subseteq callback /\ callback \subseteq callback' \cup {x}
        /\ UNCHANGED sent /\ HandleSendError(x) /\ Settle(x)
    BY <1>5 DEF TypeOK, SendTimeout, SendFailed, wireVars
  <2>2. UnsentIsFresh'
    BY <2>1, SendErrorEffect, SettleEffect DEF CacheInv
  <2>3. UnbufferedIsDirect'
    BY <2>1, SendErrorEffect DEF CacheInv
  <2>4. UnansweredIsCached'
    BY <1>0, <2>1, SendErrorEffect DEF CacheInv
  <2>5. PendingIsAnswerable'
    BY <1>0, <2>1, SendErrorEffect, SettleEffect DEF CacheInv
  <2>6. QED BY <1>1, <2>2, <2>3, <2>4, <2>5 DEF CacheInv
<1>6. CASE SendSucceeded(x)
  <2>1. /\ \A m : Buffered(m)' <=> Buffered(m)
        /\ x \in callback /\ callback' = callback \ {x}
        /\ sent' = [sent EXCEPT ![x] = @ + 1]
    BY <1>6, BufferedUnchanged DEF SendSucceeded, bufferVars
  <2>2. \A m \in Messages : m # x => sent'[m] = sent[m]
    BY <2>1 DEF TypeOK
  <2>3. requests \subseteq requests' /\ (x \in Calls => x \in requests')
    BY <1>6, MessagesAssumption DEF SendSucceeded
  <2>4. \A m \in Messages : /\ promise'[m] = "pending" => promise[m] = "pending"
                            /\ promise'[m] = "none" => promise[m] = "none"
    BY <1>6, SettleEffect DEF SendSucceeded
  <2>5. Rest'
    BY <1>0, <2>1, <2>2, <2>3, <2>4 DEF CacheInv
  <2>6. QED BY <1>1, <2>5 DEF CacheInv
<1>7. QED BY <1>2, <1>3, <1>4, <1>5, <1>6 DEF Requesting

LEMMA AnsweringKeepsCache ==
  ASSUME TypeOK, CacheInv, NEW x \in Messages, Answering(x)
  PROVE  CacheInv'
<1>0. /\ Unbuffered \subseteq Calls /\ Calls \subseteq Messages /\ Slow \subseteq Calls
  BY MessagesAssumption DEF Messages
<1>1. /\ UNCHANGED <<sent, callback>> /\ \A m : Buffered(m)' <=> Buffered(m)
  BY BufferedUnchanged DEF Answering, Answer, Response, SlowResponse, SlowHandlerDone, ErrorAnswer,
     UnknownAnswer, bufferVars, wireVars, requestVars
<1>2. UnbufferedIsDirect'
  BY <1>1 DEF CacheInv, UnbufferedIsDirect
<1>3. ASSUME Answer(x)
      PROVE  /\ answered'[x] > 0
             /\ \A m \in Messages : m # x => answered'[m] = answered[m]
             /\ \A m \in Messages : answered[m] > 0 => answered'[m] > 0
  BY <1>3 DEF Answer, TypeOK
<1>4. CASE (Response(x) \/ ErrorAnswer(x)) \/ SlowHandlerDone(x)
  <2>1. /\ requests' = requests \ {x} /\ Settle(x)
    BY <1>4 DEF Response, ErrorAnswer, SlowHandlerDone
  <2>2. /\ answered'[x] > 0
        /\ \A m \in Messages : m # x => answered'[m] = answered[m]
        /\ \A m \in Messages : answered[m] > 0 => answered'[m] > 0
    <3>1. CASE SlowHandlerDone(x)
      BY <3>1 DEF SlowHandlerDone, wireVars, CacheInv, HandlingIsAnswered
    <3>2. CASE Response(x) \/ ErrorAnswer(x)
      BY <3>2, <1>3 DEF Response, ErrorAnswer
    <3>3. QED BY <1>4, <3>1, <3>2
  <2>3. \A m \in Slow : handling'[m] > 0 => handling[m] > 0
    <3>1. CASE SlowHandlerDone(x)
      <4>1. /\ handling \in [Slow -> Nat] /\ x \in Slow /\ handling[x] > 0
            /\ handling' = [handling EXCEPT ![x] = @ - 1]
        BY <3>1 DEF SlowHandlerDone, TypeOK
      <4>2. QED BY ONLY <4>1
    <3>2. CASE Response(x) \/ ErrorAnswer(x)
      BY <3>2 DEF Response, ErrorAnswer
    <3>3. QED BY <1>4, <3>1, <3>2
  <2>4. HandlingIsAnswered'
    BY <1>0, <2>2, <2>3 DEF CacheInv, HandlingIsAnswered
  <2>5. UnansweredIsCached'
    BY <1>0, <1>1, <2>1, <2>2 DEF CacheInv, UnansweredIsCached, TypeOK
  <2>6. UnsentIsFresh' /\ PendingIsAnswerable'
    BY <1>0, <1>1, <2>1, SettleEffect DEF CacheInv, UnsentIsFresh, PendingIsAnswerable
  <2>7. QED BY <1>2, <2>4, <2>5, <2>6 DEF CacheInv
<1>5. CASE SlowResponse(x) \/ UnknownAnswer(x)
  <2>1. /\ Answer(x) /\ UNCHANGED <<requests, promise>>
        /\ \A m \in Slow : m # x => handling'[m] = handling[m]
    BY <1>5 DEF SlowResponse, UnknownAnswer, requestVars, TypeOK
  <2>2. HandlingIsAnswered'
    BY <1>0, <1>3, <2>1 DEF CacheInv, HandlingIsAnswered
  <2>3. UnansweredIsCached'
    BY <1>0, <1>1, <1>3, <2>1 DEF CacheInv, UnansweredIsCached, TypeOK
  <2>4. UnsentIsFresh' /\ PendingIsAnswerable'
    BY <1>1, <2>1 DEF CacheInv, UnsentIsFresh, PendingIsAnswerable
  <2>5. QED BY <1>2, <2>2, <2>3, <2>4 DEF CacheInv
<1>6. QED BY <1>4, <1>5 DEF Answering

LEMMA FlushingKeepsCache ==
  ASSUME BufferInv, CacheInv, Flushing
  PROVE  CacheInv'
<1>0. /\ UNCHANGED <<promise, callback, requests, handling, answered>>
      /\ Unbuffered \subseteq Calls /\ Calls \subseteq Messages
  BY MessagesAssumption DEF Flushing, FlushSucceeded, FlushFailed, FlushAgain, FlushInterval,
     EndOfMessageSequence, MessageSequenceFails, requestVars, wireVars, Messages
<1> USE DEF UnsentIsFresh, UnbufferedIsDirect, HandlingIsAnswered, UnansweredIsCached, PendingIsAnswerable
<1>1. ASSUME NEW l \in Loops, FlushSucceeded(l) PROVE CacheInv'
  <2>1. /\ queue # <<>> /\ head[l] = Head(queue) /\ head[l] \in Messages
        /\ queue' = Tail(queue) /\ sent' = [sent EXCEPT ![head[l]] = @ + 1]
    <3>1. /\ queue # <<>> /\ head[l] = Head(queue) /\ queue \in Seq(Messages)
          /\ queue' = Tail(queue) /\ sent' = [sent EXCEPT ![head[l]] = @ + 1]
      BY <1>1 DEF BufferInv, LoopHoldsHead, TypeOK, FlushSucceeded
    <3>2. QED BY <3>1, HeadTailProperties
  <2>2. Buffered(head[l]) /\ \A m : Buffered(m)' => Buffered(m)
    BY <2>1, BufferedAfterShift DEF BufferInv
  <2>3. \A m \in Messages : m # head[l] => sent'[m] = sent[m]
    BY <2>1 DEF BufferInv, TypeOK
  <2>4. QED BY <1>0, <2>1, <2>2, <2>3 DEF CacheInv
<1>2. ASSUME UNCHANGED <<queue, sent>> PROVE CacheInv'
  <2>1. \A m : Buffered(m)' <=> Buffered(m)
    BY <1>2, BufferedUnchanged
  <2>2. QED BY <1>0, <1>2, <2>1 DEF CacheInv
<1>3. ASSUME ~ \E l \in Loops : FlushSucceeded(l) PROVE UNCHANGED <<queue, sent>>
  BY <1>3 DEF Flushing, FlushFailed, FlushAgain, FlushInterval, EndOfMessageSequence,
              MessageSequenceFails, bufferVars, wireVars
<1>4. QED BY <1>1, <1>2, <1>3

LEMMA CacheInvInductive ==
  ASSUME BufferInv, CacheInv, [Next]_vars
  PROVE  CacheInv'
<1>1. ASSUME UNCHANGED <<requestVars, wireVars, queue>> PROVE CacheInv'
  <2>1. \A m : Buffered(m)' <=> Buffered(m)
    BY <1>1, BufferedUnchanged
  <2>2. QED BY <1>1, <2>1 DEF CacheInv, UnsentIsFresh, UnbufferedIsDirect, HandlingIsAnswered,
                 UnansweredIsCached, PendingIsAnswerable, requestVars, wireVars
<1>2. CASE Connecting
  BY <1>1, <1>2 DEF Connecting, Connect, Opened, HandshakeFailed, Dropped, CloseWSConnection,
                    StopStation, SetConnection, bufferVars
<1>3. CASE UNCHANGED vars
  BY <1>1, <1>3 DEF vars, bufferVars
<1>4. QED BY <1>2, <1>3, RequestingKeepsCache, AnsweringKeepsCache, FlushingKeepsCache
          DEF Next, BufferInv

LEMMA InitCacheInv == Init => CacheInv
<1> SUFFICES ASSUME Init PROVE CacheInv
  OBVIOUS
<1>1. /\ \A m : ~Buffered(m)
      /\ \A m \in Messages : sent[m] = 0 /\ promise[m] = "none"
      /\ \A m \in Slow : handling[m] = 0
      /\ callback = {} /\ Unbuffered \subseteq Messages /\ Calls \subseteq Messages
  BY MessagesAssumption DEF Init, Buffered, Messages
<1>2. QED BY <1>1 DEF CacheInv, UnsentIsFresh, UnbufferedIsDirect, HandlingIsAnswered,
                      UnansweredIsCached, PendingIsAnswerable

LEMMA CacheInvariant == Spec => [](BufferInv /\ CacheInv)
<1>1. Init => BufferInv /\ CacheInv
  BY InitBufferInv, InitCacheInv
<1>2. BufferInv /\ CacheInv /\ [Next]_vars => BufferInv' /\ CacheInv'
  BY BufferInvInductive, CacheInvInductive
<1>3. QED BY <1>1, <1>2, PTL DEF Spec

\* A call that was transmitted and never answered is in the request cache, so
\* handleResponseMessage does not refuse its answer.
THEOREM AnswersFindTheirRequest == Spec => []AnswerFindsRequest
<1>1. CacheInv => AnswerFindsRequest
  BY DEF CacheInv, UnansweredIsCached, AnswerFindsRequest
<1>2. QED BY <1>1, CacheInvariant, PTL

\* Nobody awaits a call whose answer could no longer be matched.
THEOREM PendingCallsAreAnswerable == Spec => []PendingIsAnswerable
<1>1. CacheInv => PendingIsAnswerable
  BY DEF CacheInv
<1>2. QED BY <1>1, CacheInvariant, PTL

-----------------------------------------------------------------------------
(* Transmissions: where a message is *)

Places(m) == {i \in DOMAIN queue : queue[i] = m}
Awaited(m) == IF m \in callback THEN 1 ELSE 0

\* A message whose send has not timed out is in one place at most: written, in
\* the buffer or on its way; one that nobody has sent is in none.
Once(m) ==
  m \notin timedOut =>
    /\ sent[m] + Copies(m) + Awaited(m) <= 1
    /\ promise[m] = "none" => sent[m] + Copies(m) + Awaited(m) = 0

TransmissionInv == \A m \in Messages : Once(m)

LEMMA CopiesTyped ==
  ASSUME queue \in Seq(Messages), NEW m
  PROVE  IsFiniteSet(Places(m)) /\ Copies(m) \in Nat /\ Copies(m) = Cardinality(Places(m))
<1>1. Places(m) \in SUBSET (1..Len(queue)) /\ Len(queue) \in Nat
  BY DEF Places
<1>2. IsFiniteSet(1..Len(queue))
  BY <1>1, FS_Interval
<1> QED BY <1>1, <1>2, FS_Subset, FS_CardinalityType DEF Copies, Places

LEMMA CopiesAfterPush ==
  ASSUME queue \in Seq(Messages), NEW x \in Messages, queue' = Append(queue, x), NEW m
  PROVE  Copies(m)' = Copies(m) + (IF m = x THEN 1 ELSE 0)
<1>1. IsFiniteSet(Places(m)) /\ Copies(m) \in Nat /\ Copies(m) = Cardinality(Places(m))
  BY CopiesTyped
<1>2. Len(queue) + 1 \notin Places(m)
  BY DEF Places
<1>3. Places(m)' = IF m = x THEN Places(m) \cup {Len(queue) + 1} ELSE Places(m)
  BY DEF Places
<1>4. Cardinality(Places(m) \cup {Len(queue) + 1}) = Cardinality(Places(m)) + 1
  BY <1>1, <1>2, FS_AddElement
<1>5. Copies(m)' = Cardinality(Places(m)')
  BY DEF Copies, Places
<1>6. CASE m = x
  BY <1>1, <1>3, <1>4, <1>5, <1>6
<1>7. CASE m # x
  BY <1>1, <1>3, <1>5, <1>7
<1> QED BY <1>6, <1>7

\* What is left of the buffer moves up by one place.
LEMMA CopiesAfterShift ==
  ASSUME queue \in Seq(Messages), queue # <<>>, queue' = Tail(queue), NEW m
  PROVE  Copies(m)' \in Nat /\ Copies(m) = Copies(m)' + (IF m = Head(queue) THEN 1 ELSE 0)
<1> DEFINE Rest == Places(m) \ {1}
           Shift == [i \in Rest |-> i - 1]
<1>1. IsFiniteSet(Places(m)) /\ Copies(m) \in Nat /\ Copies(m) = Cardinality(Places(m))
  BY CopiesTyped
<1>2. 1 \in Places(m) <=> m = Head(queue)
  BY DEF Places
<1>3. Shift \in Bijection(Rest, Places(m)')
  <2>1. \A i \in Rest : i \in Nat /\ i - 1 \in Places(m)'
    BY DEF Places
  <2>2. \A j \in Places(m)' : j \in Nat /\ j + 1 \in Rest
    BY DEF Places
  <2>3. \A i, k \in Rest : Shift[i] = Shift[k] => i = k
    BY <2>1
  <2>4. \A j \in Places(m)' : \E i \in Rest : Shift[i] = j
    BY <2>1, <2>2
  <2> QED BY <2>1, <2>3, <2>4, Fun_IsBij
<1>4. /\ IsFiniteSet(Rest)
      /\ Cardinality(Rest) = IF 1 \in Places(m) THEN Cardinality(Places(m)) - 1
                             ELSE Cardinality(Places(m))
  BY <1>1, FS_RemoveElement
<1>5. Cardinality(Places(m)') = Cardinality(Rest) /\ Cardinality(Rest) \in Nat
  BY <1>3, <1>4, FS_Bijection, FS_CardinalityType DEF ExistsBijection
<1>6. Copies(m)' = Cardinality(Places(m)')
  BY DEF Copies, Places
<1>7. CASE m = Head(queue)
  BY <1>1, <1>2, <1>4, <1>5, <1>6, <1>7
<1>8. CASE m # Head(queue)
  BY <1>1, <1>2, <1>4, <1>5, <1>6, <1>8
<1> QED BY <1>7, <1>8

\* A step that leaves a message where it is, and its promise no less settled.
LEMMA OnceInPlace ==
  ASSUME NEW m, Once(m), sent'[m] = sent[m], Copies(m)' = Copies(m), Awaited(m)' = Awaited(m),
         promise'[m] = "none" => promise[m] = "none", timedOut \subseteq timedOut'
  PROVE  Once(m)'
BY DEF Once

LEMMA SendErrorPlaces ==
  ASSUME TypeOK, NEW x \in Messages, HandleSendError(x), NEW m \in Messages
  PROVE  /\ m # x => Copies(m)' = Copies(m)
         /\ Copies(m)' \in Nat /\ Copies(m)' <= Copies(m) + 1
<1>1. queue \in Seq(Messages) /\ Copies(m) \in Nat
  BY CopiesTyped DEF TypeOK
<1>2. CASE UNCHANGED queue
  BY <1>1, <1>2 DEF Copies
<1>3. CASE queue' = Append(queue, x)
  BY <1>1, <1>3, CopiesAfterPush
<1> QED BY <1>2, <1>3 DEF HandleSendError, BufferMessage, bufferVars

LEMMA RequestingKeepsOnce ==
  ASSUME TypeOK, TransmissionInv, NEW x \in Messages, Requesting(x), NEW m \in Messages
  PROVE  Once(m)'
<1>1. /\ sent[m] \in Nat /\ Copies(m) \in Nat /\ Awaited(m) \in {0, 1} /\ Once(m)
      /\ timer \subseteq callback /\ queue \in Seq(Messages)
  BY CopiesTyped DEF TypeOK, Awaited, TransmissionInv
<1>2. CASE SendOpen(x)
  <2>1. Copies(m)' = Copies(m) /\ sent'[m] = sent[m] /\ timedOut' = timedOut
    BY <1>2 DEF SendOpen, bufferVars, wireVars, Copies
  <2>2. CASE m # x
    BY <1>1, <1>2, <2>1, <2>2, OnceInPlace DEF SendOpen, Awaited, TypeOK
  <2>3. CASE m = x
    BY <1>1, <1>2, <2>1, <2>3 DEF SendOpen, Awaited, TypeOK, Once
  <2> QED BY <2>2, <2>3
<1>3. CASE SendNotOpen(x)
  <2>1. sent'[m] = sent[m] /\ timedOut' = timedOut /\ Awaited(m)' = Awaited(m)
    BY <1>3 DEF SendNotOpen, wireVars, Awaited
  <2>2. HandleSendError(x) /\ promise[x] = "none" /\ promise' = [promise EXCEPT ![x] = "settled"]
    BY <1>3 DEF SendNotOpen
  <2>3. CASE m # x
    BY <1>1, <2>1, <2>2, <2>3, SendErrorPlaces, OnceInPlace DEF TypeOK
  <2>4. CASE m = x
    <3>1. Copies(m)' \in Nat /\ Copies(m)' <= Copies(m) + 1 /\ promise'[m] = "settled"
      BY <2>2, <2>4, SendErrorPlaces DEF TypeOK
    <3> QED BY <1>1, <2>1, <2>2, <2>4, <3>1 DEF Once
  <2> QED BY <2>3, <2>4
<1>4. CASE SendRefused(x)
  BY <1>1, <1>4, OnceInPlace DEF SendRefused, bufferVars, wireVars, Copies, Awaited, TypeOK
<1>5. CASE SendTimeout(x)
  <2>1. /\ sent'[m] = sent[m] /\ timedOut' = timedOut \cup {x} /\ Awaited(m)' = Awaited(m)
        /\ HandleSendError(x) /\ Settle(x)
    BY <1>5 DEF SendTimeout, wireVars, Awaited
  <2>2. CASE m # x
    BY <1>1, <2>1, <2>2, SendErrorPlaces, SettleEffect, OnceInPlace
  <2>3. CASE m = x
    BY <2>1, <2>3 DEF Once
  <2> QED BY <2>2, <2>3
<1>6. CASE SendFailed(x)
  <2>1. /\ sent'[m] = sent[m] /\ timedOut' = timedOut /\ x \in callback
        /\ callback' = callback \ {x} /\ HandleSendError(x) /\ Settle(x)
    BY <1>6 DEF SendFailed, wireVars
  <2>2. CASE m # x
    BY <1>1, <2>1, <2>2, SendErrorPlaces, SettleEffect, OnceInPlace DEF Awaited
  <2>3. CASE m = x
    <3>1. Awaited(m) = 1 /\ Awaited(m)' = 0
      BY <2>1, <2>3 DEF Awaited
    <3>2. Copies(m)' \in Nat /\ Copies(m)' <= Copies(m) + 1
      BY <2>1, SendErrorPlaces
    <3>3. promise'[m] = "none" => promise[m] = "none"
      BY <2>1, SettleEffect
    <3> QED BY <1>1, <2>1, <3>1, <3>2, <3>3 DEF Once
  <2> QED BY <2>2, <2>3
<1>7. CASE SendSucceeded(x)
  <2>1. /\ Copies(m)' = Copies(m) /\ timedOut' = timedOut /\ x \in callback
        /\ callback' = callback \ {x} /\ sent' = [sent EXCEPT ![x] = @ + 1]
    BY <1>7 DEF SendSucceeded, bufferVars, Copies
  <2>2. promise'[m] = "none" => promise[m] = "none"
    BY <1>7, SettleEffect DEF SendSucceeded
  <2>3. CASE m # x
    BY <1>1, <2>1, <2>2, <2>3, OnceInPlace DEF Awaited, TypeOK
  <2>4. CASE m = x
    <3>1. Awaited(m) = 1 /\ Awaited(m)' = 0 /\ sent'[m] = sent[m] + 1
      BY <2>1, <2>4 DEF Awaited, TypeOK
    <3> QED BY <1>1, <2>1, <2>2, <3>1 DEF Once
  <2> QED BY <2>3, <2>4
<1> QED BY <1>2, <1>3, <1>4, <1>5, <1>6, <1>7 DEF Requesting

LEMMA FlushingKeepsOnce ==
  ASSUME BufferInv, TransmissionInv, Flushing, NEW m \in Messages
  PROVE  Once(m)'
<1>1. /\ sent[m] \in Nat /\ Copies(m) \in Nat /\ Once(m) /\ TypeOK
      /\ queue \in Seq(Messages)
  BY CopiesTyped DEF BufferInv, TypeOK, TransmissionInv
<1>2. UNCHANGED <<promise, callback, timedOut>>
  BY DEF Flushing, FlushSucceeded, FlushFailed, FlushAgain, FlushInterval, EndOfMessageSequence,
         MessageSequenceFails, requestVars
<1>3. Awaited(m)' = Awaited(m) /\ Awaited(m) \in {0, 1}
  BY <1>2 DEF Awaited
<1>4. ASSUME NEW l \in Loops, FlushSucceeded(l) PROVE Once(m)'
  <2>1. /\ queue # <<>> /\ head[l] = Head(queue) /\ queue' = Tail(queue)
        /\ sent' = [sent EXCEPT ![head[l]] = @ + 1]
    BY <1>4 DEF BufferInv, LoopHoldsHead, TypeOK, FlushSucceeded
  <2>2. Copies(m)' \in Nat /\ Copies(m) = Copies(m)' + (IF m = Head(queue) THEN 1 ELSE 0)
    BY <1>1, <2>1, CopiesAfterShift
  <2>4. sent'[m] = sent[m] + (IF m = Head(queue) THEN 1 ELSE 0)
    BY <1>1, <2>1 DEF TypeOK
  <2>5. sent'[m] + Copies(m)' = sent[m] + Copies(m)
    BY <1>1, <2>2, <2>4
  <2> QED BY <1>1, <1>2, <1>3, <2>2, <2>4, <2>5 DEF Once
<1>5. CASE UNCHANGED <<queue, sent>>
  BY <1>1, <1>2, <1>3, <1>5, OnceInPlace DEF Copies
<1>6. ASSUME ~ \E l \in Loops : FlushSucceeded(l) PROVE UNCHANGED <<queue, sent>>
  BY <1>6 DEF Flushing, FlushFailed, FlushAgain, FlushInterval, EndOfMessageSequence,
              MessageSequenceFails, bufferVars, wireVars
<1> QED BY <1>4, <1>5, <1>6

LEMMA TransmissionInvInductive ==
  ASSUME BufferInv, TransmissionInv, [Next]_vars
  PROVE  TransmissionInv'
<1>1. TypeOK /\ \A m \in Messages : Once(m)
  BY DEF BufferInv, TransmissionInv
<1>2. ASSUME UNCHANGED <<queue, sent, callback, timedOut>>, NEW m \in Messages,
             promise'[m] = "none" => promise[m] = "none"
      PROVE  Once(m)'
  BY <1>1, <1>2, OnceInPlace DEF Copies, Awaited
<1>3. ASSUME NEW x \in Messages, Answering(x) PROVE TransmissionInv'
  <2>1. UNCHANGED <<queue, sent, callback, timedOut>>
    BY <1>3 DEF Answering, Response, SlowResponse, SlowHandlerDone, ErrorAnswer, UnknownAnswer, Answer,
                bufferVars, requestVars, wireVars
  <2>2. UNCHANGED promise \/ Settle(x)
    BY <1>3 DEF Answering, Response, SlowResponse, SlowHandlerDone, ErrorAnswer, UnknownAnswer, requestVars
  <2> QED BY <1>1, <1>2, <2>1, <2>2, SettleEffect DEF TransmissionInv
<1>4. CASE Connecting \/ UNCHANGED vars
  <2>1. UNCHANGED <<queue, sent, callback, timedOut, promise>>
    BY <1>4 DEF Connecting, Connect, Opened, HandshakeFailed, Dropped, CloseWSConnection,
                StopStation, SetConnection, bufferVars, requestVars, wireVars, vars
  <2> QED BY <1>2, <2>1 DEF TransmissionInv
<1>5. ASSUME NEW x \in Messages, Requesting(x) PROVE TransmissionInv'
  BY <1>1, <1>5, RequestingKeepsOnce DEF TransmissionInv
<1>6. CASE Flushing
  BY <1>6, FlushingKeepsOnce DEF TransmissionInv
<1> QED BY <1>3, <1>4, <1>5, <1>6 DEF Next

LEMMA InitTransmissionInv == Init => TransmissionInv
<1> SUFFICES ASSUME Init, NEW m \in Messages PROVE Once(m)
  BY DEF TransmissionInv
<1>1. Places(m) = {}
  BY DEF Init, Places
<1>2. Copies(m) = 0
  BY <1>1, FS_EmptySet DEF Copies, Places
<1> QED BY <1>2 DEF Init, Once, Awaited

\* The server sees a message twice only after its send timed out
\* (DuplicateOnlyAfterTimeout): whatever fails, a message is written by the
\* request or left to the buffer, and the buffer writes it once.
THEOREM DuplicatesNeedTimeouts == Spec => []DuplicateOnlyAfterTimeout
<1>1. TypeOK /\ TransmissionInv => DuplicateOnlyAfterTimeout
  <2> SUFFICES ASSUME TypeOK, NEW m \in Messages, Once(m), m \notin timedOut
               PROVE  ~(sent[m] + Copies(m) + (IF m \in callback THEN 1 ELSE 0) > 1)
    BY DEF TransmissionInv, DuplicateOnlyAfterTimeout
  <2>1. Copies(m) \in Nat /\ sent[m] \in Nat
    BY CopiesTyped DEF TypeOK
  <2> QED BY <2>1 DEF Once, Awaited
<1>2. Init => BufferInv /\ TransmissionInv
  BY InitBufferInv, InitTransmissionInv
<1>3. BufferInv /\ TransmissionInv /\ [Next]_vars => BufferInv' /\ TransmissionInv'
  BY BufferInvInductive, TransmissionInvInductive
<1>4. BufferInv => TypeOK
  BY DEF BufferInv
<1> QED BY <1>1, <1>2, <1>3, <1>4, PTL DEF Spec

=============================================================================
