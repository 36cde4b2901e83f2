--------------------------- MODULE OcppMessaging ---------------------------
(***************************************************************************)
(* The outgoing side of one charging station: OCPPRequestService turns a   *)
(* command into an OCPP-J message, sends it on the station's WebSocket and  *)
(* keeps the promise its caller awaits; ChargingStation keeps the cache of  *)
(* unanswered requests, the buffer of messages that could not be sent and   *)
(* the loop that flushes it.                                                *)
(*                                                                          *)
(* Everything runs in one JavaScript thread, so an action is a maximal      *)
(* piece of code between two returns to the event loop: a call, a timer, a  *)
(* callback of ws.send, or a handler of an incoming message.                *)
(***************************************************************************)
EXTENDS Naturals, Sequences, FiniteSets

CONSTANTS
  Calls,      \* requests of the station, one element per message id
  Replies,    \* CALL_RESULT and CALL_ERROR messages answering the server
  Errors,     \* the replies that are CALL_ERROR messages
  Boots,      \* the calls that are BootNotification requests
  Unbuffered, \* the calls sent with params.skipBufferingOnError
  Triggered,  \* the calls sent with params.triggerMessage
  Slow,       \* the calls whose response handler may await further requests
  Strict,     \* stationInfo.ocppStrictCompliance
  Loops,      \* identities for activations of sendMessageBuffer
  NoMessage,  \* no message
  MaxLosses   \* bound: how many times the connection is lost

Messages == Calls \cup Replies

ASSUME MessagesAssumption ==
  /\ Calls \cap Replies = {}
  /\ Errors \subseteq Replies
  /\ Boots \subseteq Calls
  /\ Unbuffered \subseteq Calls
  /\ Triggered \subseteq Calls
  /\ Slow \subseteq Calls \ Boots
  /\ Strict \in BOOLEAN
  /\ NoMessage \notin Messages
  /\ MaxLosses \in Nat

VARIABLES
  ws,        \* wsConnection: "none" is null, the others are its readyState
  registration, \* bootNotificationResponse.status
  sequence,  \* whether a run of startMessageSequence has yet to flush
  promise,   \* per message, the promise returned by internalSendMessage
  callback,  \* messages whose ws.send callback has not run
  timer,     \* messages whose send timeout is armed
  requests,  \* keys of the request cache
  handling,  \* slow calls whose response handler is running, as a count
  queue,     \* messageQueue
  interval,  \* whether flushMessageBufferSetInterval is set
  flushing,  \* flushingMessageBuffer
  loop,      \* control state of each activation of sendMessageBuffer
  head,      \* the message each activation passed to ws.send
  crashed,   \* an unhandled rejection has ended the worker thread
  losses,    \* connection losses so far
  sent,      \* history: how many times each message was written
  answered,  \* history: how many answers to it were received
  timedOut,  \* history: messages whose send timeout fired
  pushed,    \* history: everything ever buffered, in order
  flushed    \* history: everything the buffer handed over, in order

connectionVars == <<ws, registration, sequence, losses>>
requestVars == <<promise, callback, timer, requests, handling, timedOut>>
bufferVars == <<queue, interval, pushed>>
flushVars == <<flushing, loop, head, flushed>>
wireVars == <<sent, answered>>
vars == <<connectionVars, requestVars, bufferVars, flushVars, wireVars, crashed>>

Init ==
  /\ ws = "none" /\ registration = "unknown" /\ sequence = FALSE /\ losses = 0
  /\ promise = [m \in Messages |-> "none"]
  /\ callback = {} /\ timer = {} /\ timedOut = {}
  /\ requests = {} /\ handling = [m \in Slow |-> 0]
  /\ queue = <<>> /\ pushed = <<>> /\ interval = FALSE
  /\ flushing = FALSE /\ flushed = <<>>
  /\ loop = [l \in Loops |-> "idle"] /\ head = [l \in Loops |-> NoMessage]
  /\ sent = [m \in Messages |-> 0] /\ answered = [m \in Messages |-> 0]
  /\ crashed = FALSE

-----------------------------------------------------------------------------
(* OCPPRequestService *)

\* The condition under which internalSendMessage sends at all.
MaySend(m) ==
  \/ registration \in {"unknown", "pending"} /\ (m \in Boots \/ ~Strict)
  \/ registration = "accepted"
  \/ registration = "pending" /\ (m \in Triggered \/ m \in Replies \ Errors)

Settle(m) ==
  promise' = [promise EXCEPT ![m] = IF @ = "pending" THEN "settled" ELSE @]

\* bufferMessage: push and arm the flush interval.
BufferMessage(m) ==
  /\ queue' = Append(queue, m)
  /\ pushed' = Append(pushed, m)
  /\ interval' = TRUE

\* Faulty: a buffered request is not put in the cache.
HandleSendErrorUncached(m) ==
  /\ UNCHANGED requests
  /\ IF m \in Unbuffered THEN UNCHANGED bufferVars ELSE BufferMessage(m)

\* handleSendError without its final reject.
HandleSendError(m) ==
  IF m \in Unbuffered
  THEN requests' = requests \ {m} /\ UNCHANGED bufferVars
  ELSE BufferMessage(m) /\ requests' = requests \cup ({m} \cap Calls)

\* internalSendMessage when the connection is open: arm the timeout, send.
SendOpen(m) ==
  /\ promise[m] = "none" /\ MaySend(m) /\ ws = "open"
  /\ promise' = [promise EXCEPT ![m] = "pending"]
  /\ timer' = timer \cup {m}
  /\ callback' = callback \cup {m}
  /\ UNCHANGED <<requests, handling, timedOut, connectionVars, bufferVars, flushVars, wireVars, crashed>>

\* internalSendMessage when it is not: the request fails at once.
SendNotOpen(m) ==
  /\ promise[m] = "none" /\ MaySend(m) /\ ws # "open"
  /\ promise' = [promise EXCEPT ![m] = "settled"]
  /\ HandleSendError(m)
  /\ UNCHANGED <<callback, timer, handling, timedOut, connectionVars, flushVars, wireVars, crashed>>

\* internalSendMessage in a registration state that forbids the message, or
\* with a payload that the schema validation of strict mode refuses.
SendRefused(m) ==
  /\ promise[m] = "none" /\ (~MaySend(m) \/ Strict)
  /\ promise' = [promise EXCEPT ![m] = "settled"]
  /\ UNCHANGED <<callback, timer, requests, handling, timedOut, connectionVars, bufferVars, flushVars, wireVars, crashed>>

\* The send timeout of 60 seconds fires before the callback of ws.send.
SendTimeout(m) ==
  /\ m \in timer
  /\ timer' = timer \ {m}
  /\ timedOut' = timedOut \cup {m}
  /\ HandleSendError(m)
  /\ Settle(m)
  /\ UNCHANGED <<callback, handling, connectionVars, flushVars, wireVars, crashed>>

\* Faulty: the request is sent but not put in the cache.
SendSucceededUncached(m) ==
  /\ m \in callback
  /\ callback' = callback \ {m}
  /\ timer' = timer \ {m}
  /\ sent' = [sent EXCEPT ![m] = @ + 1]
  /\ UNCHANGED <<promise, requests, handling, timedOut, answered, connectionVars, bufferVars, flushVars, crashed>>

\* The callback of ws.send without an error.
SendSucceeded(m) ==
  /\ m \in callback
  /\ callback' = callback \ {m}
  /\ timer' = timer \ {m}
  /\ sent' = [sent EXCEPT ![m] = @ + 1]
  /\ \/ m \in Calls /\ requests' = requests \cup {m} /\ UNCHANGED promise
     \/ m \in Replies /\ Settle(m) /\ UNCHANGED requests
  /\ UNCHANGED <<handling, timedOut, answered, connectionVars, bufferVars, flushVars, crashed>>

\* The callback of ws.send with an error.
SendFailed(m) ==
  /\ m \in callback
  /\ callback' = callback \ {m}
  /\ timer' = timer \ {m}
  /\ HandleSendError(m)
  /\ Settle(m)
  /\ UNCHANGED <<handling, timedOut, connectionVars, flushVars, wireVars, crashed>>

-----------------------------------------------------------------------------
(* Answers of the server *)

\* The server answers a transmission it has not answered yet.
Answer(m) ==
  /\ m \in Calls /\ answered[m] < sent[m]
  /\ answered' = [answered EXCEPT ![m] = @ + 1]
  /\ UNCHANGED sent

\* handleResponseBootNotification: store the status; 'accepted' starts the
\* message sequence.
RegisterAs(status) ==
  /\ registration' = status
  /\ sequence' = (sequence \/ status = "accepted")
  /\ UNCHANGED <<ws, losses>>

\* handleResponseMessage finds the request; its handler runs to completion
\* within the event, and the entry is removed in its finally.
Response(m) ==
  /\ Answer(m) /\ m \in requests
  /\ requests' = requests \ {m}
  /\ Settle(m)
  /\ \/ /\ m \in Boots
        /\ \E status \in {"accepted", "pending", "rejected"} : RegisterAs(status)
     \/ m \notin Boots /\ UNCHANGED connectionVars
  /\ UNCHANGED <<callback, timer, handling, timedOut, bufferVars, flushVars, crashed>>

\* The same when the handler awaits: the entry stays meanwhile.
SlowResponse(m) ==
  /\ Answer(m) /\ m \in requests \cap Slow
  /\ handling' = [handling EXCEPT ![m] = @ + 1]
  /\ UNCHANGED <<promise, callback, timer, requests, timedOut, connectionVars, bufferVars, flushVars, crashed>>

\* A slow response handler ends, in success or in failure.
SlowHandlerDone(m) ==
  /\ m \in Slow /\ handling[m] > 0
  /\ handling' = [handling EXCEPT ![m] = @ - 1]
  /\ requests' = requests \ {m}
  /\ Settle(m)
  /\ UNCHANGED <<callback, timer, timedOut, connectionVars, bufferVars, flushVars, wireVars, crashed>>

\* handleErrorMessage: the error callback removes the entry and rejects.
ErrorAnswer(m) ==
  /\ Answer(m) /\ m \in requests
  /\ requests' = requests \ {m}
  /\ Settle(m)
  /\ UNCHANGED <<callback, timer, handling, timedOut, connectionVars, bufferVars, flushVars, crashed>>

\* An answer whose message id is not in the cache is logged and dropped.
UnknownAnswer(m) ==
  /\ Answer(m) /\ m \notin requests
  /\ UNCHANGED <<requestVars, connectionVars, bufferVars, flushVars, crashed>>

-----------------------------------------------------------------------------
(* The flush loop *)

\* sendMessageBuffer up to ws.send.  A null connection swallows the call, a
\* connecting one throws, a closing one reports an error to the callback.
SendMessageBuffer(l) ==
  IF queue = <<>>
  THEN /\ loop' = [loop EXCEPT ![l] = "idle"]
       /\ head' = [head EXCEPT ![l] = NoMessage]
       /\ flushing' = FALSE
  ELSE /\ loop' = [loop EXCEPT ![l] =
            CASE ws = "open"    -> "sending"
              [] ws = "closing" -> "failing"
              [] OTHER          -> "lost"]
       /\ head' = [head EXCEPT ![l] = Head(queue)]
       /\ flushing' = TRUE

\* Faulty: flushMessageBuffer ignores a flush in progress.
FlushMessageBufferAnyway ==
  IF queue # <<>>
  THEN /\ \E l \in Loops : loop[l] = "idle" /\ SendMessageBuffer(l)
       /\ UNCHANGED flushed
  ELSE UNCHANGED flushVars

\* flushMessageBuffer
FlushMessageBuffer ==
  IF ~flushing /\ queue # <<>>
  THEN /\ \E l \in Loops : loop[l] = "idle" /\ SendMessageBuffer(l)
       /\ UNCHANGED flushed
  ELSE UNCHANGED flushVars

\* Faulty: a transmitted message stays in the buffer.
FlushSucceededWithoutShift(l) ==
  /\ loop[l] = "sending"
  /\ loop' = [loop EXCEPT ![l] = "sleeping"]
  /\ sent' = [sent EXCEPT ![head[l]] = @ + 1]
  /\ flushed' = Append(flushed, head[l])
  /\ UNCHANGED <<answered, head, flushing, bufferVars, requestVars, connectionVars, crashed>>

\* The callback of ws.send in the loop: shift on success, then sleep.
FlushSucceeded(l) ==
  /\ loop[l] = "sending"
  /\ loop' = [loop EXCEPT ![l] = "sleeping"]
  /\ queue' = IF queue = <<>> THEN queue ELSE Tail(queue)
  /\ sent' = [sent EXCEPT ![head[l]] = @ + 1]
  /\ flushed' = Append(flushed, head[l])
  /\ UNCHANGED <<answered, head, flushing, interval, pushed, requestVars, connectionVars, crashed>>

\* Faulty: a message that could not be sent is dropped.
FlushFailedWithShift(l) ==
  /\ loop[l] \in {"sending", "failing"}
  /\ loop' = [loop EXCEPT ![l] = "sleeping"]
  /\ queue' = Tail(queue)
  /\ UNCHANGED <<head, flushing, flushed, interval, pushed, requestVars, connectionVars, wireVars, crashed>>

\* Faulty: an error ends the flush without ending its loop.
FlushFailedComplete(l) ==
  /\ loop[l] \in {"sending", "failing"}
  /\ loop' = [loop EXCEPT ![l] = "sleeping"]
  /\ flushing' = FALSE
  /\ UNCHANGED <<head, flushed, bufferVars, requestVars, connectionVars, wireVars, crashed>>

\* Faulty: an error ends the loop and leaves the flush in progress.
FlushFailedForGood(l) ==
  /\ loop[l] \in {"sending", "failing"}
  /\ loop' = [loop EXCEPT ![l] = "idle"]
  /\ head' = [head EXCEPT ![l] = NoMessage]
  /\ UNCHANGED <<flushing, flushed, bufferVars, requestVars, connectionVars, wireVars, crashed>>

\* The same with an error: the message stays, and the loop sleeps.
FlushFailed(l) ==
  /\ loop[l] \in {"sending", "failing"}
  /\ loop' = [loop EXCEPT ![l] = "sleeping"]
  /\ UNCHANGED <<head, flushing, flushed, bufferVars, requestVars, connectionVars, wireVars, crashed>>

\* The backoff sleep ends.  The exception of a connecting socket escapes
\* through the promise's catch as an unhandled rejection.
FlushAgain(l) ==
  /\ loop[l] = "sleeping"
  /\ SendMessageBuffer(l)
  /\ crashed' = (queue # <<>> /\ ws = "connecting")
  /\ UNCHANGED <<flushed, bufferVars, requestVars, connectionVars, wireVars>>

\* The callback of the flush interval.
FlushInterval ==
  /\ interval
  /\ IF ws = "open" /\ registration = "accepted"
     THEN FlushMessageBuffer
     ELSE UNCHANGED flushVars
  /\ interval' = (ws = "open" /\ queue # <<>>)
  /\ UNCHANGED <<queue, pushed, requestVars, connectionVars, wireVars, crashed>>

\* The end of startMessageSequence, after the requests it awaits.
EndOfMessageSequence ==
  /\ sequence
  /\ sequence' = FALSE
  /\ FlushMessageBuffer
  /\ UNCHANGED <<ws, registration, losses, bufferVars, requestVars, wireVars, crashed>>

\* The message sequence throws before its flush; the handler of the
\* BootNotification response logs the error.
MessageSequenceFails ==
  /\ sequence
  /\ sequence' = FALSE
  /\ UNCHANGED <<ws, registration, losses, bufferVars, requestVars, flushVars, wireVars, crashed>>

-----------------------------------------------------------------------------
(* The connection, as this part of the station sees it *)

SetConnection(readyState) ==
  /\ ws' = readyState
  /\ UNCHANGED <<sequence, bufferVars, requestVars, flushVars, wireVars, crashed>>

\* openWSConnection creates a socket.
Connect ==
  /\ ws \in {"none", "closing"}
  /\ SetConnection("connecting")
  /\ UNCHANGED <<registration, losses>>

\* The handshake succeeds or fails.
Opened ==
  /\ ws = "connecting"
  /\ SetConnection("open")
  /\ UNCHANGED <<registration, losses>>

HandshakeFailed ==
  /\ ws = "connecting" /\ losses < MaxLosses
  /\ SetConnection("closing")
  /\ losses' = losses + 1
  /\ UNCHANGED registration

\* The peer or the network closes the connection.
Dropped ==
  /\ ws = "open" /\ losses < MaxLosses
  /\ SetConnection("closing")
  /\ losses' = losses + 1
  /\ UNCHANGED registration

\* closeWSConnection from onError, from openWSConnection or from a supervision
\* URL change: the reference becomes null, the registration stays.
CloseWSConnection ==
  /\ ws = "open" /\ losses < MaxLosses
  /\ SetConnection("none")
  /\ losses' = losses + 1
  /\ UNCHANGED registration

\* stop closes an open connection and forgets the registration.
StopStation ==
  /\ losses < MaxLosses
  /\ SetConnection(IF ws = "open" THEN "none" ELSE ws)
  /\ registration' = "unknown"
  /\ losses' = losses + 1

Requesting(m) ==
  \/ SendOpen(m) \/ SendNotOpen(m) \/ SendRefused(m)
  \/ SendTimeout(m) \/ SendSucceeded(m) \/ SendFailed(m)

Answering(m) ==
  \/ Response(m) \/ SlowResponse(m) \/ SlowHandlerDone(m)
  \/ ErrorAnswer(m) \/ UnknownAnswer(m)

Flushing ==
  \/ \E l \in Loops : FlushSucceeded(l) \/ FlushFailed(l) \/ FlushAgain(l)
  \/ FlushInterval
  \/ EndOfMessageSequence \/ MessageSequenceFails

Connecting ==
  \/ Connect \/ Opened \/ HandshakeFailed
  \/ Dropped \/ CloseWSConnection \/ StopStation

Next ==
  /\ ~crashed
  /\ \/ \E m \in Messages : Requesting(m) \/ Answering(m)
     \/ Flushing
     \/ Connecting

Spec == Init /\ [][Next]_vars

\* Callbacks run, timers and sleeps end, a message sequence ends or fails, and
\* a send that is tried for ever on an open connection succeeds in the end.
\* Nothing is assumed of the connection.
Fairness ==
  /\ \A l \in Loops :
       /\ WF_vars(~crashed /\ (FlushSucceeded(l) \/ FlushFailed(l)))
       /\ SF_vars(~crashed /\ FlushSucceeded(l))
       /\ WF_vars(~crashed /\ FlushAgain(l))
  /\ WF_vars(~crashed /\ FlushInterval)
  /\ WF_vars(~crashed /\ (EndOfMessageSequence \/ MessageSequenceFails))

FairSpec == Spec /\ Fairness

-----------------------------------------------------------------------------
(* Properties *)

TypeOK ==
  /\ ws \in {"none", "connecting", "open", "closing"}
  /\ registration \in {"unknown", "pending", "accepted", "rejected"}
  /\ sequence \in BOOLEAN /\ losses \in 0..MaxLosses
  /\ promise \in [Messages -> {"none", "pending", "settled"}]
  /\ callback \subseteq Messages /\ timer \subseteq callback /\ timedOut \subseteq Messages
  /\ requests \subseteq Calls /\ handling \in [Slow -> Nat]
  /\ queue \in Seq(Messages) /\ pushed \in Seq(Messages) /\ flushed \in Seq(Messages)
  /\ interval \in BOOLEAN /\ flushing \in BOOLEAN /\ crashed \in BOOLEAN
  /\ loop \in [Loops -> {"idle", "sending", "failing", "sleeping", "lost"}]
  /\ head \in [Loops -> Messages \cup {NoMessage}]
  /\ sent \in [Messages -> Nat] /\ answered \in [Messages -> Nat]

\* The message buffer neither loses, duplicates nor reorders: what was ever
\* buffered is what the flush loop transmitted, in order, followed by what is
\* still queued.
BufferKeepsOrder == pushed = flushed \o queue

\* At most one activation of sendMessageBuffer is between two of its steps,
\* and only while flushingMessageBuffer is set.
OneFlushLoop ==
  /\ \A l, k \in Loops : loop[l] # "idle" /\ loop[k] # "idle" => l = k
  /\ \A l \in Loops : loop[l] # "idle" => flushing

\* A caller that still awaits a call can be answered: either the send callback
\* is to come, or the request is in the cache where a response is looked up.
PendingIsAnswerable ==
  \A m \in Calls : promise[m] = "pending" => m \in callback \/ m \in requests

\* A call written once and not answered yet has its cache entry, so that the
\* answer is not taken for one to an unknown message id, unless another copy
\* of it has been transmitted and answered.
AnswerFindsRequest ==
  \A m \in Calls : sent[m] > 0 /\ answered[m] = 0 => m \in requests

Copies(m) == Cardinality({i \in DOMAIN queue : queue[i] = m})

\* The server sees a message twice only after its send timed out: otherwise it
\* is written or buffered, never both and never twice.
DuplicateOnlyAfterTimeout ==
  \A m \in Messages :
    sent[m] + Copies(m) + (IF m \in callback THEN 1 ELSE 0) > 1 => m \in timedOut

\* When the message sequence of an accepted station ends on an open connection,
\* a message still in the buffer is being flushed.
FlushedOnceAccepted ==
  [][EndOfMessageSequence /\ ws = "open" /\ queue # <<>> =>
       \E l \in Loops : loop'[l] \in {"sending", "failing", "sleeping"}]_vars

Up == /\ ws = "open" /\ registration = "accepted" /\ ~crashed
      /\ \A l \in Loops : loop[l] # "lost"

\* Once the station stays connected and accepted, an armed flush interval ends with
\* an empty buffer, whatever was lost before.  The two ways out are the code's: a
\* flush loop whose callback went with a lost connection (see FlushedOnceAccepted),
\* and an interval that fired while the connection was not open, which disarms
\* itself and leaves the buffer to the next message that is buffered.
BufferDrains == <>[]Up => []<>(queue = <<>> \/ ~interval)

Outbox == INSTANCE Outbox WITH accepted <- pushed, delivered <- flushed

\* The buffer implements an outbox that delivers in order of acceptance.
ImplementsOutbox == Outbox!Spec

=============================================================================
