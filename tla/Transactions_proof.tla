------------------------- MODULE Transactions_proof -------------------------
(***************************************************************************)
(* Proofs about Transactions, for every number of connectors, requests and   *)
(* loops and for every configuration.                                        *)
(*                                                                          *)
(* Activations is what TypeOK lacks to be inductive: a request that an ATG   *)
(* loop awaits is awaited by that loop alone, and the loop is at the await.  *)
(* What settles a request may then resume its loop without a check.          *)
(* Structure says where a transaction can be whatever fails; the divider and *)
(* the agreement with the server are counted on it.                          *)
(***************************************************************************)
EXTENDS Transactions, FiniteSetTheorems, TLAPS

LoopsServe ==
  \A l \in Loops : loop[l].pc # "idle" => loop[l].connector \in Connectors

StartsAwaited ==
  \A s \in Starts : start[s].owner # Nobody =>
    /\ loop[start[s].owner].pc = "starting"
    /\ \A r \in Starts : start[r].owner = start[s].owner => r = s

StopsAwaited ==
  \A x \in Stops : stop[x].owner # Nobody =>
    /\ loop[stop[x].owner].pc = "stopping"
    /\ \A y \in Stops : stop[y].owner = stop[x].owner => y = x

StopsPrepared ==
  \A x \in Stops :
    /\ stop[x].pc \in {"finishing", "metering"} => stop[x].connector \in Connectors
    /\ stop[x].pc = "releasing" => stop[x].target \in StatusValues

Activations ==
  /\ start \in [Starts -> StartRecords]
  /\ stop \in [Stops -> StopRecords]
  /\ loop \in [Loops -> LoopRecords]
  /\ LoopsServe /\ StartsAwaited /\ StopsAwaited /\ StopsPrepared

\* The part of TypeOK that Activations does not repeat.
ConnectorsOK ==
  /\ tx \in [Connectors -> Starts \cup {NoTx}]
  /\ status \in [0..MaxConnectors -> StatusValues]
  /\ operative \in [0..MaxConnectors -> BOOLEAN]
  /\ remote \in [Connectors -> BOOLEAN] /\ auth \in [Connectors -> Tags \cup {NoTag}]
  /\ metering \in [Connectors -> BOOLEAN] /\ leaked \in [Connectors -> Nat]
  /\ divider \in Int
  /\ change \in [Changes -> [pc : {"idle", "notifying", "done"}, type : BOOLEAN,
                             at : 0..MaxConnectors, last : 0..MaxConnectors]]
  /\ run \in [Connectors -> BOOLEAN]
  /\ events \in 0..MaxEvents
  /\ open \subseteq Starts /\ mishaps \subseteq Mishaps

IInv == Activations /\ ConnectorsOK

-----------------------------------------------------------------------------
(* The activations: requests and loops *)

\* A request that is not under way.
LEMMA EmptyRecords ==
  \A pc \in {"idle", "done"} :
    /\ EmptyStart(pc) \in StartRecords /\ EmptyStart(pc).owner = Nobody
    /\ EmptyStop(pc) \in StopRecords /\ EmptyStop(pc).owner = Nobody
    /\ EmptyStop(pc).pc = pc
  BY TransactionsAssumption
  DEF EmptyStart, EmptyStop, StartRecords, StopRecords, Nobody, NoTx

\* The initial state has no activation.
LEMMA InitActivations == Init => Activations
  <1> SUFFICES ASSUME Init PROVE Activations
    OBVIOUS
  <1> USE TransactionsAssumption DEF Init, EmptyStart, EmptyStop, NoLoop, Nobody, NoTx
  <1>1. start \in [Starts -> StartRecords]
    BY DEF StartRecords
  <1>2. stop \in [Stops -> StopRecords]
    BY DEF StopRecords
  <1>3. loop \in [Loops -> LoopRecords]
    BY DEF LoopRecords
  <1>4. LoopsServe /\ StartsAwaited /\ StopsAwaited /\ StopsPrepared
    BY DEF LoopsServe, StartsAwaited, StopsAwaited, StopsPrepared
  <1> QED
    BY <1>1, <1>2, <1>3, <1>4 DEF Activations

\* A start that is settled leaves its loop charging or in its next iteration.
LEMMA StartSettledActivations ==
  ASSUME Activations, NEW s \in Starts, NEW accepted \in BOOLEAN,
         StartSettled(s, accepted), UNCHANGED stop
  PROVE  Activations'
  <1> DEFINE l == start[s].owner
  <1> USE TransactionsAssumption DEF Nobody
  <1>1. start' \in [Starts -> StartRecords]
    BY EmptyRecords DEF Activations, StartSettled, EndStart
  <1>2. \A r \in Starts : start'[r].owner # Nobody => r # s /\ start'[r] = start[r]
    BY EmptyRecords DEF Activations, StartSettled, EndStart
  <1>3. CASE l = Nobody
    <2>1. UNCHANGED loop
      BY <1>3 DEF StartSettled
    <2> QED
      BY <1>1, <1>2, <2>1 DEF Activations, LoopsServe, StartsAwaited, StopsAwaited, StopsPrepared
  <1>4. CASE l # Nobody
    <2>1. l \in Loops /\ loop[l].pc = "starting" /\ loop[l].connector \in Connectors
      BY <1>4 DEF Activations, StartRecords, StartsAwaited, LoopsServe
    <2>2. PICK pc \in {"charging", "waiting", "idle"} : loop' = LoopAt(l, pc)
      BY <1>4 DEF StartSettled, Notify, NextIteration
    <2>3. /\ loop' \in [Loops -> LoopRecords]
          /\ \A m \in Loops : m # l => loop'[m] = loop[m]
          /\ loop'[l].pc # "idle" => loop'[l].connector \in Connectors
      BY <2>1, <2>2 DEF Activations, LoopAt, NoLoop, LoopRecords
    <2>4. LoopsServe'
      BY <2>3 DEF Activations, LoopsServe
    <2>5. StartsAwaited'
      BY <1>1, <1>2, <2>3 DEF Activations, StartsAwaited, StartRecords
    <2>6. StopsAwaited'
      BY <2>1, <2>3 DEF Activations, StopsAwaited, StopRecords
    <2> QED
      BY <1>1, <2>3, <2>4, <2>5, <2>6 DEF Activations, StopsPrepared
  <1> QED
    BY <1>3, <1>4

\* A loop that is done with one iteration.
LEMMA LoopAtRecords ==
  ASSUME Activations, NEW l \in Loops, loop[l].pc # "idle",
         NEW pc \in {"idle", "waiting", "delaying", "starting", "charging", "stopping"},
         loop' = LoopAt(l, pc)
  PROVE  /\ loop' \in [Loops -> LoopRecords] /\ LoopsServe'
         /\ loop'[l].pc = pc
         /\ pc # "idle" => loop'[l].connector = loop[l].connector
         /\ \A m \in Loops : m # l => loop'[m] = loop[m]
  BY TransactionsAssumption DEF Activations, LoopAt, NoLoop, LoopRecords, LoopsServe

\* A stop that is settled leaves its loop in its next iteration.
LEMMA StopSettledActivations ==
  ASSUME Activations, NEW x \in Stops, StopSettled(x), UNCHANGED start
  PROVE  Activations'
  <1> DEFINE l == stop[x].owner
  <1>1. /\ stop' \in [Stops -> StopRecords]
        /\ stop'[x].pc = "done"
        /\ \A y \in Stops : y # x => stop'[y] = stop[y]
        /\ stop'[x].owner = Nobody
    BY EmptyRecords DEF Activations, StopSettled, EndStop
  <1>2. StopsPrepared'
    BY <1>1 DEF Activations, StopsPrepared
  <1>3. CASE l = Nobody
    <2>1. UNCHANGED loop
      BY <1>3 DEF StopSettled
    <2> QED
      BY <1>1, <1>2, <2>1 DEF Activations, LoopsServe, StartsAwaited, StopsAwaited
  <1>4. CASE l # Nobody
    <2>1. l \in Loops /\ loop[l].pc = "stopping"
      BY <1>4 DEF Activations, StopRecords, StopsAwaited
    <2>2. PICK pc \in {"waiting", "idle"} : loop' = LoopAt(l, pc)
      BY <1>4 DEF StopSettled, Notify, NextIteration
    <2>3. /\ loop' \in [Loops -> LoopRecords] /\ LoopsServe'
          /\ \A m \in Loops : m # l => loop'[m] = loop[m]
      BY <2>1, <2>2, LoopAtRecords
    <2>4. StartsAwaited'
      BY <2>1, <2>3 DEF Activations, StartsAwaited, StartRecords
    <2>5. StopsAwaited'
      BY <1>1, <2>3 DEF Activations, StopsAwaited, StopRecords
    <2> QED
      BY <1>1, <1>2, <2>3, <2>4, <2>5 DEF Activations
  <1> QED
    BY <1>3, <1>4

\* A start goes on, or somebody starts one that no loop awaits.
LEMMA StartGoesOn ==
  ASSUME Activations, NEW s \in Starts, NEW r \in StartRecords,
         start' = [start EXCEPT ![s] = r], r.owner \in {Nobody, start[s].owner},
         UNCHANGED <<stop, loop>>
  PROVE  Activations'
  BY DEF Activations, LoopsServe, StartsAwaited, StopsAwaited, StopsPrepared

\* The same of a stop.
LEMMA StopGoesOn ==
  ASSUME Activations, NEW x \in Stops, NEW r \in StopRecords,
         stop' = [stop EXCEPT ![x] = r], r.owner \in {Nobody, stop[x].owner},
         r.pc \in {"finishing", "metering"} => r.connector \in Connectors,
         r.pc = "releasing" => r.target \in StatusValues,
         UNCHANGED <<start, loop>>
  PROVE  Activations'
  BY DEF Activations, LoopsServe, StartsAwaited, StopsAwaited, StopsPrepared

\* A start fails: nobody awaits it any more, and the loop that did is over.
LEMMA StartDies ==
  ASSUME Activations, NEW s \in Starts, NEW r \in StartRecords,
         start' = [start EXCEPT ![s] = r], r.owner = Nobody,
         LoopDies(start[s].owner), UNCHANGED stop
  PROVE  Activations'
  <1> DEFINE l == start[s].owner
  <1>1. CASE l = Nobody
    BY <1>1, StartGoesOn DEF LoopDies, Notify
  <1>2. CASE l # Nobody
    <2>1. l \in Loops /\ loop[l].pc = "starting"
      BY <1>2 DEF Activations, StartRecords, StartsAwaited
    <2>2. loop' = LoopAt(l, "idle")
      BY <1>2 DEF LoopDies, Notify
    <2>3. /\ loop' \in [Loops -> LoopRecords] /\ LoopsServe'
          /\ \A m \in Loops : m # l => loop'[m] = loop[m]
      BY <2>1, <2>2, LoopAtRecords
    <2>4. StartsAwaited'
      BY <2>3 DEF Activations, StartsAwaited, StartRecords
    <2>5. StopsAwaited'
      BY <2>1, <2>3 DEF Activations, StopsAwaited, StopRecords
    <2> QED
      BY <2>3, <2>4, <2>5 DEF Activations, StopsPrepared
  <1> QED
    BY <1>1, <1>2

\* The same of a stop.
LEMMA StopDies ==
  ASSUME Activations, NEW x \in Stops, NEW r \in StopRecords,
         stop' = [stop EXCEPT ![x] = r], r.owner = Nobody,
         r.pc \notin {"finishing", "metering", "releasing"},
         LoopDies(stop[x].owner), UNCHANGED start
  PROVE  Activations'
  <1> DEFINE l == stop[x].owner
  <1>1. CASE l = Nobody
    BY <1>1, StopGoesOn DEF LoopDies, Notify
  <1>2. CASE l # Nobody
    <2>1. l \in Loops /\ loop[l].pc = "stopping"
      BY <1>2 DEF Activations, StopRecords, StopsAwaited
    <2>2. loop' = LoopAt(l, "idle")
      BY <1>2 DEF LoopDies, Notify
    <2>3. /\ loop' \in [Loops -> LoopRecords] /\ LoopsServe'
          /\ \A m \in Loops : m # l => loop'[m] = loop[m]
      BY <2>1, <2>2, LoopAtRecords
    <2>4. StopsAwaited'
      BY <2>3 DEF Activations, StopsAwaited, StopRecords
    <2>5. StartsAwaited'
      BY <2>1, <2>3 DEF Activations, StartsAwaited, StartRecords
    <2> QED
      BY <2>3, <2>4, <2>5 DEF Activations, StopsPrepared
  <1> QED
    BY <1>1, <1>2

\* A loop that awaits no request moves on its own.
LEMMA LoopMoves ==
  ASSUME Activations, NEW l \in Loops, loop[l].pc \in {"waiting", "delaying", "charging"},
         NEW pc \in {"idle", "waiting", "delaying"}, loop' = LoopAt(l, pc),
         UNCHANGED <<start, stop>>
  PROVE  Activations'
  <1>1. /\ loop' \in [Loops -> LoopRecords] /\ LoopsServe'
        /\ \A m \in Loops : m # l => loop'[m] = loop[m]
    BY LoopAtRecords
  <1>2. StartsAwaited'
    BY <1>1 DEF Activations, StartsAwaited, StartRecords
  <1>3. StopsAwaited'
    BY <1>1 DEF Activations, StopsAwaited, StopRecords
  <1> QED
    BY <1>1, <1>2, <1>3 DEF Activations, StopsPrepared

\* A start that is accepted, or whose connector is to be restored.
LEMMA StartUpdates ==
  ASSUME NEW r \in StartRecords, NEW accepted \in BOOLEAN,
         NEW pc \in {"charging", "restoring"}
  PROVE  LET q == [r EXCEPT !.pc = pc, !.accepted = accepted, !.tag = NoTag]
         IN  q \in StartRecords /\ q.pc = pc /\ q.owner = r.owner
  <1> DEFINE q == [r EXCEPT !.pc = pc, !.accepted = accepted, !.tag = NoTag]
  <1>1. q \in StartRecords
    BY DEF StartRecords
  <1>2. q.pc = pc
    BY DEF StartRecords
  <1>3. q.owner = r.owner
    BY DEF StartRecords
  <1> QED
    BY <1>1, <1>2, <1>3

\* A stop whose connector has been found.
LEMMA StopOnConnector ==
  ASSUME NEW r \in StopRecords, NEW c \in Connectors
  PROVE  LET q == [r EXCEPT !.pc = "metering", !.connector = c]
         IN  /\ q \in StopRecords /\ q.pc = "metering"
             /\ q.connector = c /\ q.owner = r.owner
  <1> DEFINE q == [r EXCEPT !.pc = "metering", !.connector = c]
  <1>0. c \in 0..MaxConnectors
    BY DEF Connectors
  <1>1. q \in StopRecords
    BY <1>0 DEF StopRecords
  <1>2. q.pc = "metering"
    BY DEF StopRecords
  <1>3. q.connector = c
    BY DEF StopRecords
  <1>4. q.owner = r.owner
    BY DEF StopRecords
  <1> QED
    BY <1>1, <1>2, <1>3, <1>4

\* A remote stop before and after its notification.
LEMMA StopNotifies ==
  ASSUME NEW r \in StopRecords, NEW c \in Connectors
  PROVE  LET q == [r EXCEPT !.pc = "finishing", !.connector = c, !.tx = NoTx]
         IN  /\ q \in StopRecords /\ q.pc = "finishing"
             /\ q.connector = c /\ q.owner = r.owner
  <1> DEFINE q == [r EXCEPT !.pc = "finishing", !.connector = c, !.tx = NoTx]
  <1>0. c \in 0..MaxConnectors
    BY DEF Connectors
  <1>1. q \in StopRecords
    BY <1>0 DEF StopRecords
  <1>2. q.pc = "finishing"
    BY DEF StopRecords
  <1>3. q.connector = c
    BY DEF StopRecords
  <1>4. q.owner = r.owner
    BY DEF StopRecords
  <1> QED
    BY <1>1, <1>2, <1>3, <1>4

LEMMA StopRequested ==
  ASSUME NEW r \in StopRecords, NEW t \in Starts \cup {NoTx}
  PROVE  LET q == [r EXCEPT !.pc = "requested", !.tx = t]
         IN  q \in StopRecords /\ q.pc = "requested" /\ q.owner = r.owner
  BY DEF StopRecords

LEMMA StopNotified ==
  ASSUME NEW r \in StopRecords, NEW t \in Starts \cup {NoTx}
  PROVE  LET q == [r EXCEPT !.pc = "requested", !.connector = 0, !.tx = t]
         IN  q \in StopRecords /\ q.pc = "requested" /\ q.owner = r.owner
  <1>1. 0 \in 0..MaxConnectors
    BY TransactionsAssumption
  <1> QED
    BY <1>1 DEF StopRecords

\* Every step of a start preserves the activations.
LEMMA StartingActivations ==
  ASSUME IInv, NEW s \in Starts, Starting(s)
  PROVE  Activations'
  <1> USE TransactionsAssumption DEF IInv
  <1>0. start[s] \in StartRecords /\ start \in [Starts -> StartRecords]
    BY DEF Activations
  <1>1. ASSUME NEW c \in Connectors, NEW tag \in Tags, RemoteStart(s, c, tag) \/ UIStart(s, c, tag)
        PROVE  Activations'
    <2>1. PICK pc \in {"responding", "preparing"} : StartRequest(s, pc, c, tag, Nobody)
      BY <1>1 DEF RemoteStart, UIStart
    <2> DEFINE r == [pc |-> pc, connector |-> c, tag |-> tag, owner |-> Nobody, accepted |-> FALSE]
    <2>2. start' = [start EXCEPT ![s] = r]
      BY <2>1 DEF StartRequest
    <2>3. r \in StartRecords /\ r.owner = Nobody
      BY DEF StartRecords, Connectors
    <2>4. UNCHANGED <<stop, loop>>
      BY <1>1 DEF RemoteStart, UIStart, loopVars
    <2> HIDE DEF r
    <2> QED
      BY <2>2, <2>3, <2>4, StartGoesOn
  <1>2. CASE RemoteStartResponded(s)
    <2>1. [start[s] EXCEPT !.pc = "preparing"] \in StartRecords
      BY <1>0 DEF StartRecords
    <2> QED
      BY <1>2, <1>0, <2>1, StartGoesOn DEF RemoteStartResponded, loopVars, StartRecords
  <1>3. CASE Prepared(s)
    <2>1. [start[s] EXCEPT !.pc = "requested"] \in StartRecords
      BY <1>0 DEF StartRecords
    <2> QED
      BY <1>3, <1>0, <2>1, StartGoesOn DEF Prepared, loopVars, StartRecords
  <1>4. ASSUME NEW accepted \in BOOLEAN, StartAnswered(s, accepted)
        PROVE  Activations'
    <2>0. UNCHANGED stop
      BY <1>4 DEF StartAnswered
    <2>1. CASE BeginTransaction(s)
      <3> DEFINE q == [start[s] EXCEPT !.pc = "charging", !.accepted = TRUE, !.tag = NoTag]
      <3>1. q \in StartRecords /\ q.owner = start[s].owner
        BY <1>0, StartUpdates
      <3>2. start' = [start EXCEPT ![s] = q] /\ UNCHANGED loop
        BY <1>0, <2>1 DEF BeginTransaction
      <3> HIDE DEF q
      <3> QED
        BY <2>0, <3>1, <3>2, StartGoesOn
    <2>2. CASE StartSettled(s, accepted)
      BY <2>0, <2>2, StartSettledActivations
    <2>3. CASE /\ start' = [start EXCEPT ![s].pc = "restoring", ![s].accepted = accepted, ![s].tag = NoTag]
               /\ UNCHANGED loop
      <3> DEFINE q == [start[s] EXCEPT !.pc = "restoring", !.accepted = accepted, !.tag = NoTag]
      <3>1. q \in StartRecords /\ q.owner = start[s].owner
        BY <1>0, StartUpdates
      <3>2. start' = [start EXCEPT ![s] = q]
        BY <1>0, <2>3
      <3> HIDE DEF q
      <3> QED
        BY <2>0, <2>3, <3>1, <3>2, StartGoesOn
    <2> QED
      BY <1>4, <2>1, <2>2, <2>3 DEF StartAnswered, IgnoreStart, ResetOnStartError
  <1>5. CASE Charging(s)
    BY <1>5, StartSettledActivations DEF Charging
  <1>6. CASE Restored(s)
    BY <1>6, <1>0, StartSettledActivations DEF Restored, StartRecords
  <1>7. CASE StartFailed(s)
    <2>1. CASE EndStart(s)
      BY <1>7, <2>1, EmptyRecords, StartDies DEF StartFailed, EndStart
    <2>2. CASE start' = [start EXCEPT ![s].owner = Nobody]
      <3>1. [start[s] EXCEPT !.owner = Nobody] \in StartRecords
        BY <1>0 DEF StartRecords
      <3> QED
        BY <1>7, <1>0, <2>2, <3>1, StartDies DEF StartFailed, StartRecords
    <2> QED
      BY <1>7, <2>1, <2>2 DEF StartFailed
  <1> QED
    BY <1>1, <1>2, <1>3, <1>4, <1>5, <1>6, <1>7 DEF Starting, StartStep

\* Every step of a stop preserves the activations.
LEMMA StoppingActivations ==
  ASSUME IInv, NEW x \in Stops, Stopping(x)
  PROVE  Activations'
  <1> USE TransactionsAssumption DEF IInv
  <1>0. stop[x] \in StopRecords /\ stop \in [Stops -> StopRecords]
    BY DEF Activations
  <1>1. ASSUME NEW pc \in {"responding", "requested", "unlocking"},
               NEW c \in 0..MaxConnectors, NEW t \in Starts \cup {NoTx},
               StopRequest(x, pc, c, t, Nobody), UNCHANGED <<start, loop>>
        PROVE  Activations'
    <2> DEFINE r == [pc |-> pc, connector |-> c, tx |-> t, target |-> "none", owner |-> Nobody]
    <2>1. stop' = [stop EXCEPT ![x] = r]
      BY <1>1 DEF StopRequest
    <2>2. r \in StopRecords /\ r.owner = Nobody /\ r.pc \notin {"finishing", "metering", "releasing"}
      BY DEF StopRecords
    <2> HIDE DEF r
    <2> QED
      BY <1>1, <2>1, <2>2, StopGoesOn
  <1>2. ASSUME NEW t \in Starts, RemoteStop(x, t) \/ UIStop(x, t)
        PROVE  Activations'
    <2>1. \/ StopRequest(x, "responding", 0, t, Nobody)
          \/ StopRequest(x, "requested", 0, t, Nobody)
      BY <1>2 DEF RemoteStop, UIStop
    <2>2. UNCHANGED <<start, loop>>
      BY <1>2 DEF RemoteStop, UIStop, loopVars
    <2> QED
      BY <1>1, <2>1, <2>2
  <1>3. ASSUME NEW c \in Connectors, UnlockConnector(x, c)
        PROVE  Activations'
    <2>1. \/ StopRequest(x, "requested", 0, tx[c], Nobody)
          \/ StopRequest(x, "unlocking", c, NoTx, Nobody)
      BY <1>3 DEF UnlockConnector
    <2>2. UNCHANGED <<start, loop>>
      BY <1>3 DEF UnlockConnector, loopVars
    <2>3. tx[c] \in Starts \cup {NoTx} /\ c \in 0..MaxConnectors /\ 0 \in 0..MaxConnectors
      BY DEF ConnectorsOK, Connectors
    <2> QED
      BY <1>1, <2>1, <2>2, <2>3
  <1>4. CASE RemoteStopResponded(x)
    <2>0. UNCHANGED <<start, loop>>
      BY <1>4 DEF RemoteStopResponded, loopVars
    <2>1. CASE stop' = [stop EXCEPT ![x].pc = "requested", ![x].tx = NoTx]
      <3> DEFINE q == [stop[x] EXCEPT !.pc = "requested", !.tx = NoTx]
      <3>1. q \in StopRecords /\ q.pc = "requested" /\ q.owner = stop[x].owner
        BY <1>0, StopRequested
      <3>2. stop' = [stop EXCEPT ![x] = q]
        BY <1>0, <2>1
      <3> HIDE DEF q
      <3> QED
        BY <2>0, <3>1, <3>2, StopGoesOn
    <2>2. ASSUME NEW c \in ConnectorsOf(stop[x].tx),
                 stop' = [stop EXCEPT ![x].pc = "finishing", ![x].connector = c, ![x].tx = NoTx]
          PROVE  Activations'
      <3> DEFINE q == [stop[x] EXCEPT !.pc = "finishing", !.connector = c, !.tx = NoTx]
      <3>1. c \in Connectors
        BY DEF ConnectorsOf
      <3>2. /\ q \in StopRecords /\ q.pc = "finishing"
            /\ q.connector = c /\ q.owner = stop[x].owner
        BY <1>0, <3>1, StopNotifies
      <3>3. stop' = [stop EXCEPT ![x] = q]
        BY <1>0, <2>2
      <3> HIDE DEF q
      <3> QED
        BY <2>0, <3>1, <3>2, <3>3, StopGoesOn
    <2> QED
      BY <1>4, <2>1, <2>2 DEF RemoteStopResponded
  <1>5. CASE Finishing(x)
    <2> DEFINE c == stop[x].connector
    <2>1. c \in Connectors /\ tx[c] \in Starts \cup {NoTx}
      BY <1>5 DEF Finishing, Activations, StopsPrepared, ConnectorsOK
    <2> DEFINE q == [stop[x] EXCEPT !.pc = "requested", !.connector = 0, !.tx = tx[c]]
    <2>2. q \in StopRecords /\ q.pc = "requested" /\ q.owner = stop[x].owner
      BY <1>0, <2>1, StopNotified
    <2>3. stop' = [stop EXCEPT ![x] = q] /\ UNCHANGED <<start, loop>>
      BY <1>5, <1>0 DEF Finishing, loopVars
    <2> HIDE DEF q
    <2> QED
      BY <2>2, <2>3, StopGoesOn
  <1>6. CASE Unlocked(x)
    BY <1>6, EmptyRecords, StopGoesOn DEF Unlocked, EndStop, loopVars
  <1>7. ASSUME NEW c \in Connectors, ReleaseAs(x, c), UNCHANGED <<start, loop>>
        PROVE  Activations'
    <2>1. PICK target \in StatusValues :
            stop' = [stop EXCEPT ![x].pc = "releasing", ![x].connector = c, ![x].target = target]
      BY <1>7 DEF ReleaseAs, StatusValues
    <2> DEFINE q == [stop[x] EXCEPT !.pc = "releasing", !.connector = c, !.target = target]
    <2>2. stop' = [stop EXCEPT ![x] = q]
      BY <2>1, <1>0
    <2>3. /\ q \in StopRecords /\ q.pc = "releasing"
          /\ q.target = target /\ q.owner = stop[x].owner
      <3>0. c \in 0..MaxConnectors
        BY DEF Connectors
      <3>1. q \in StopRecords
        BY <1>0, <3>0 DEF StopRecords
      <3>2. q.pc = "releasing"
        BY <1>0 DEF StopRecords
      <3>3. q.target = target
        BY <1>0 DEF StopRecords
      <3>4. q.owner = stop[x].owner
        BY <1>0 DEF StopRecords
      <3> QED
        BY <3>1, <3>2, <3>3, <3>4
    <2> HIDE DEF q
    <2> QED
      BY <1>7, <2>2, <2>3, StopGoesOn
  <1>8. CASE StopAnswered(x)
    <2>1. CASE StopSettled(x)
      BY <1>8, <2>1, StopSettledActivations DEF StopAnswered
    <2>2. ASSUME NEW c \in Connectors,
                 stop' = [stop EXCEPT ![x].pc = "metering", ![x].connector = c],
                 UNCHANGED <<start, loop>>
          PROVE  Activations'
      <3> DEFINE q == [stop[x] EXCEPT !.pc = "metering", !.connector = c]
      <3>1. /\ q \in StopRecords /\ q.pc = "metering"
            /\ q.connector = c /\ q.owner = stop[x].owner
        BY <1>0, StopOnConnector
      <3>2. stop' = [stop EXCEPT ![x] = q]
        BY <1>0, <2>2
      <3> HIDE DEF q
      <3> QED
        BY <2>2, <3>1, <3>2, StopGoesOn
    <2> QED
      BY <1>8, <1>7, <2>1, <2>2 DEF StopAnswered, ConnectorsOf
  <1>9. CASE EndMetered(x)
    BY <1>9, <1>7 DEF EndMetered, loopVars, Activations, StopsPrepared
  <1>10. CASE Release(x)
    BY <1>10, StopSettledActivations DEF Release
  <1>11. CASE StopFailed(x)
    <2>1. CASE EndStop(x)
      BY <1>11, <2>1, EmptyRecords, StopDies DEF StopFailed, EndStop
    <2>2. CASE stop[x].pc = "requested" /\ stop' = [stop EXCEPT ![x].owner = Nobody]
      <3>1. [stop[x] EXCEPT !.owner = Nobody] \in StopRecords
        BY <1>0 DEF StopRecords
      <3> QED
        BY <1>11, <1>0, <2>2, <3>1, StopDies DEF StopFailed, StopRecords
    <2> QED
      BY <1>11, <2>1, <2>2 DEF StopFailed
  <1> QED
    BY <1>2, <1>3, <1>4, <1>5, <1>6, <1>8, <1>9, <1>10, <1>11 DEF Stopping, StopStep

\* Every step of an ATG loop preserves the activations.
LEMMA GeneratingActivations ==
  ASSUME IInv, NEW l \in Loops, Generating(l)
  PROVE  Activations'
  <1> USE TransactionsAssumption DEF IInv
  <1>1. ASSUME NEW c \in Connectors, StartConnector(l, c)
        PROVE  Activations'
    <2>1. /\ loop[l].pc = "idle"
          /\ loop' = [loop EXCEPT ![l] = [pc |-> "waiting", connector |-> c]]
          /\ UNCHANGED <<start, stop>>
      BY <1>1 DEF StartConnector, Unused
    <2>2. /\ loop' \in [Loops -> LoopRecords]
          /\ \A m \in Loops : m # l => loop'[m] = loop[m]
          /\ loop'[l].connector = c
      BY <2>1 DEF Activations, LoopRecords, Connectors
    <2>3. LoopsServe'
      BY <2>2 DEF Activations, LoopsServe
    <2>4. StartsAwaited'
      BY <2>1, <2>2 DEF Activations, StartsAwaited, StartRecords
    <2>5. StopsAwaited'
      BY <2>1, <2>2 DEF Activations, StopsAwaited, StopRecords
    <2> QED
      BY <2>1, <2>2, <2>3, <2>4, <2>5 DEF Activations, StopsPrepared
  <1>2. CASE LoopDelays(l)
    BY <1>2, LoopMoves DEF LoopDelays
  <1>3. CASE LoopStops(l)
    BY <1>3, LoopMoves DEF LoopStops
  <1>4. CASE LoopSkips(l)
    BY <1>4, LoopMoves DEF LoopSkips, NextIteration
  <1>5. ASSUME NEW s \in Starts, NEW tag \in Tags, LoopStarts(l, s, tag)
        PROVE  Activations'
    <2> DEFINE c == loop[l].connector
               r == [pc |-> "preparing", connector |-> c, tag |-> tag, owner |-> l, accepted |-> FALSE]
    <2>1. loop[l].pc = "delaying" /\ loop' = LoopAt(l, "starting") /\ UNCHANGED stop
      BY <1>5 DEF LoopStarts
    <2>2. c \in 0..MaxConnectors /\ r \in StartRecords /\ r.owner = l
      BY DEF Activations, LoopRecords, StartRecords
    <2>3. start' = [start EXCEPT ![s] = r]
      BY <1>5 DEF LoopStarts, StartRequest
    <2> HIDE DEF r
    <2>4. /\ loop' \in [Loops -> LoopRecords] /\ LoopsServe'
          /\ loop'[l].pc = "starting"
          /\ \A m \in Loops : m # l => loop'[m] = loop[m]
      BY <2>1, LoopAtRecords
    <2>5. start' \in [Starts -> StartRecords]
      BY <2>2, <2>3 DEF Activations
    <2>6. \A q \in Starts : q # s => start'[q] = start[q] /\ start[q].owner # l
      BY <2>1, <2>3 DEF Activations, StartsAwaited, Nobody, Loops
    <2>7. StartsAwaited'
      BY <2>2, <2>3, <2>4, <2>5, <2>6 DEF Activations, StartsAwaited, StartRecords
    <2>8. StopsAwaited'
      BY <2>1, <2>4 DEF Activations, StopsAwaited, StopRecords
    <2> QED
      BY <2>1, <2>4, <2>5, <2>7, <2>8 DEF Activations, StopsPrepared
  <1>6. CASE LoopEndsCharging(l)
    <2> DEFINE c == loop[l].connector
    <2>0. loop[l].pc = "charging" /\ UNCHANGED start
      BY <1>6 DEF LoopEndsCharging
    <2>1. CASE ~Used(c)
      BY <1>6, <2>0, <2>1, LoopMoves DEF LoopEndsCharging, NextIteration
    <2>2. CASE Used(c)
      <3>1. PICK x \in Stops : StopRequest(x, "requested", 0, tx[c], l)
        BY <1>6, <2>2 DEF LoopEndsCharging
      <3> DEFINE r == [pc |-> "requested", connector |-> 0, tx |-> tx[c], target |-> "none", owner |-> l]
      <3>2. c \in Connectors /\ tx[c] \in Starts \cup {NoTx}
        BY <2>0 DEF Activations, LoopsServe, ConnectorsOK
      <3>3. r \in StopRecords /\ r.owner = l /\ r.pc = "requested"
        BY <3>2 DEF StopRecords
      <3>4. stop' = [stop EXCEPT ![x] = r]
        BY <3>1 DEF StopRequest
      <3> HIDE DEF r
      <3>5. loop' = LoopAt(l, "stopping")
        BY <1>6, <2>2 DEF LoopEndsCharging
      <3>6. /\ loop' \in [Loops -> LoopRecords] /\ LoopsServe'
            /\ loop'[l].pc = "stopping"
            /\ \A m \in Loops : m # l => loop'[m] = loop[m]
        BY <2>0, <3>5, LoopAtRecords
      <3>7. stop' \in [Stops -> StopRecords]
        BY <3>3, <3>4 DEF Activations
      <3>8. \A y \in Stops : y # x => stop'[y] = stop[y] /\ stop[y].owner # l
        BY <2>0, <3>4 DEF Activations, StopsAwaited, Nobody, Loops
      <3>9. StopsAwaited'
        BY <3>3, <3>4, <3>6, <3>7, <3>8 DEF Activations, StopsAwaited, StopRecords
      <3>10. StartsAwaited'
        BY <2>0, <3>6 DEF Activations, StartsAwaited, StartRecords
      <3>11. StopsPrepared'
        BY <3>3, <3>4 DEF Activations, StopsPrepared
      <3> QED
        BY <2>0, <3>6, <3>7, <3>9, <3>10, <3>11 DEF Activations
    <2> QED
      BY <2>1, <2>2
  <1> QED
    BY <1>1, <1>2, <1>3, <1>4, <1>5, <1>6 DEF Generating

-----------------------------------------------------------------------------
(* The connectors *)

\* Every step of a start preserves the types of the other variables.
LEMMA StartingConnectors ==
  ASSUME IInv, NEW s \in Starts, Starting(s)
  PROVE  ConnectorsOK'
  <1> USE TransactionsAssumption DEF IInv, ConnectorsOK
  <1> DEFINE c == start[s].connector
  <1>1. ASSUME NEW d \in Connectors, NEW tag \in Tags, RemoteStart(s, d, tag) \/ UIStart(s, d, tag)
        PROVE  ConnectorsOK'
    BY <1>1 DEF RemoteStart, UIStart, connectorVars, statusVars, historyVars, loopVars
  <1>2. CASE RemoteStartResponded(s)
    BY <1>2 DEF RemoteStartResponded, statusVars, historyVars, loopVars
  <1>3. CASE Prepared(s)
    BY <1>3 DEF Prepared, connectorVars, historyVars, loopVars, StatusValues
  <1>4. ASSUME NEW accepted \in BOOLEAN, StartAnswered(s, accepted)
        PROVE  ConnectorsOK'
    <2>1. /\ UNCHANGED <<status, operative, change, run, events>>
          /\ open' \subseteq Starts
      BY <1>4 DEF StartAnswered, statusVars
    <2>2. CASE BeginTransaction(s)
      BY <2>1, <2>2 DEF BeginTransaction
    <2>3. CASE IgnoreStart(s, accepted)
      BY <2>1, <2>3 DEF IgnoreStart, connectorVars, Note, Mishaps
    <2>4. CASE ResetOnStartError(s, accepted)
      BY <2>1, <2>4 DEF ResetOnStartError, ResetConnector, Mishaps
    <2> QED
      BY <1>4, <2>2, <2>3, <2>4 DEF StartAnswered
  <1>5. CASE Charging(s)
    <2>1. metering' \in [Connectors -> BOOLEAN]
      BY <1>5 DEF Charging, StartMeterValues
    <2>2. leaked' \in [Connectors -> Nat]
      <3>1. CASE leaked' = leaked
        BY <3>1
      <3>2. CASE leaked' = [leaked EXCEPT ![c] = @ + IF metering[c] THEN 1 ELSE 0]
        <4>1. \A n \in Nat : n + (IF metering[c] THEN 1 ELSE 0) \in Nat
          OBVIOUS
        <4> QED
          BY <3>2, <4>1
      <3> QED
        BY <1>5, <3>1, <3>2 DEF Charging, StartMeterValues
    <2>3. status' \in [0..MaxConnectors -> StatusValues]
      BY <1>5 DEF Charging, StatusValues
    <2>4. divider' \in Int
      BY <1>5 DEF Charging
    <2>5. mishaps' \subseteq Mishaps
      BY <1>5 DEF Charging, Note, Mishaps
    <2> QED
      BY <1>5, <2>1, <2>2, <2>3, <2>4, <2>5 DEF Charging
  <1>6. CASE Restored(s)
    BY <1>6 DEF Restored, connectorVars, historyVars, StatusValues
  <1>7. CASE StartFailed(s)
    BY <1>7 DEF StartFailed, Fail, Happens, Note, Mishaps, connectorVars, statusVars
  <1> QED
    BY <1>1, <1>2, <1>3, <1>4, <1>5, <1>6, <1>7 DEF Starting, StartStep

\* Every step of a stop preserves the types of the other variables.
LEMMA StoppingConnectors ==
  ASSUME IInv, NEW x \in Stops, Stopping(x)
  PROVE  ConnectorsOK'
  <1> USE TransactionsAssumption DEF IInv, ConnectorsOK
  <1>1. CASE \/ \E t \in Starts : RemoteStop(x, t) \/ UIStop(x, t)
             \/ \E c \in Connectors : UnlockConnector(x, c)
             \/ RemoteStopResponded(x) \/ EndMetered(x)
    BY <1>1 DEF RemoteStop, UIStop, UnlockConnector, RemoteStopResponded, EndMetered,
                connectorVars, statusVars, loopVars, historyVars
  <1>2. CASE Finishing(x) \/ Unlocked(x)
    BY <1>2 DEF Finishing, Unlocked, connectorVars, loopVars, historyVars, StatusValues
  <1>3. CASE StopAnswered(x)
    BY <1>3 DEF StopAnswered, connectorVars, statusVars, historyVars
  <1>4. CASE Release(x)
    <2>1. status' \in [0..MaxConnectors -> StatusValues]
      BY <1>4 DEF Release, Activations, StopsPrepared
    <2>2. divider' \in Int
      BY <1>4 DEF Release
    <2>3. mishaps' \subseteq Mishaps
      BY <1>4 DEF Release, Note, Mishaps
    <2> QED
      BY <1>4, <2>1, <2>2, <2>3 DEF Release, ResetConnector
  <1>5. CASE StopFailed(x)
    BY <1>5 DEF StopFailed, Fail, Happens, Note, Mishaps, connectorVars, statusVars
  <1> QED
    BY <1>1, <1>2, <1>3, <1>4, <1>5 DEF Stopping, StopStep

\* Every step of an availability change preserves the invariant.
LEMMA ChangingInvariant ==
  ASSUME IInv, NEW k \in Changes, Changing(k)
  PROVE  IInv'
  <1> USE TransactionsAssumption DEF IInv, ConnectorsOK
  <1>1. UNCHANGED <<start, stop, loop, run, tx, remote, auth, metering, leaked, divider, open>>
    BY DEF Changing, ChangeAvailability, ChangeNotified, ChangeFailed, connectorVars, loopVars
  <1>2. Activations'
    BY <1>1 DEF Activations, LoopsServe, StartsAwaited, StopsAwaited, StopsPrepared
  <1>3. ASSUME NEW type \in BOOLEAN, NEW i \in Nat, NEW last \in 0..MaxConnectors,
               ChangeFrom(k, type, i, last)
        PROVE  /\ operative' \in [0..MaxConnectors -> BOOLEAN]
               /\ change' \in [Changes -> [pc : {"idle", "notifying", "done"}, type : BOOLEAN,
                                           at : 0..MaxConnectors, last : 0..MaxConnectors]]
    <2>1. operative' \in [0..MaxConnectors -> BOOLEAN]
      BY <1>3 DEF ChangeFrom
    <2>2. CASE change' = [change EXCEPT ![k] = EmptyChange("done")]
      BY <2>1, <2>2 DEF EmptyChange
    <2>3. ASSUME NEW at \in i..last,
                 change' = [change EXCEPT ![k] = [pc |-> "notifying", type |-> type, at |-> at, last |-> last]]
          PROVE  change' \in [Changes -> [pc : {"idle", "notifying", "done"}, type : BOOLEAN,
                                           at : 0..MaxConnectors, last : 0..MaxConnectors]]
      <3>1. at \in 0..MaxConnectors
        OBVIOUS
      <3> QED
        BY <2>3, <3>1
    <2> QED
      BY <1>3, <2>1, <2>2, <2>3 DEF ChangeFrom
  <1>4. ASSUME NEW c \in 0..MaxConnectors, NEW type \in BOOLEAN, ChangeAvailability(k, c, type)
        PROVE  ConnectorsOK'
    <2>1. PICK last \in 0..MaxConnectors : ChangeFrom(k, type, c, last)
      BY <1>4 DEF ChangeAvailability
    <2> QED
      BY <1>1, <1>3, <1>4, <2>1 DEF ChangeAvailability, Happens
  <1>5. CASE ChangeNotified(k)
    <2>1. change[k].type \in BOOLEAN /\ change[k].at + 1 \in Nat /\ change[k].last \in 0..MaxConnectors
      OBVIOUS
    <2>2. status' \in [0..MaxConnectors -> StatusValues]
      BY <1>5 DEF ChangeNotified, StatusValues
    <2>3. ChangeFrom(k, change[k].type, change[k].at + 1, change[k].last)
      BY <1>5 DEF ChangeNotified
    <2>4. UNCHANGED <<events, mishaps>>
      BY <1>5 DEF ChangeNotified, historyVars
    <2>5. /\ operative' \in [0..MaxConnectors -> BOOLEAN]
          /\ change' \in [Changes -> [pc : {"idle", "notifying", "done"}, type : BOOLEAN,
                                      at : 0..MaxConnectors, last : 0..MaxConnectors]]
      BY <1>3, <2>1, <2>3
    <2> QED
      BY <1>1, <1>2, <2>2, <2>4, <2>5
  <1>6. CASE ChangeFailed(k)
    <2>1. change' \in [Changes -> [pc : {"idle", "notifying", "done"}, type : BOOLEAN,
                                  at : 0..MaxConnectors, last : 0..MaxConnectors]]
      BY <1>6 DEF ChangeFailed, EmptyChange
    <2>2. events' \in 0..MaxEvents
      BY <1>6 DEF ChangeFailed, Fail, Happens
    <2>3. mishaps' \subseteq Mishaps
      BY <1>6 DEF ChangeFailed, Fail, Note, Mishaps
    <2> QED
      BY <1>1, <1>2, <1>6, <2>1, <2>2, <2>3 DEF ChangeFailed, statusVars
  <1> QED
    BY <1>2, <1>4, <1>5, <1>6 DEF Changing

\* Every step of an ATG loop preserves the types of the other variables.
LEMMA GeneratingConnectors ==
  ASSUME IInv, NEW l \in Loops, Generating(l)
  PROVE  ConnectorsOK'
  <1> USE TransactionsAssumption DEF IInv, ConnectorsOK
  <1>1. ASSUME NEW c \in Connectors, StartConnector(l, c)
        PROVE  ConnectorsOK'
    BY <1>1 DEF StartConnector, Happens, connectorVars, statusVars
  <1>2. CASE LoopDelays(l) \/ LoopSkips(l) \/ LoopEndsCharging(l)
    BY <1>2 DEF LoopDelays, LoopSkips, LoopEndsCharging, connectorVars, statusVars, historyVars
  <1>3. CASE LoopStops(l)
    BY <1>3 DEF LoopStops, connectorVars, statusVars, historyVars
  <1>4. ASSUME NEW s \in Starts, NEW tag \in Tags, LoopStarts(l, s, tag)
        PROVE  ConnectorsOK'
    BY <1>4 DEF LoopStarts, statusVars, historyVars
  <1> QED
    BY <1>1, <1>2, <1>3, <1>4 DEF Generating

\* The invariant is inductive.
LEMMA Invariance == Spec => []IInv
  <1>1. Init => IInv
    <2> SUFFICES ASSUME Init PROVE ConnectorsOK
      BY InitActivations DEF IInv
    <2> USE TransactionsAssumption DEF Init
    <2>1. change \in [Changes -> [pc : {"idle", "notifying", "done"}, type : BOOLEAN,
                                  at : 0..MaxConnectors, last : 0..MaxConnectors]]
      BY DEF EmptyChange
    <2> QED
      BY <2>1 DEF ConnectorsOK, StatusValues, NoTx
  <1>2. IInv /\ [Next]_vars => IInv'
    <2> SUFFICES ASSUME IInv, [Next]_vars PROVE IInv'
      OBVIOUS
    <2>1. ASSUME NEW s \in Starts, Starting(s) PROVE IInv'
      BY <2>1, StartingActivations, StartingConnectors DEF IInv
    <2>2. ASSUME NEW x \in Stops, Stopping(x) PROVE IInv'
      BY <2>2, StoppingActivations, StoppingConnectors DEF IInv
    <2>3. ASSUME NEW k \in Changes, Changing(k) PROVE IInv'
      BY <2>3, ChangingInvariant
    <2>4. ASSUME NEW l \in Loops, Generating(l) PROVE IInv'
      BY <2>4, GeneratingActivations, GeneratingConnectors DEF IInv
    <2>5. ASSUME NEW c \in Connectors, StopConnector(c) PROVE IInv'
      BY <2>5 DEF StopConnector, connectorVars, statusVars, historyVars, IInv, ConnectorsOK,
           Activations, LoopsServe, StartsAwaited, StopsAwaited, StopsPrepared
    <2>6. CASE UNCHANGED vars
      BY <2>6 DEF vars, connectorVars, statusVars, loopVars, historyVars, IInv, ConnectorsOK,
           Activations, LoopsServe, StartsAwaited, StopsAwaited, StopsPrepared
    <2> QED
      BY <2>1, <2>2, <2>3, <2>4, <2>5, <2>6 DEF Next
  <1> QED
    BY <1>1, <1>2, PTL DEF Spec

\* Every variable keeps its type, whatever the configuration and however many
\* starts, stops and loops overlap.
THEOREM Typing == Spec => []TypeOK
  <1>1. IInv => TypeOK
    BY DEF IInv, Activations, ConnectorsOK, TypeOK
  <1> QED
    BY <1>1, Invariance, PTL

-----------------------------------------------------------------------------
(* Meter values *)

\* A start that has yet to notify 'Charging' finds no interval on its own
\* transaction, unless another start was late.
ChargingUnmetered ==
  \A s \in Starts, c \in Connectors :
    start[s].pc = "charging" /\ start[s].connector = c /\ tx[c] = s /\ metering[c] =>
      "late" \in mishaps

MeterInv == MeteringOnlyDuringTransaction /\ ChargingUnmetered

NoNewCharging ==
  \A s \in Starts :
    start'[s].pc = "charging" =>
      start[s].pc = "charging" /\ start'[s].connector = start[s].connector

\* Intervals and transactions stay, or those of one connector are cleared.
LEMMA MeterStays ==
  ASSUME IInv, MeterInv, NoNewCharging, mishaps \subseteq mishaps', UNCHANGED leaked,
         \/ UNCHANGED <<tx, metering>>
         \/ \E c \in 0..MaxConnectors : ResetConnector(c)
  PROVE  MeterInv'
  <1>1. \A c \in Connectors :
          \/ tx'[c] = tx[c] /\ metering'[c] = metering[c]
          \/ tx'[c] = NoTx /\ ~metering'[c]
    <2>1. CASE UNCHANGED <<tx, metering>>
      BY <2>1
    <2>2. ASSUME NEW d \in 0..MaxConnectors, ResetConnector(d)
          PROVE  \A c \in Connectors :
                   IF c = d THEN tx'[c] = NoTx /\ ~metering'[c]
                            ELSE tx'[c] = tx[c] /\ metering'[c] = metering[c]
      BY <2>2 DEF IInv, ConnectorsOK, ResetConnector
    <2> QED
      BY <2>1, <2>2
  <1> QED
    BY <1>1 DEF MeterInv, MeteringOnlyDuringTransaction, ChargingUnmetered, NoNewCharging

\* What ends a start, or lets another begin, lets none notify 'Charging'.
LEMMA StartsQuiet ==
  ASSUME IInv, NEW s \in Starts,
         \/ UNCHANGED start
         \/ \E pc \in {"responding", "preparing"}, c \in Connectors,
               tag \in Tags, l \in Loops \cup {Nobody} : StartRequest(s, pc, c, tag, l)
         \/ \E pc \in {"preparing", "requested"} : start' = [start EXCEPT ![s].pc = pc]
         \/ \E accepted \in BOOLEAN :
               start' = [start EXCEPT ![s].pc = "restoring", ![s].accepted = accepted, ![s].tag = NoTag]
         \/ EndStart(s)
         \/ start[s].pc = "requested" /\ start' = [start EXCEPT ![s].owner = Nobody]
  PROVE  NoNewCharging
  <1>0. start \in [Starts -> StartRecords]
    BY DEF IInv, Activations
  <1>1. \A r \in Starts : r # s => start'[r] = start[r]
    BY <1>0 DEF StartRequest, EndStart
  <1>2. UNCHANGED start \/ start'[s].pc # "charging"
    <2>1. ASSUME NEW pc \in {"preparing", "requested"}, start' = [start EXCEPT ![s].pc = pc]
          PROVE  start'[s].pc # "charging"
      BY <1>0, <2>1 DEF StartRecords
    <2>2. ASSUME NEW accepted \in BOOLEAN,
                 start' = [start EXCEPT ![s].pc = "restoring", ![s].accepted = accepted, ![s].tag = NoTag]
          PROVE  start'[s].pc # "charging"
      BY <1>0, <2>2 DEF StartRecords
    <2>3. ASSUME start[s].pc = "requested", start' = [start EXCEPT ![s].owner = Nobody]
          PROVE  start'[s].pc # "charging"
      BY <1>0, <2>3 DEF StartRecords
    <2>4. CASE EndStart(s)
      BY <1>0, <2>4 DEF EndStart, EmptyStart
    <2>5. ASSUME NEW pc \in {"responding", "preparing"}, NEW c \in Connectors,
                 NEW tag \in Tags, NEW l \in Loops \cup {Nobody}, StartRequest(s, pc, c, tag, l)
          PROVE  start'[s].pc # "charging"
      BY <1>0, <2>5 DEF StartRequest
    <2> QED
      BY <2>1, <2>2, <2>3, <2>4, <2>5
  <1> QED
    BY <1>1, <1>2 DEF NoNewCharging

\* A start preserves the invariant.
LEMMA StartingMeters ==
  ASSUME IInv, MeterInv, NEW s \in Starts, Starting(s)
  PROVE  MeterInv'
  <1> DEFINE c == start[s].connector
  <1>0. start \in [Starts -> StartRecords] /\ c \in 0..MaxConnectors
    BY DEF IInv, Activations, StartRecords
  <1>1. ASSUME NEW d \in Connectors, NEW tag \in Tags, RemoteStart(s, d, tag) \/ UIStart(s, d, tag)
        PROVE  MeterInv'
    <2>1. NoNewCharging
      BY <1>1, StartsQuiet DEF RemoteStart, UIStart
    <2> QED
      BY <1>1, <2>1, MeterStays DEF RemoteStart, UIStart, connectorVars, historyVars
  <1>2. CASE RemoteStartResponded(s) \/ Prepared(s)
    <2>1. NoNewCharging
      BY <1>2, StartsQuiet DEF RemoteStartResponded, Prepared
    <2> QED
      BY <1>2, <2>1, MeterStays DEF RemoteStartResponded, Prepared, connectorVars, historyVars
  <1>3. CASE \E accepted \in BOOLEAN : IgnoreStart(s, accepted)
    <2>1. NoNewCharging
      BY <1>3, StartsQuiet DEF IgnoreStart, StartSettled
    <2> QED
      BY <1>3, <2>1, MeterStays DEF IgnoreStart, connectorVars, Note
  <1>4. CASE \E accepted \in BOOLEAN : ResetOnStartError(s, accepted)
    <2>1. NoNewCharging
      BY <1>4, StartsQuiet DEF ResetOnStartError, StartSettled
    <2>2. ResetConnector(c) /\ UNCHANGED leaked /\ mishaps \subseteq mishaps'
      BY <1>4 DEF ResetOnStartError, ResetConnector
    <2> QED
      BY <1>0, <2>1, <2>2, MeterStays
  <1>5. CASE BeginTransaction(s)
    <2>1. /\ \A d \in Connectors : d # c => tx'[d] = tx[d]
          /\ c \in Connectors => tx'[c] = s /\ tx[c] = NoTx
          /\ UNCHANGED <<metering, leaked, mishaps>>
      BY <1>0, <1>5 DEF BeginTransaction, Used, IInv, ConnectorsOK
    <2>2. \A r \in Starts : r # s => start'[r] = start[r]
      BY <1>0, <1>5 DEF BeginTransaction
    <2>3. start'[s].connector = c
      BY <1>0, <1>5 DEF BeginTransaction, StartRecords
    <2>4. s # NoTx
      BY DEF Starts, NoTx
    <2> QED
      BY <2>1, <2>2, <2>3, <2>4 DEF MeterInv, MeteringOnlyDuringTransaction, ChargingUnmetered
  <1>6. CASE Charging(s)
    <2>1. /\ start'[s].pc # "charging" /\ \A r \in Starts : r # s => start'[r] = start[r]
          /\ UNCHANGED tx
      BY <1>0, <1>6 DEF Charging, StartSettled, EndStart, EmptyStart
    <2>2. mishaps \subseteq mishaps' /\ (tx[c] \notin {s, NoTx} => "late" \in mishaps')
      BY <1>6 DEF Charging, Note
    <2>3. /\ \A d \in Connectors : d # c => metering'[d] = metering[d] /\ leaked'[d] = leaked[d]
          /\ c \in Connectors /\ ~metering[c] => leaked'[c] = leaked[c]
          /\ tx[c] = NoTx => UNCHANGED <<metering, leaked>>
      BY <1>6 DEF Charging, StartMeterValues, IInv, ConnectorsOK
    <2>4. ASSUME c \in Connectors, metering[c] PROVE "late" \in mishaps'
      BY <1>6, <2>2, <2>4 DEF MeterInv, MeteringOnlyDuringTransaction, ChargingUnmetered, Charging
    <2>5. MeteringOnlyDuringTransaction'
      BY <2>1, <2>2, <2>3, <2>4 DEF MeterInv, MeteringOnlyDuringTransaction
    <2>6. ChargingUnmetered'
      <3> SUFFICES ASSUME NEW r \in Starts, NEW d \in Connectors, start'[r].pc = "charging",
                          start'[r].connector = d, tx'[d] = r, metering'[d]
                   PROVE  "late" \in mishaps'
        BY DEF ChargingUnmetered
      <3>1. r # s /\ start'[r] = start[r] /\ tx[d] = r /\ r # NoTx
        BY <2>1 DEF Starts, NoTx
      <3>2. CASE d = c
        BY <2>2, <3>1, <3>2
      <3>3. CASE d # c
        BY <2>2, <2>3, <3>1, <3>3 DEF MeterInv, ChargingUnmetered
      <3> QED
        BY <3>2, <3>3
    <2> QED
      BY <2>5, <2>6 DEF MeterInv
  <1>7. CASE Restored(s)
    <2>1. NoNewCharging
      BY <1>7, StartsQuiet DEF Restored, StartSettled
    <2> QED
      BY <1>7, <2>1, MeterStays DEF Restored, connectorVars, historyVars
  <1>8. CASE StartFailed(s)
    <2>1. NoNewCharging
      BY <1>8, StartsQuiet DEF StartFailed
    <2> QED
      BY <1>8, <2>1, MeterStays DEF StartFailed, Fail, Note, connectorVars
  <1> QED
    BY <1>1, <1>2, <1>3, <1>4, <1>5, <1>6, <1>7, <1>8 DEF Starting, StartStep, StartAnswered

\* A stop preserves the invariant.
LEMMA StoppingMeters ==
  ASSUME IInv, MeterInv, NEW x \in Stops, Stopping(x)
  PROVE  MeterInv'
  <1>0. stop[x].connector \in 0..MaxConnectors
    BY DEF IInv, Activations, StopRecords
  <1>1. NoNewCharging /\ mishaps \subseteq mishaps'
    BY DEF NoNewCharging, Stopping, StopStep, RemoteStop, UIStop, UnlockConnector,
           RemoteStopResponded, Finishing, Unlocked, StopAnswered, EndMetered, Release, StopFailed,
           historyVars, loopVars, Note, Fail
  <1>2. CASE Release(x)
    BY <1>0, <1>1, <1>2, MeterStays DEF Release, ResetConnector
  <1>3. CASE ~Release(x)
    <2>1. UNCHANGED <<tx, metering, leaked>>
      BY <1>3 DEF Stopping, StopStep, RemoteStop, UIStop, UnlockConnector, RemoteStopResponded,
                  Finishing, Unlocked, StopAnswered, EndMetered, StopFailed, connectorVars
    <2> QED
      BY <1>1, <2>1, MeterStays
  <1> QED
    BY <1>2, <1>3

\* A step of the ATG preserves the invariant.
LEMMA GeneratingMeters ==
  ASSUME IInv, MeterInv, NEW l \in Loops, Generating(l)
  PROVE  MeterInv'
  <1>1. ASSUME NEW s \in Starts, NEW tag \in Tags, LoopStarts(l, s, tag)
        PROVE  MeterInv'
    <2>1. \A r \in Starts : start'[r] = start[r] \/ start'[r].pc = "preparing"
      BY <1>1 DEF LoopStarts, StartRequest, IInv, Activations
    <2> QED
      BY <1>1, <2>1, MeterStays DEF LoopStarts, NoNewCharging, historyVars
  <1>2. CASE ~ \E s \in Starts, tag \in Tags : LoopStarts(l, s, tag)
    <2>1. UNCHANGED <<tx, metering, leaked, start, mishaps>>
      BY <1>2 DEF Generating, StartConnector, LoopDelays, LoopStops, LoopSkips,
                  LoopEndsCharging, connectorVars, historyVars
    <2> QED
      BY <2>1, MeterStays DEF NoNewCharging
  <1> QED
    BY <1>1, <1>2

\* Meter values are sampled during transactions only, and an interval is lost
\* only by a late start: for any number of overlapping starts and stops.
THEOREM Metering == Spec => []MeteringOnlyDuringTransaction
  <1>1. Init => MeterInv
    BY DEF Init, MeterInv, MeteringOnlyDuringTransaction, ChargingUnmetered
  <1>2. IInv /\ MeterInv /\ [Next]_vars => MeterInv'
    <2> SUFFICES ASSUME IInv, MeterInv, [Next]_vars PROVE MeterInv'
      OBVIOUS
    <2>1. ASSUME NEW k \in Changes, Changing(k) PROVE MeterInv'
      BY <2>1, MeterStays DEF Changing, ChangeAvailability, ChangeNotified, ChangeFailed,
           NoNewCharging, connectorVars, historyVars, Fail, Note
    <2>2. ASSUME NEW c \in Connectors, StopConnector(c) PROVE MeterInv'
      BY <2>2, MeterStays DEF StopConnector, NoNewCharging, connectorVars, historyVars
    <2>3. CASE UNCHANGED vars
      BY <2>3, MeterStays DEF vars, NoNewCharging, connectorVars, historyVars
    <2> QED
      BY <2>1, <2>2, <2>3, StartingMeters, StoppingMeters, GeneratingMeters DEF Next
  <1>3. MeterInv => MeteringOnlyDuringTransaction
    BY DEF MeterInv
  <1> QED
    BY <1>1, <1>2, <1>3, Invariance, PTL DEF Spec

-----------------------------------------------------------------------------
(* The loops of the ATG *)

\* No loop gives up a connector that stays started, unless a request failed.
NoLoopGivesUp ==
  /\ mishaps \subseteq mishaps'
  /\ \A c \in Connectors : run'[c] => run[c]
  /\ \A l \in Loops : loop[l].pc # "idle" =>
       \/ loop'[l].pc # "idle" /\ loop'[l].connector = loop[l].connector
       \/ ~run'[loop[l].connector]
       \/ "failed" \in mishaps'

LEMMA ServiceStays ==
  ASSUME StartedConnectorHasLoop, NoLoopGivesUp
  PROVE  StartedConnectorHasLoop'
  BY DEF StartedConnectorHasLoop, NoLoopGivesUp

\* A loop resumed by what it awaits, or moving on its own, does not give up.
LEMMA LoopGoesOn ==
  ASSUME IInv, NEW l \in Loops, loop[l].pc # "idle",
         NEW pc \in {"idle", "waiting", "delaying", "starting", "charging", "stopping"},
         loop' = LoopAt(l, pc), UNCHANGED run, mishaps \subseteq mishaps',
         pc = "idle" => ~run[loop[l].connector] \/ "failed" \in mishaps'
  PROVE  NoLoopGivesUp
  <1>1. /\ loop'[l].pc = pc
        /\ pc # "idle" => loop'[l].connector = loop[l].connector
        /\ \A m \in Loops : m # l => loop'[m] = loop[m]
    BY LoopAtRecords DEF IInv
  <1> QED
    BY <1>1 DEF NoLoopGivesUp

\* Steps that resume no loop.
LEMMA LoopsStay ==
  ASSUME UNCHANGED <<run, loop>>, mishaps \subseteq mishaps'
  PROVE  NoLoopGivesUp
  BY DEF NoLoopGivesUp

\* The settled start lets its loop charge or look at its condition again.
LEMMA StartSettledService ==
  ASSUME IInv, NEW s \in Starts, NEW accepted \in BOOLEAN, StartSettled(s, accepted),
         UNCHANGED run, mishaps \subseteq mishaps'
  PROVE  NoLoopGivesUp
  <1> DEFINE l == start[s].owner
  <1>1. CASE l = Nobody
    BY <1>1, LoopsStay DEF StartSettled
  <1>2. CASE l # Nobody
    <2>1. l \in Loops /\ loop[l].pc # "idle"
      BY <1>2 DEF IInv, Activations, StartRecords, StartsAwaited
    <2>2. PICK pc \in {"charging", "waiting", "idle"} :
            loop' = LoopAt(l, pc) /\ (pc = "idle" => ~run[loop[l].connector])
      BY <1>2 DEF StartSettled, Notify, NextIteration
    <2> QED
      BY <2>1, <2>2, LoopGoesOn
  <1> QED
    BY <1>1, <1>2

\* So does the settled stop.
LEMMA StopSettledService ==
  ASSUME IInv, NEW x \in Stops, StopSettled(x), UNCHANGED run, mishaps \subseteq mishaps'
  PROVE  NoLoopGivesUp
  <1> DEFINE l == stop[x].owner
  <1>1. CASE l = Nobody
    BY <1>1, LoopsStay DEF StopSettled
  <1>2. CASE l # Nobody
    <2>1. l \in Loops /\ loop[l].pc # "idle"
      BY <1>2 DEF IInv, Activations, StopRecords, StopsAwaited
    <2>2. PICK pc \in {"waiting", "idle"} :
            loop' = LoopAt(l, pc) /\ (pc = "idle" => ~run[loop[l].connector])
      BY <1>2 DEF StopSettled, Notify, NextIteration
    <2> QED
      BY <2>1, <2>2, LoopGoesOn
  <1> QED
    BY <1>1, <1>2

\* A failure may end any loop.
LEMMA FailureService ==
  ASSUME "failed" \in mishaps', mishaps \subseteq mishaps', UNCHANGED run
  PROVE  NoLoopGivesUp
  BY DEF NoLoopGivesUp

\* A step of a start leaves no started connector without a loop.
LEMMA StartingService ==
  ASSUME IInv, StartedConnectorHasLoop, NEW s \in Starts, Starting(s)
  PROVE  StartedConnectorHasLoop'
  <1>1. CASE \/ \E c \in Connectors, tag \in Tags : RemoteStart(s, c, tag) \/ UIStart(s, c, tag)
             \/ RemoteStartResponded(s) \/ Prepared(s)
    BY <1>1, LoopsStay, ServiceStays DEF RemoteStart, UIStart, RemoteStartResponded, Prepared,
      loopVars, historyVars
  <1>2. ASSUME NEW accepted \in BOOLEAN, StartAnswered(s, accepted)
        PROVE  StartedConnectorHasLoop'
    <2>1. UNCHANGED run /\ mishaps \subseteq mishaps'
      BY <1>2 DEF StartAnswered, BeginTransaction, IgnoreStart, ResetOnStartError, Note
    <2>2. StartSettled(s, accepted) \/ UNCHANGED loop
      BY <1>2 DEF StartAnswered, BeginTransaction, IgnoreStart, ResetOnStartError
    <2> QED
      BY <2>1, <2>2, StartSettledService, LoopsStay, ServiceStays
  <1>3. CASE Charging(s)
    BY <1>3, StartSettledService, ServiceStays DEF Charging, Note
  <1>4. CASE Restored(s)
    <2>1. start[s].accepted \in BOOLEAN
      BY DEF IInv, Activations, StartRecords
    <2> QED
      BY <1>4, <2>1, StartSettledService, ServiceStays DEF Restored, historyVars
  <1>5. CASE StartFailed(s)
    BY <1>5, FailureService, ServiceStays DEF StartFailed, Fail, Note
  <1> QED
    BY <1>1, <1>2, <1>3, <1>4, <1>5 DEF Starting, StartStep

\* Neither does a step of a stop.
LEMMA StoppingService ==
  ASSUME IInv, StartedConnectorHasLoop, NEW x \in Stops, Stopping(x)
  PROVE  StartedConnectorHasLoop'
  <1>1. CASE \/ \E t \in Starts : RemoteStop(x, t) \/ UIStop(x, t)
             \/ \E c \in Connectors : UnlockConnector(x, c)
             \/ RemoteStopResponded(x) \/ Finishing(x) \/ Unlocked(x) \/ EndMetered(x)
    BY <1>1, LoopsStay, ServiceStays DEF RemoteStop, UIStop, UnlockConnector,
      RemoteStopResponded, Finishing, Unlocked, EndMetered, loopVars, historyVars
  <1>2. CASE StopAnswered(x)
    <2>1. UNCHANGED run /\ mishaps \subseteq mishaps' /\ (StopSettled(x) \/ UNCHANGED loop)
      BY <1>2 DEF StopAnswered, historyVars
    <2> QED
      BY <2>1, StopSettledService, LoopsStay, ServiceStays
  <1>3. CASE Release(x)
    BY <1>3, StopSettledService, ServiceStays DEF Release, Note
  <1>4. CASE StopFailed(x)
    BY <1>4, FailureService, ServiceStays DEF StopFailed, Fail, Note
  <1> QED
    BY <1>1, <1>2, <1>3, <1>4 DEF Stopping, StopStep

\* Nor a step of a loop itself.
LEMMA GeneratingService ==
  ASSUME IInv, StartedConnectorHasLoop, NEW l \in Loops, Generating(l)
  PROVE  StartedConnectorHasLoop'
  <1> DEFINE c == loop[l].connector
  <1>1. ASSUME NEW d \in Connectors, StartConnector(l, d)
        PROVE  StartedConnectorHasLoop'
    <2>1. /\ loop[l].pc = "idle" /\ loop'[l].pc = "waiting" /\ loop'[l].connector = d
          /\ \A m \in Loops : m # l => loop'[m] = loop[m]
          /\ \A e \in Connectors : e # d => run'[e] = run[e]
          /\ UNCHANGED mishaps
      BY <1>1 DEF StartConnector, Unused, IInv, Activations, ConnectorsOK
    <2> QED
      BY <2>1 DEF StartedConnectorHasLoop
  <1>2. CASE LoopDelays(l)
    BY <1>2, LoopGoesOn, ServiceStays DEF LoopDelays, historyVars
  <1>3. CASE LoopStops(l)
    <2>1. c \in Connectors /\ loop[l].pc = "waiting" /\ loop' = LoopAt(l, "idle")
      BY <1>3 DEF LoopStops, IInv, Activations, LoopsServe
    <2>2. /\ \A m \in Loops : m # l => loop'[m] = loop[m]
          /\ ~run'[c] /\ \A d \in Connectors : d # c => run'[d] = run[d]
          /\ UNCHANGED mishaps
      BY <1>3, <2>1, LoopAtRecords DEF LoopStops, IInv, ConnectorsOK, historyVars
    <2>3. NoLoopGivesUp
      BY <2>1, <2>2 DEF NoLoopGivesUp
    <2> QED
      BY <2>3, ServiceStays
  <1>4. CASE LoopSkips(l)
    <2>1. PICK pc \in {"waiting", "idle"} :
            loop' = LoopAt(l, pc) /\ (pc = "idle" => ~run[c])
      BY <1>4 DEF LoopSkips, NextIteration
    <2> QED
      BY <1>4, <2>1, LoopGoesOn, ServiceStays DEF LoopSkips, historyVars
  <1>5. ASSUME NEW s \in Starts, NEW tag \in Tags, LoopStarts(l, s, tag)
        PROVE  StartedConnectorHasLoop'
    BY <1>5, LoopGoesOn, ServiceStays DEF LoopStarts, historyVars
  <1>6. CASE LoopEndsCharging(l)
    <2>1. PICK pc \in {"stopping", "waiting", "idle"} :
            loop' = LoopAt(l, pc) /\ (pc = "idle" => ~run[c])
      BY <1>6 DEF LoopEndsCharging, NextIteration
    <2> QED
      BY <1>6, <2>1, LoopGoesOn, ServiceStays DEF LoopEndsCharging, historyVars
  <1> QED
    BY <1>1, <1>2, <1>3, <1>4, <1>5, <1>6 DEF Generating

\* A connector the ATG considers started is served by a loop unless a request
\* has failed, however the ATG, the server and the UI are interleaved.
THEOREM Service == Spec => []StartedConnectorHasLoop
  <1>1. Init => StartedConnectorHasLoop
    BY DEF Init, StartedConnectorHasLoop
  <1>2. IInv /\ StartedConnectorHasLoop /\ [Next]_vars => StartedConnectorHasLoop'
    <2> SUFFICES ASSUME IInv, StartedConnectorHasLoop, [Next]_vars
                 PROVE  StartedConnectorHasLoop'
      OBVIOUS
    <2>1. ASSUME NEW k \in Changes, Changing(k) PROVE StartedConnectorHasLoop'
      BY <2>1, LoopsStay, ServiceStays DEF Changing, ChangeAvailability, ChangeNotified,
        ChangeFailed, loopVars, historyVars, Fail, Note
    <2>2. ASSUME NEW c \in Connectors, StopConnector(c) PROVE StartedConnectorHasLoop'
      <3>1. NoLoopGivesUp
        BY <2>2 DEF StopConnector, NoLoopGivesUp, historyVars, IInv, ConnectorsOK
      <3> QED
        BY <3>1, ServiceStays
    <2>3. CASE UNCHANGED vars
      BY <2>3, LoopsStay, ServiceStays DEF vars, loopVars, historyVars
    <2> QED
      BY <2>1, <2>2, <2>3, StartingService, StoppingService, GeneratingService DEF Next
  <1> QED
    BY <1>1, <1>2, Invariance, PTL DEF Spec

-----------------------------------------------------------------------------
(* The power divider and the server *)

\* Placed, Begun, Distinct and Releases hold whatever fails: a request under
\* way is about a connector; an id on a connector or in a stop is that of a
\* start whose answer has been handled; no two connectors have the same one;
\* and a stop that releases a connector knows the connector and the id.
Placed ==
  \A s \in Starts : start[s].pc \notin {"idle", "done"} => start[s].connector \in Connectors

HasBegun(t) == start[t].pc \in {"charging", "done"}

Begun ==
  /\ \A c \in Connectors : Used(c) => HasBegun(tx[c])
  /\ \A x \in Stops : stop[x].tx # NoTx => HasBegun(stop[x].tx)

Distinct == \A c, d \in Connectors : Used(c) /\ tx[c] = tx[d] => c = d

Releasing(x) == stop[x].pc \in {"metering", "releasing"}

Releases ==
  \A x \in Stops :
    Releasing(x) => stop[x].tx \in Starts /\ stop[x].connector \in Connectors

Structure == Placed /\ Begun /\ Distinct /\ Releases

\* What a step may do to the starts, the stops and the ids of the connectors
\* for Structure to hold again, unless it begins a transaction.
StartsKeep ==
  \A r \in Starts :
    /\ start[r].pc \in {"charging", "done"} => start'[r].pc \in {"charging", "done"}
    /\ start'[r].pc \notin {"idle", "done"} => start'[r].connector \in Connectors

StopsKeep ==
  \A y \in Stops :
    /\ stop'[y].tx \in {NoTx, stop[y].tx} \cup {tx[c] : c \in Connectors}
    /\ stop'[y].pc \in {"metering", "releasing"} =>
         stop'[y].tx \in Starts /\ stop'[y].connector \in Connectors

LEMMA StructureKept ==
  ASSUME IInv, Structure, StartsKeep, StopsKeep,
         \A c \in Connectors : tx'[c] \in {tx[c], NoTx}
  PROVE  Structure'
  <1> USE DEF Structure
  <1>0. /\ \A c \in Connectors : tx[c] \in Starts \cup {NoTx}
        /\ \A x \in Stops : stop[x].tx \in Starts \cup {NoTx}
    BY DEF IInv, ConnectorsOK, Activations, StopRecords
  <1>1. Placed'
    BY DEF StartsKeep, Placed
  <1>2. ASSUME NEW t \in Starts, start[t].pc \in {"charging", "done"}
        PROVE  start'[t].pc \in {"charging", "done"}
    BY <1>2 DEF StartsKeep
  <1>3. \A c \in Connectors : tx'[c] # NoTx => start'[tx'[c]].pc \in {"charging", "done"}
    BY <1>0, <1>2 DEF Begun, Used, HasBegun
  <1>4. \A x \in Stops : stop'[x].tx # NoTx => start'[stop'[x].tx].pc \in {"charging", "done"}
    <2> SUFFICES ASSUME NEW x \in Stops, stop'[x].tx # NoTx
                 PROVE  start'[stop'[x].tx].pc \in {"charging", "done"}
      OBVIOUS
    <2>1. CASE stop'[x].tx = stop[x].tx
      BY <1>0, <1>2, <2>1 DEF Begun, HasBegun
    <2>2. ASSUME NEW c \in Connectors, stop'[x].tx = tx[c]
          PROVE  start'[stop'[x].tx].pc \in {"charging", "done"}
      BY <1>0, <1>2, <2>2 DEF Begun, HasBegun, Used
    <2> QED
      BY <2>1, <2>2 DEF StopsKeep
  <1>5. Begun'
    BY <1>3, <1>4 DEF Begun, Used, HasBegun
  <1>6. Distinct'
    BY DEF Distinct, Used
  <1>7. Releases'
    BY DEF StopsKeep, Releases, Releasing
  <1> QED
    BY <1>1, <1>5, <1>6, <1>7

\* Requests that stay as they are do what Structure asks.
LEMMA StopsStay ==
  ASSUME IInv, Structure, UNCHANGED stop PROVE StopsKeep
  BY DEF StopsKeep, Structure, Releases, Releasing

LEMMA StartsStay ==
  ASSUME IInv, Structure, UNCHANGED start PROVE StartsKeep
  BY DEF StartsKeep, Structure, Placed

\* The starts that have yet to notify 'Charging' stay the same.
SameCharging ==
  \A r \in Starts : start'[r].pc = "charging" <=> start[r].pc = "charging"

\* A start that goes on before its answer is handled, or ends without it.
LEMMA StartMoves ==
  ASSUME IInv, Structure, NEW s \in Starts,
         start[s].pc \notin {"charging", "done"},
         \/ \E pc \in {"responding", "preparing"}, c \in Connectors,
               tag \in Tags, l \in Loops \cup {Nobody} : StartRequest(s, pc, c, tag, l)
         \/ \E pc \in {"preparing", "requested"} :
               start[s].pc # "idle" /\ start' = [start EXCEPT ![s].pc = pc]
         \/ \E accepted \in BOOLEAN :
               /\ start[s].pc # "idle"
               /\ start' = [start EXCEPT ![s].pc = "restoring", ![s].accepted = accepted, ![s].tag = NoTag]
         \/ EndStart(s)
         \/ start[s].pc = "requested" /\ start' = [start EXCEPT ![s].owner = Nobody]
  PROVE  StartsKeep /\ SameCharging
  <1>0. start \in [Starts -> StartRecords]
    BY DEF IInv, Activations
  <1>1. \A r \in Starts : r # s => start'[r] = start[r]
    BY <1>0 DEF StartRequest, EndStart
  <1>2. /\ start'[s].pc # "charging"
        /\ start'[s].pc \notin {"idle", "done"} => start'[s].connector \in Connectors
    <2>0. start[s].pc \notin {"idle", "done"} => start[s].connector \in Connectors
      BY DEF Structure, Placed
    <2>1. ASSUME NEW pc \in {"preparing", "requested"}, start[s].pc # "idle",
                 start' = [start EXCEPT ![s].pc = pc]
          PROVE  start'[s].pc = pc /\ start'[s].connector = start[s].connector
      BY <1>0, <2>1 DEF StartRecords
    <2>2. ASSUME NEW accepted \in BOOLEAN, start[s].pc # "idle",
                 start' = [start EXCEPT ![s].pc = "restoring", ![s].accepted = accepted, ![s].tag = NoTag]
          PROVE  start'[s].pc = "restoring" /\ start'[s].connector = start[s].connector
      BY <1>0, <2>2 DEF StartRecords
    <2>3. ASSUME start[s].pc = "requested", start' = [start EXCEPT ![s].owner = Nobody]
          PROVE  start'[s].pc = "requested" /\ start'[s].connector = start[s].connector
      BY <1>0, <2>3 DEF StartRecords
    <2>4. CASE EndStart(s)
      BY <1>0, <2>4 DEF EndStart, EmptyStart
    <2>5. ASSUME NEW pc \in {"responding", "preparing"}, NEW c \in Connectors,
                 NEW tag \in Tags, NEW l \in Loops \cup {Nobody}, StartRequest(s, pc, c, tag, l)
          PROVE  start'[s].pc = pc /\ start'[s].connector = c
      BY <1>0, <2>5 DEF StartRequest
    <2> QED
      BY <2>0, <2>1, <2>2, <2>3, <2>4, <2>5
  <1>3. StartsKeep
    BY <1>1, <1>2 DEF StartsKeep, Structure, Placed
  <1> QED
    BY <1>1, <1>2, <1>3 DEF SameCharging

\* A request for a stop that is new, goes on before its answer or ends.
LEMMA StopMoves ==
  ASSUME IInv, Structure, NEW x \in Stops, ~Releasing(x),
         \/ \E pc \in {"responding", "requested", "unlocking"}, c \in 0..MaxConnectors,
               t \in {NoTx, stop[x].tx} \cup {tx[d] : d \in Connectors}, l \in Loops \cup {Nobody} :
                 StopRequest(x, pc, c, t, l)
         \/ \E pc \in {"requested", "finishing"}, c \in 0..MaxConnectors,
               t \in {NoTx, stop[x].tx} \cup {tx[d] : d \in Connectors} :
                 stop' = [stop EXCEPT ![x].pc = pc, ![x].connector = c, ![x].tx = t]
         \/ stop' = [stop EXCEPT ![x].pc = "requested", ![x].tx = NoTx]
         \/ EndStop(x)
         \/ stop[x].pc = "requested" /\ stop' = [stop EXCEPT ![x].owner = Nobody]
  PROVE  /\ StopsKeep
         /\ stop'[x].pc \notin {"metering", "releasing"}
         /\ \A y \in Stops : y # x => stop'[y] = stop[y]
  <1> DEFINE ids == {NoTx, stop[x].tx} \cup {tx[d] : d \in Connectors}
  <1>0. stop \in [Stops -> StopRecords]
    BY DEF IInv, Activations
  <1>1. \A y \in Stops : y # x => stop'[y] = stop[y]
    BY <1>0 DEF StopRequest, EndStop
  <1> DEFINE known == stop'[x].pc \notin {"metering", "releasing"} /\ stop'[x].tx \in ids
  <1>2. known
    <2>1. ASSUME NEW pc \in {"requested", "finishing"}, NEW c \in 0..MaxConnectors, NEW t \in ids,
                 stop' = [stop EXCEPT ![x].pc = pc, ![x].connector = c, ![x].tx = t]
          PROVE  known
      BY <1>0, <2>1 DEF StopRecords
    <2>2. ASSUME stop' = [stop EXCEPT ![x].pc = "requested", ![x].tx = NoTx]
          PROVE  known
      BY <1>0, <2>2 DEF StopRecords
    <2>3. ASSUME stop[x].pc = "requested", stop' = [stop EXCEPT ![x].owner = Nobody]
          PROVE  known
      BY <1>0, <2>3 DEF StopRecords
    <2>4. ASSUME EndStop(x)
          PROVE  known
      BY <1>0, <2>4 DEF EndStop, EmptyStop
    <2>5. ASSUME NEW pc \in {"responding", "requested", "unlocking"}, NEW c \in 0..MaxConnectors,
                 NEW t \in ids, NEW l \in Loops \cup {Nobody}, StopRequest(x, pc, c, t, l)
          PROVE  known
      BY <1>0, <2>5 DEF StopRequest
    <2> HIDE DEF known
    <2> QED
      BY <2>1, <2>2, <2>3, <2>4, <2>5
  <1>3. StopsKeep
    <2>1. \A y \in Stops : y # x => stop'[y].tx = stop[y].tx
      BY <1>1
    <2>2. \A y \in Stops : stop'[y].tx \in {NoTx, stop[y].tx} \cup {tx[c] : c \in Connectors}
      BY <1>2, <2>1
    <2>3. \A y \in Stops : stop'[y].pc \in {"metering", "releasing"} =>
            stop'[y].tx \in Starts /\ stop'[y].connector \in Connectors
      BY <1>1, <1>2 DEF Structure, Releases, Releasing
    <2> QED
      BY <2>2, <2>3 DEF StopsKeep
  <1> QED
    BY <1>1, <1>2, <1>3

\* A stop that has found the connector of its transaction, or notifies the
\* status of that connector.
LEMMA StopReleases ==
  ASSUME IInv, Structure, NEW x \in Stops, NEW c \in Connectors,
         stop[x].tx \in Starts,
         stop' = [stop EXCEPT ![x].pc = "metering", ![x].connector = c] \/ ReleaseAs(x, c)
  PROVE  /\ StopsKeep
         /\ stop'[x].pc \in {"metering", "releasing"} /\ stop'[x].tx = stop[x].tx
         /\ \A y \in Stops : y # x => stop'[y] = stop[y]
  <1>0. stop \in [Stops -> StopRecords]
    BY DEF IInv, Activations
  <1>1. \A y \in Stops : y # x => stop'[y] = stop[y]
    BY <1>0 DEF ReleaseAs
  <1>2. /\ stop'[x].pc \in {"metering", "releasing"}
        /\ stop'[x].connector = c /\ stop'[x].tx = stop[x].tx
    <2>1. ASSUME stop' = [stop EXCEPT ![x].pc = "metering", ![x].connector = c]
          PROVE  /\ stop'[x].pc = "metering"
                 /\ stop'[x].connector = c /\ stop'[x].tx = stop[x].tx
      BY <1>0, <2>1 DEF StopRecords
    <2>2. ASSUME ReleaseAs(x, c)
          PROVE  /\ stop'[x].pc = "releasing"
                 /\ stop'[x].connector = c /\ stop'[x].tx = stop[x].tx
      BY <1>0, <2>2 DEF ReleaseAs, StopRecords
    <2> QED
      BY <2>1, <2>2
  <1> QED
    BY <1>1, <1>2 DEF StopsKeep, Structure, Releases, Releasing

Books == Structure /\ DividerCountsTransactions /\ ServerAndStationAgree

\* The stops of the same transactions have been answered and not completed.
SameReleased == \A t \in Starts : BeingReleased(t)' <=> BeingReleased(t)

LEMMA ReleasedStay ==
  ASSUME NEW x \in Stops, \A y \in Stops : y # x => stop'[y] = stop[y],
         \/ ~Releasing(x) /\ stop'[x].pc \notin {"metering", "releasing"}
         \/ /\ Releasing(x) /\ stop'[x].pc \in {"metering", "releasing"}
            /\ stop'[x].tx = stop[x].tx
  PROVE  SameReleased
  BY DEF SameReleased, BeingReleased, Releasing

LEMMA DividerKept ==
  ASSUME DividerCountsTransactions, SameCharging, UNCHANGED <<tx, divider>>,
         mishaps \subseteq mishaps'
  PROVE  DividerCountsTransactions'
  <1>1. {s \in Starts : start'[s].pc = "charging"} = {s \in Starts : start[s].pc = "charging"}
    BY DEF SameCharging
  <1>2. {c \in Connectors : tx'[c] # NoTx} = {c \in Connectors : tx[c] # NoTx}
    OBVIOUS
  <1>3. mishaps' \cap {"failed", "erased", "overtaken"} = {} =>
          mishaps \cap {"failed", "erased", "overtaken"} = {}
    OBVIOUS
  <1> QED
    BY <1>1, <1>2, <1>3 DEF DividerCountsTransactions, Used

LEMMA AgreementKept ==
  ASSUME ServerAndStationAgree, SameReleased, UNCHANGED <<tx, open>>,
         mishaps \subseteq mishaps'
  PROVE  ServerAndStationAgree'
  <1>1. \A t \in Starts : ConnectorsOf(t)' = ConnectorsOf(t)
    BY DEF ConnectorsOf
  <1>2. {t \in Starts : ConnectorsOf(t)' # {} /\ ~BeingReleased(t)'}
          = {t \in Starts : ConnectorsOf(t) # {} /\ ~BeingReleased(t)}
    BY <1>1 DEF SameReleased
  <1>3. mishaps' \subseteq {"late"} => mishaps \subseteq {"late"}
    OBVIOUS
  <1> QED
    BY <1>2, <1>3 DEF ServerAndStationAgree

\* Nothing is counted and nothing agreed on any more once a request has failed
\* or a start has erased a transaction.
LEMMA BooksClosed ==
  ASSUME mishaps' \cap {"failed", "erased"} # {}
  PROVE  DividerCountsTransactions' /\ ServerAndStationAgree'
  BY DEF DividerCountsTransactions, ServerAndStationAgree

\* A step of the starts that begins and completes no transaction.
LEMMA StartBooks ==
  ASSUME IInv, Books, StartsKeep, SameCharging, UNCHANGED <<tx, stop, divider, open>>,
         mishaps \subseteq mishaps'
  PROVE  Books'
  <1>1. Structure'
    BY StopsStay, StructureKept DEF Books
  <1>2. SameReleased
    BY DEF SameReleased, BeingReleased
  <1> QED
    BY <1>1, <1>2, DividerKept, AgreementKept DEF Books

\* A step of the stops that settles no answer.
LEMMA StopBooks ==
  ASSUME IInv, Books, StopsKeep, SameReleased, UNCHANGED <<tx, start, divider, open>>,
         mishaps \subseteq mishaps'
  PROVE  Books'
  <1>1. Structure'
    BY StartsStay, StructureKept DEF Books
  <1>2. SameCharging
    BY DEF SameCharging
  <1> QED
    BY <1>1, <1>2, DividerKept, AgreementKept DEF Books

LEMMA FiniteSides ==
  /\ IsFiniteSet(Starts) /\ IsFiniteSet(Connectors)
  /\ \A S : S \subseteq Starts => IsFiniteSet(S) /\ Cardinality(S) \in Nat
  /\ \A S : S \subseteq Connectors => IsFiniteSet(S) /\ Cardinality(S) \in Nat
  <1>1. IsFiniteSet(Starts)
    BY FS_Interval, TransactionsAssumption DEF Starts
  <1>2. IsFiniteSet(Connectors)
    BY FS_Interval, TransactionsAssumption DEF Connectors
  <1>3. \A S : S \subseteq Starts => IsFiniteSet(S) /\ Cardinality(S) \in Nat
    BY <1>1, FS_Subset, FS_CardinalityType
  <1>4. \A S : S \subseteq Connectors => IsFiniteSet(S) /\ Cardinality(S) \in Nat
    BY <1>2, FS_Subset, FS_CardinalityType
  <1> QED
    BY <1>1, <1>2, <1>3, <1>4

\* A transaction begins: one more connector is used, by a start that has yet to
\* notify it, and the server has it open.
LEMMA BeginBooks ==
  ASSUME IInv, Books, NEW s \in Starts, start[s].pc = "requested",
         BeginTransaction(s), open' = open \cup {s}, UNCHANGED stop
  PROVE  Books'
  <1> DEFINE c == start[s].connector
  <1>0. /\ start \in [Starts -> StartRecords] /\ tx \in [Connectors -> Starts \cup {NoTx}]
        /\ stop \in [Stops -> StopRecords] /\ divider \in Int
        /\ c \in Connectors /\ s # NoTx /\ NoTx \notin Starts /\ open \subseteq Starts
    <2>1. NoTx \notin Starts
      BY TransactionsAssumption DEF Starts, NoTx
    <2> QED
      BY <2>1 DEF IInv, Activations, ConnectorsOK, Books, Structure, Placed
  <1>1. /\ tx[c] = NoTx /\ tx'[c] = s
        /\ \A d \in Connectors : d # c => tx'[d] = tx[d]
        /\ UNCHANGED <<divider, mishaps>>
    BY <1>0 DEF BeginTransaction, Used
  <1>2. /\ start'[s].pc = "charging" /\ start'[s].connector = c
        /\ \A r \in Starts : r # s => start'[r] = start[r]
    <2>1. start' = [start EXCEPT ![s].pc = "charging", ![s].accepted = TRUE, ![s].tag = NoTag]
      BY DEF BeginTransaction
    <2> QED
      BY <1>0, <2>1 DEF StartRecords
  <1>3. /\ \A d \in Connectors : tx[d] # s
        /\ \A x \in Stops : stop[x].tx # s
    BY <1>0 DEF Books, Structure, Begun, HasBegun, Used
  <1>4. Placed' /\ Releases'
    BY <1>0, <1>2 DEF Books, Structure, Placed, Releases, Releasing
  <1>5. Begun'
    <2>1. \A d \in Connectors : tx'[d] # NoTx => start'[tx'[d]].pc \in {"charging", "done"}
      BY <1>0, <1>1, <1>2 DEF Books, Structure, Begun, HasBegun, Used
    <2>2. \A x \in Stops : stop'[x].tx # NoTx => start'[stop'[x].tx].pc \in {"charging", "done"}
      BY <1>0, <1>2, <1>3 DEF Books, Structure, Begun, HasBegun, StopRecords
    <2> QED
      BY <2>1, <2>2 DEF Begun, HasBegun, Used
  <1>6. Distinct'
    BY <1>0, <1>1, <1>3 DEF Books, Structure, Distinct, Used
  <1>7. DividerCountsTransactions'
    <2> DEFINE waiting == {r \in Starts : start[r].pc = "charging"}
               used == {d \in Connectors : tx[d] # NoTx}
    <2>1. {r \in Starts : start'[r].pc = "charging"} = waiting \cup {s} /\ s \notin waiting
      BY <1>2
    <2>2. {d \in Connectors : tx'[d] # NoTx} = used \cup {c} /\ c \notin used
      BY <1>0, <1>1
    <2>3. Cardinality(waiting \cup {s}) = Cardinality(waiting) + 1
      BY <2>1, FiniteSides, FS_AddElement
    <2>4. Cardinality(used \cup {c}) = Cardinality(used) + 1
      BY <2>2, FiniteSides, FS_AddElement
    <2>5. Cardinality(waiting) \in Nat /\ Cardinality(used) \in Nat
      BY FiniteSides
    <2>6. DividerCountsTransactions =
            (mishaps \cap {"failed", "erased", "overtaken"} = {} =>
               divider + Cardinality(waiting) = Cardinality(used))
      BY DEF DividerCountsTransactions, Used
    <2>7. DividerCountsTransactions' =
            (mishaps' \cap {"failed", "erased", "overtaken"} = {} =>
               divider' + Cardinality(waiting \cup {s}) = Cardinality(used \cup {c}))
      BY <2>1, <2>2 DEF DividerCountsTransactions, Used
    <2> HIDE DEF waiting, used
    <2> QED
      BY <1>0, <1>1, <2>3, <2>4, <2>5, <2>6, <2>7 DEF Books
  <1>8. ServerAndStationAgree'
    <2>1. /\ ConnectorsOf(s)' # {} /\ ConnectorsOf(s) = {}
          /\ \A t \in Starts \ {s} : ConnectorsOf(t)' = ConnectorsOf(t)
      BY <1>0, <1>1, <1>3 DEF ConnectorsOf
    <2>2. ~BeingReleased(s)' /\ \A t \in Starts : BeingReleased(t)' <=> BeingReleased(t)
      BY <1>3 DEF BeingReleased
    <2>3. {t \in Starts : ConnectorsOf(t)' # {} /\ ~BeingReleased(t)'}
            = {t \in Starts : ConnectorsOf(t) # {} /\ ~BeingReleased(t)} \cup {s}
      BY <2>1, <2>2
    <2> QED
      BY <1>1, <2>3 DEF Books, ServerAndStationAgree
  <1> QED
    BY <1>4, <1>5, <1>6, <1>7, <1>8 DEF Books, Structure

\* 'Charging' is answered: the divider counts the transaction.
LEMMA ChargingBooks ==
  ASSUME IInv, Books, NEW s \in Starts, Charging(s)
  PROVE  Books'
  <1>0. start \in [Starts -> StartRecords] /\ divider \in Int
    BY DEF IInv, Activations, ConnectorsOK
  <1>1. /\ start[s].pc = "charging" /\ start'[s].pc = "done"
        /\ \A r \in Starts : r # s => start'[r] = start[r]
    BY <1>0 DEF Charging, StartSettled, EndStart, EmptyStart
  <1>2. UNCHANGED <<tx, stop, open>> /\ divider' = divider + 1 /\ mishaps \subseteq mishaps'
    BY DEF Charging, Note
  <1>3. Structure'
    <2>1. StartsKeep
      BY <1>1 DEF StartsKeep, Books, Structure, Placed
    <2> QED
      BY <1>2, <2>1, StopsStay, StructureKept DEF Books
  <1>4. DividerCountsTransactions'
    <2> DEFINE waiting == {r \in Starts : start[r].pc = "charging"}
               used == {d \in Connectors : tx[d] # NoTx}
    <2>1. {r \in Starts : start'[r].pc = "charging"} = waiting \ {s} /\ s \in waiting
      BY <1>1
    <2>2. {d \in Connectors : tx'[d] # NoTx} = used
      BY <1>2
    <2>3. Cardinality(waiting \ {s}) = Cardinality(waiting) - 1
      BY <2>1, FiniteSides, FS_RemoveElement
    <2>4. Cardinality(waiting) \in Nat /\ Cardinality(used) \in Nat
      BY FiniteSides
    <2>5. mishaps' \cap {"failed", "erased", "overtaken"} = {} =>
            divider + Cardinality(waiting) = Cardinality(used)
      BY <1>2 DEF Books, DividerCountsTransactions, Used
    <2>6. (mishaps' \cap {"failed", "erased", "overtaken"} = {} =>
             divider' + Cardinality(waiting \ {s}) = Cardinality(used))
          => DividerCountsTransactions'
      BY <2>1, <2>2 DEF DividerCountsTransactions, Used
    <2> HIDE DEF waiting, used
    <2>7. mishaps' \cap {"failed", "erased", "overtaken"} = {} =>
            divider' + Cardinality(waiting \ {s}) = Cardinality(used)
      BY <1>0, <1>2, <2>3, <2>4, <2>5
    <2> QED
      BY <2>6, <2>7
  <1>5. ServerAndStationAgree'
    <2>1. SameReleased
      BY <1>2 DEF SameReleased, BeingReleased
    <2> QED
      BY <1>2, <2>1, AgreementKept DEF Books
  <1> QED
    BY <1>3, <1>4, <1>5 DEF Books

\* Every step of a start keeps the books.
LEMMA StartingBooks ==
  ASSUME IInv, Books, NEW s \in Starts, Starting(s)
  PROVE  Books'
  <1> DEFINE c == start[s].connector
  <1>0. Structure /\ tx \in [Connectors -> Starts \cup {NoTx}]
    BY DEF Books, IInv, ConnectorsOK
  <1>1. ASSUME NEW d \in Connectors, NEW tag \in Tags, RemoteStart(s, d, tag) \/ UIStart(s, d, tag)
        PROVE  Books'
    <2>1. PICK pc \in {"responding", "preparing"} : StartRequest(s, pc, d, tag, Nobody)
      BY <1>1 DEF RemoteStart, UIStart
    <2>2. StartsKeep /\ SameCharging
      BY <1>0, <2>1, StartMoves DEF StartRequest, Unused
    <2> QED
      BY <1>1, <2>2, StartBooks DEF RemoteStart, UIStart, connectorVars, historyVars
  <1>2. CASE RemoteStartResponded(s) \/ Prepared(s)
    <2>1. /\ start[s].pc \in {"responding", "preparing"}
          /\ \E pc \in {"preparing", "requested"} : start' = [start EXCEPT ![s].pc = pc]
      BY <1>2 DEF RemoteStartResponded, Prepared
    <2>2. StartsKeep /\ SameCharging
      BY <1>0, <2>1, StartMoves
    <2> QED
      BY <1>2, <2>2, StartBooks DEF RemoteStartResponded, Prepared, connectorVars, historyVars
  <1>3. ASSUME NEW accepted \in BOOLEAN, StartAnswered(s, accepted)
        PROVE  Books'
    <2>0. start[s].pc = "requested" /\ UNCHANGED stop /\ open' = open \cup {t \in {s} : accepted}
      BY <1>3 DEF StartAnswered
    <2>1. CASE accepted /\ BeginTransaction(s)
      <3>1. open' = open \cup {s}
        BY <2>0, <2>1
      <3> QED
        BY <2>0, <2>1, <3>1, BeginBooks
    <2>2. ASSUME IgnoreStart(s, accepted) \/ ResetOnStartError(s, accepted)
          PROVE  Books'
      <3>1. StartsKeep /\ SameCharging
        <4>1. \/ EndStart(s)
              \/ start' = [start EXCEPT ![s].pc = "restoring", ![s].accepted = accepted, ![s].tag = NoTag]
          BY <2>2 DEF IgnoreStart, ResetOnStartError, StartSettled
        <4> QED
          BY <1>0, <2>0, <4>1, StartMoves
      <3>2. /\ UNCHANGED divider /\ mishaps \subseteq mishaps'
            /\ accepted => "refused" \in mishaps'
        BY <2>2 DEF IgnoreStart, ResetOnStartError, Note, connectorVars
      <3>3. CASE UNCHANGED tx
        <4>1. CASE accepted
          <5>1. ServerAndStationAgree'
            BY <3>2, <4>1 DEF ServerAndStationAgree
          <5>2. Structure' /\ DividerCountsTransactions'
            BY <1>0, <2>0, <3>1, <3>2, <3>3, StopsStay, StructureKept, DividerKept DEF Books
          <5> QED
            BY <5>1, <5>2 DEF Books
        <4>2. CASE ~accepted
          <5>1. UNCHANGED open
            BY <2>0, <4>2
          <5> QED
            BY <2>0, <3>1, <3>2, <3>3, <5>1, StartBooks
        <4> QED
          BY <4>1, <4>2
      <3>4. CASE ~UNCHANGED tx
        <4>1. ResetConnector(c) /\ mishaps' = mishaps \cup {k \in {"refused"} : accepted} \cup {k \in {"erased"} : Used(c)}
          BY <2>2, <3>4 DEF IgnoreStart, ResetOnStartError, connectorVars
        <4>2. tx' = [tx EXCEPT ![c] = NoTx] /\ c \in Connectors
          BY <2>0, <4>1 DEF ResetConnector, Books, Structure, Placed
        <4>3. "erased" \in mishaps'
          BY <1>0, <3>4, <4>1, <4>2 DEF Used
        <4>4. \A d \in Connectors : tx'[d] \in {tx[d], NoTx}
          BY <1>0, <4>2
        <4>5. Structure'
          BY <1>0, <2>0, <3>1, <4>4, StopsStay, StructureKept
        <4> QED
          BY <4>3, <4>5, BooksClosed DEF Books
      <3> QED
        BY <3>3, <3>4
    <2> QED
      BY <1>3, <2>1, <2>2 DEF StartAnswered
  <1>4. CASE Charging(s)
    BY <1>4, ChargingBooks
  <1>5. CASE Restored(s)
    <2>1. StartsKeep /\ SameCharging
      BY <1>0, <1>5, StartMoves DEF Restored, StartSettled
    <2> QED
      BY <1>5, <2>1, StartBooks DEF Restored, connectorVars, historyVars
  <1>6. CASE StartFailed(s)
    <2>1. UNCHANGED <<tx, stop>> /\ "failed" \in mishaps'
      BY <1>6 DEF StartFailed, Fail, Note, connectorVars
    <2>2. StartsKeep
      <3>0. start \in [Starts -> StartRecords]
        BY DEF IInv, Activations
      <3>1. CASE EndStart(s)
        <4>1. start'[s].pc = "done" /\ \A r \in Starts : r # s => start'[r] = start[r]
          BY <3>0, <3>1 DEF EndStart, EmptyStart
        <4> QED
          BY <1>0, <4>1 DEF StartsKeep, Structure, Placed
      <3>2. CASE start[s].pc = "requested" /\ start' = [start EXCEPT ![s].owner = Nobody]
        BY <1>0, <3>2, StartMoves
      <3> QED
        BY <1>6, <3>1, <3>2 DEF StartFailed
    <2>3. Structure'
      BY <1>0, <2>1, <2>2, StopsStay, StructureKept
    <2> QED
      BY <2>1, <2>3, BooksClosed DEF Books
  <1> QED
    BY <1>1, <1>2, <1>3, <1>4, <1>5, <1>6 DEF Starting, StartStep

\* The server has stopped a transaction: the station has yet to complete it, or
\* does not run it.
LEMMA StopAnsweredBooks ==
  ASSUME IInv, Books, NEW x \in Stops, StopAnswered(x)
  PROVE  Books'
  <1> DEFINE t == stop[x].tx
  <1>0. /\ Structure /\ stop[x].pc = "requested" /\ ~Releasing(x)
        /\ t \in Starts \cup {NoTx} /\ NoTx \notin Starts
    <2>1. NoTx \notin Starts
      BY TransactionsAssumption DEF Starts, NoTx
    <2> QED
      BY <2>1 DEF Books, StopAnswered, Releasing, IInv, Activations, StopRecords
  <1>1. UNCHANGED <<tx, start, divider, mishaps>> /\ open' = open \ {t}
    BY DEF StopAnswered, connectorVars, historyVars
  <1>2. StartsKeep /\ SameCharging
    BY <1>0, <1>1, StartsStay DEF SameCharging
  <1>3. CASE ConnectorsOf(t) = {}
    <2>1. /\ StopsKeep /\ stop'[x].pc \notin {"metering", "releasing"}
          /\ \A y \in Stops : y # x => stop'[y] = stop[y]
      BY <1>0, <1>3, StopMoves DEF StopAnswered, StopSettled
    <2>2. SameReleased
      BY <1>0, <2>1, ReleasedStay
    <2>3. Structure' /\ DividerCountsTransactions'
      BY <1>0, <1>1, <1>2, <2>1, StructureKept, DividerKept DEF Books
    <2>4. ServerAndStationAgree'
      <3> SUFFICES ASSUME mishaps' \subseteq {"late"}
                   PROVE  open' = {r \in Starts : ConnectorsOf(r)' # {} /\ ~BeingReleased(r)'}
        BY DEF ServerAndStationAgree
      <3>1. open = {r \in Starts : ConnectorsOf(r) # {} /\ ~BeingReleased(r)}
        BY <1>1 DEF Books, ServerAndStationAgree
      <3>2. UNCHANGED open
        BY <1>1, <1>3, <3>1
      <3> QED
        BY <1>1, <2>2, <3>2, AgreementKept DEF Books, ServerAndStationAgree
    <2> QED
      BY <2>3, <2>4 DEF Books
  <1>4. CASE ConnectorsOf(t) # {}
    <2>1. PICK c \in ConnectorsOf(t) :
            stop' = [stop EXCEPT ![x].pc = "metering", ![x].connector = c] \/ ReleaseAs(x, c)
      BY <1>4 DEF StopAnswered
    <2>2. c \in Connectors /\ t \in Starts
      BY <1>0, <2>1 DEF ConnectorsOf
    <2>3. /\ StopsKeep /\ stop'[x].pc \in {"metering", "releasing"} /\ stop'[x].tx = t
          /\ \A y \in Stops : y # x => stop'[y] = stop[y]
      BY <1>0, <2>1, <2>2, StopReleases
    <2>4. Structure' /\ DividerCountsTransactions'
      BY <1>0, <1>1, <1>2, <2>3, StructureKept, DividerKept DEF Books
    <2>5. ServerAndStationAgree'
      <3>1. \A r \in Starts : BeingReleased(r)' <=> BeingReleased(r) \/ r = t
        BY <1>0, <2>3 DEF BeingReleased, Releasing
      <3>2. \A r \in Starts : ConnectorsOf(r)' = ConnectorsOf(r)
        BY <1>1 DEF ConnectorsOf
      <3>3. {r \in Starts : ConnectorsOf(r)' # {} /\ ~BeingReleased(r)'}
              = {r \in Starts : ConnectorsOf(r) # {} /\ ~BeingReleased(r)} \ {t}
        BY <3>1, <3>2
      <3> QED
        BY <1>1, <3>3 DEF Books, ServerAndStationAgree
    <2> QED
      BY <2>4, <2>5 DEF Books
  <1> QED
    BY <1>3, <1>4

\* The status is answered: the transaction leaves its connector and the divider,
\* unless another stop has ended it before.
LEMMA ReleaseBooks ==
  ASSUME IInv, Books, NEW x \in Stops, Release(x)
  PROVE  Books'
  <1> DEFINE c == stop[x].connector
             t == stop[x].tx
  <1>0. /\ Structure /\ stop[x].pc = "releasing"
        /\ tx \in [Connectors -> Starts \cup {NoTx}] /\ NoTx \notin Starts
        /\ stop \in [Stops -> StopRecords] /\ divider \in Int
        /\ t \in Starts /\ c \in Connectors
    <2>1. NoTx \notin Starts
      BY TransactionsAssumption DEF Starts, NoTx
    <2> QED
      BY <2>1 DEF Books, Release, Structure, Releases, Releasing, IInv, Activations, ConnectorsOK
  <1>1. /\ tx'[c] = NoTx /\ \A d \in Connectors : d # c => tx'[d] = tx[d]
        /\ UNCHANGED <<start, open>> /\ divider' = divider - 1 /\ mishaps \subseteq mishaps'
        /\ tx[c] # t => "overtaken" \in mishaps'
    BY <1>0 DEF Release, ResetConnector, Note
  <1>2. /\ stop'[x].pc = "done" /\ stop'[x].tx = NoTx
        /\ \A y \in Stops : y # x => stop'[y] = stop[y]
    BY <1>0 DEF Release, StopSettled, EndStop, EmptyStop
  <1>3. Structure'
    <2>1. StartsKeep
      BY <1>0, <1>1, StartsStay
    <2>2. StopsKeep
      BY <1>0, <1>2 DEF StopsKeep, Structure, Releases, Releasing
    <2>3. \A d \in Connectors : tx'[d] \in {tx[d], NoTx}
      BY <1>1
    <2> QED
      BY <1>0, <2>1, <2>2, <2>3, StructureKept
  <1>4. CASE tx[c] # t
    <2>1. DividerCountsTransactions' /\ ServerAndStationAgree'
      BY <1>1, <1>4 DEF DividerCountsTransactions, ServerAndStationAgree
    <2> QED
      BY <1>3, <2>1 DEF Books
  <1>5. CASE tx[c] = t
    <2> DEFINE waiting == {r \in Starts : start[r].pc = "charging"}
               used == {d \in Connectors : tx[d] # NoTx}
    <2>1. {d \in Connectors : tx'[d] # NoTx} = used \ {c} /\ c \in used
      BY <1>0, <1>1, <1>5
    <2>2. Cardinality(used \ {c}) = Cardinality(used) - 1
      BY <2>1, FiniteSides, FS_RemoveElement
    <2>3. Cardinality(waiting) \in Nat /\ Cardinality(used) \in Nat
      BY FiniteSides
    <2>4. mishaps' \cap {"failed", "erased", "overtaken"} = {} =>
            divider + Cardinality(waiting) = Cardinality(used)
      BY <1>1 DEF Books, DividerCountsTransactions, Used
    <2>5. (mishaps' \cap {"failed", "erased", "overtaken"} = {} =>
             divider' + Cardinality(waiting) = Cardinality(used \ {c}))
          => DividerCountsTransactions'
      BY <1>1, <2>1 DEF DividerCountsTransactions, Used
    <2> HIDE DEF waiting, used
    <2>6. mishaps' \cap {"failed", "erased", "overtaken"} = {} =>
            divider' + Cardinality(waiting) = Cardinality(used \ {c})
      BY <1>0, <1>1, <2>2, <2>3, <2>4
    <2>7. ServerAndStationAgree'
      <3>1. \A d \in Connectors : d # c => tx[d] # t
        BY <1>0, <1>5 DEF Structure, Distinct, Used
      <3>2. \A r \in Starts :
              IF r = t THEN ConnectorsOf(r)' = {} /\ BeingReleased(r)
                       ELSE ConnectorsOf(r)' = ConnectorsOf(r)
        BY <1>0, <1>1, <1>5, <3>1 DEF ConnectorsOf, BeingReleased
      <3>3. \A r \in Starts : r # t => (BeingReleased(r)' <=> BeingReleased(r))
        BY <1>0, <1>2 DEF BeingReleased
      <3>4. {r \in Starts : ConnectorsOf(r)' # {} /\ ~BeingReleased(r)'}
              = {r \in Starts : ConnectorsOf(r) # {} /\ ~BeingReleased(r)}
        BY <3>2, <3>3
      <3> QED
        BY <1>1, <3>4 DEF Books, ServerAndStationAgree
    <2> QED
      BY <1>3, <2>5, <2>6, <2>7 DEF Books
  <1> QED
    BY <1>4, <1>5

\* Every step of a stop keeps the books.
LEMMA StoppingBooks ==
  ASSUME IInv, Books, NEW x \in Stops, Stopping(x)
  PROVE  Books'
  <1> DEFINE c == stop[x].connector
             ids == {NoTx, stop[x].tx} \cup {tx[d] : d \in Connectors}
  <1>0. /\ Structure /\ 0 \in 0..MaxConnectors
        /\ stop \in [Stops -> StopRecords]
    BY TransactionsAssumption DEF Books, IInv, Activations
  <1>1. ASSUME \/ \E t \in Starts : RemoteStop(x, t) \/ UIStop(x, t)
               \/ \E d \in Connectors : UnlockConnector(x, d)
        PROVE  Books'
    <2>1. /\ UNCHANGED <<tx, start, divider, open, mishaps>>
          /\ ~Releasing(x)
      BY <1>1 DEF RemoteStop, UIStop, UnlockConnector, StopRequest, Unused, Releasing,
        connectorVars, historyVars
    <2>2. \E pc \in {"responding", "requested", "unlocking"}, d \in 0..MaxConnectors, t \in ids :
            StopRequest(x, pc, d, t, Nobody)
      <3>1. ASSUME NEW t \in Starts, RemoteStop(x, t) \/ UIStop(x, t)
            PROVE  t \in ids /\ \E pc \in {"responding", "requested"} : StopRequest(x, pc, 0, t, Nobody)
        BY <3>1 DEF RemoteStop, UIStop, ConnectorsOf
      <3>2. ASSUME NEW d \in Connectors, UnlockConnector(x, d)
            PROVE  StopRequest(x, "requested", 0, tx[d], Nobody) \/ StopRequest(x, "unlocking", d, NoTx, Nobody)
        BY <3>2 DEF UnlockConnector
      <3>3. Connectors \subseteq 0..MaxConnectors
        BY DEF Connectors
      <3> QED
        BY <1>0, <1>1, <3>1, <3>2, <3>3
    <2>3. /\ StopsKeep /\ stop'[x].pc \notin {"metering", "releasing"}
          /\ \A y \in Stops : y # x => stop'[y] = stop[y]
      BY <1>0, <2>1, <2>2, StopMoves
    <2> QED
      BY <2>1, <2>3, ReleasedStay, StopBooks
  <1>2. CASE RemoteStopResponded(x)
    <2>1. UNCHANGED <<tx, start, divider, open, mishaps>> /\ ~Releasing(x)
      BY <1>2 DEF RemoteStopResponded, Releasing, connectorVars, historyVars
    <2>2. \/ stop' = [stop EXCEPT ![x].pc = "requested", ![x].tx = NoTx]
          \/ \E d \in 0..MaxConnectors :
               stop' = [stop EXCEPT ![x].pc = "finishing", ![x].connector = d, ![x].tx = NoTx]
      <3>1. Connectors \subseteq 0..MaxConnectors
        BY DEF Connectors
      <3> QED
        BY <1>2, <3>1 DEF RemoteStopResponded, ConnectorsOf
    <2>3. /\ StopsKeep /\ stop'[x].pc \notin {"metering", "releasing"}
          /\ \A y \in Stops : y # x => stop'[y] = stop[y]
      BY <1>0, <2>1, <2>2, StopMoves
    <2> QED
      BY <2>1, <2>3, ReleasedStay, StopBooks
  <1>3. CASE Finishing(x)
    <2>1. UNCHANGED <<tx, start, divider, open, mishaps>> /\ ~Releasing(x)
      BY <1>3 DEF Finishing, Releasing, connectorVars, historyVars
    <2>2. c \in Connectors
      BY <1>3 DEF Finishing, IInv, Activations, StopsPrepared
    <2>3. stop' = [stop EXCEPT ![x].pc = "requested", ![x].connector = 0, ![x].tx = tx[c]]
      BY <1>3 DEF Finishing
    <2>4. /\ StopsKeep /\ stop'[x].pc \notin {"metering", "releasing"}
          /\ \A y \in Stops : y # x => stop'[y] = stop[y]
      BY <1>0, <2>1, <2>2, <2>3, StopMoves
    <2> QED
      BY <2>1, <2>4, ReleasedStay, StopBooks
  <1>4. CASE Unlocked(x)
    <2>1. UNCHANGED <<tx, start, divider, open, mishaps>> /\ ~Releasing(x) /\ EndStop(x)
      BY <1>4 DEF Unlocked, Releasing, connectorVars, historyVars
    <2>2. /\ StopsKeep /\ stop'[x].pc \notin {"metering", "releasing"}
          /\ \A y \in Stops : y # x => stop'[y] = stop[y]
      BY <1>0, <2>1, StopMoves
    <2> QED
      BY <2>1, <2>2, ReleasedStay, StopBooks
  <1>5. CASE StopAnswered(x)
    BY <1>5, StopAnsweredBooks
  <1>6. CASE EndMetered(x)
    <2>1. UNCHANGED <<tx, start, divider, open, mishaps>> /\ Releasing(x) /\ ReleaseAs(x, c)
      BY <1>6 DEF EndMetered, Releasing, connectorVars, historyVars
    <2>2. c \in Connectors /\ stop[x].tx \in Starts
      BY <1>0, <2>1 DEF Structure, Releases
    <2>3. /\ StopsKeep /\ stop'[x].pc \in {"metering", "releasing"} /\ stop'[x].tx = stop[x].tx
          /\ \A y \in Stops : y # x => stop'[y] = stop[y]
      BY <1>0, <2>1, <2>2, StopReleases
    <2> QED
      BY <2>1, <2>3, ReleasedStay, StopBooks
  <1>7. CASE Release(x)
    BY <1>7, ReleaseBooks
  <1>8. CASE StopFailed(x)
    <2>1. /\ UNCHANGED <<tx, start>> /\ "failed" \in mishaps'
          /\ EndStop(x) \/ (stop[x].pc = "requested" /\ stop' = [stop EXCEPT ![x].owner = Nobody])
      BY <1>8 DEF StopFailed, Fail, Note, connectorVars
    <2>2. StopsKeep
      <3>1. CASE Releasing(x)
        <4>1. EndStop(x)
          BY <2>1, <3>1 DEF Releasing
        <4>2. /\ stop'[x].pc = "done" /\ stop'[x].tx = NoTx
              /\ \A y \in Stops : y # x => stop'[y] = stop[y]
          BY <1>0, <4>1 DEF EndStop, EmptyStop
        <4> QED
          BY <1>0, <4>2 DEF StopsKeep, Structure, Releases, Releasing
      <3>2. CASE ~Releasing(x)
        BY <1>0, <2>1, <3>2, StopMoves
      <3> QED
        BY <3>1, <3>2
    <2>3. Structure'
      BY <1>0, <2>1, <2>2, StartsStay, StructureKept
    <2> QED
      BY <2>1, <2>3, BooksClosed DEF Books
  <1> QED
    BY <1>1, <1>2, <1>3, <1>4, <1>5, <1>6, <1>7, <1>8 DEF Stopping, StopStep

\* Neither an availability change nor a loop touches them, but for the requests
\* a loop makes.
LEMMA OtherBooks ==
  ASSUME IInv, Books, UNCHANGED <<tx, start, stop, divider, open>>, mishaps \subseteq mishaps'
  PROVE  Books'
  <1>1. StartsKeep /\ SameCharging
    BY StartsStay DEF Books, SameCharging
  <1> QED
    BY <1>1, StartBooks

LEMMA GeneratingBooks ==
  ASSUME IInv, Books, NEW l \in Loops, Generating(l)
  PROVE  Books'
  <1> DEFINE c == loop[l].connector
  <1>0. loop[l].pc # "idle" => c \in Connectors
    BY DEF IInv, Activations, LoopsServe
  <1>1. ASSUME NEW s \in Starts, NEW tag \in Tags, LoopStarts(l, s, tag)
        PROVE  Books'
    <2>1. /\ c \in Connectors /\ start[s].pc \notin {"charging", "done"}
          /\ StartRequest(s, "preparing", c, tag, l)
      BY <1>0, <1>1 DEF LoopStarts, StartRequest, Unused
    <2>2. StartsKeep /\ SameCharging
      BY <2>1, StartMoves DEF Books
    <2> QED
      BY <1>1, <2>2, StartBooks DEF LoopStarts, historyVars
  <1>2. CASE LoopEndsCharging(l)
    <2>1. UNCHANGED <<tx, start, divider, open, mishaps>> /\ c \in Connectors
      BY <1>0, <1>2 DEF LoopEndsCharging, connectorVars, historyVars
    <2>2. CASE Used(c)
      <3>1. PICK x \in Stops : StopRequest(x, "requested", 0, tx[c], l)
        BY <1>2, <2>2 DEF LoopEndsCharging
      <3>2. ~Releasing(x) /\ 0 \in 0..MaxConnectors
        BY <3>1, TransactionsAssumption DEF StopRequest, Unused, Releasing
      <3>3. /\ StopsKeep /\ stop'[x].pc \notin {"metering", "releasing"}
            /\ \A y \in Stops : y # x => stop'[y] = stop[y]
        BY <2>1, <3>1, <3>2, StopMoves DEF Books
      <3> QED
        BY <2>1, <3>2, <3>3, ReleasedStay, StopBooks
    <2>3. CASE ~Used(c)
      BY <1>2, <2>1, <2>3, OtherBooks DEF LoopEndsCharging
    <2> QED
      BY <2>2, <2>3
  <1>3. CASE \/ \E d \in Connectors : StartConnector(l, d)
             \/ LoopDelays(l) \/ LoopStops(l) \/ LoopSkips(l)
    BY <1>3, OtherBooks DEF StartConnector, LoopDelays, LoopStops, LoopSkips,
      connectorVars, historyVars
  <1> QED
    BY <1>1, <1>2, <1>3 DEF Generating

LEMMA BooksInvariance == Spec => []Books
  <1>1. Init => Books
    <2> SUFFICES ASSUME Init PROVE Books
      OBVIOUS
    <2>0. /\ divider = 0 /\ open = {}
          /\ \A s \in Starts : start[s].pc = "idle"
          /\ \A x \in Stops : stop[x].pc = "idle" /\ stop[x].tx = NoTx
          /\ \A c \in Connectors : tx[c] = NoTx
      BY DEF Init, EmptyStart, EmptyStop
    <2>1. Structure
      BY <2>0 DEF Structure, Placed, Begun, Distinct, Releases, Releasing, Used
    <2>2. {s \in Starts : start[s].pc = "charging"} = {} /\ {c \in Connectors : Used(c)} = {}
      BY <2>0 DEF Used
    <2>3. DividerCountsTransactions
      <3>1. divider + Cardinality({}) = Cardinality({})
        BY <2>0, FS_EmptySet
      <3> QED
        BY <2>2, <3>1 DEF DividerCountsTransactions
    <2>4. ServerAndStationAgree
      BY <2>0 DEF ServerAndStationAgree, ConnectorsOf
    <2> QED
      BY <2>1, <2>3, <2>4 DEF Books
  <1>2. IInv /\ Books /\ [Next]_vars => Books'
    <2> SUFFICES ASSUME IInv, Books, [Next]_vars PROVE Books'
      OBVIOUS
    <2>1. ASSUME NEW k \in Changes, Changing(k) PROVE Books'
      BY <2>1, OtherBooks DEF Changing, ChangeAvailability, ChangeNotified, ChangeFailed,
        connectorVars, historyVars, Fail, Note
    <2>2. ASSUME NEW c \in Connectors, StopConnector(c) PROVE Books'
      BY <2>2, OtherBooks DEF StopConnector, connectorVars, historyVars
    <2>3. CASE UNCHANGED vars
      BY <2>3, OtherBooks DEF vars, connectorVars, historyVars
    <2> QED
      BY <2>1, <2>2, <2>3, StartingBooks, StoppingBooks, GeneratingBooks DEF Next
  <1> QED
    BY <1>1, <1>2, Invariance, PTL DEF Spec

\* The power divider is the number of the connectors that run a transaction,
\* less those that have yet to notify 'Charging', however starts and stops
\* overlap, until a request fails, a start erases or a stop overtakes one.
THEOREM DividerIsExact == Spec => []DividerCountsTransactions
  <1>1. Books => DividerCountsTransactions
    BY DEF Books
  <1> QED
    BY <1>1, BooksInvariance, PTL

\* As long as nothing fails, is refused or overlaps, the transactions open on the
\* server are those of the connectors that no answered stop is about to release.
THEOREM AgreementWithServer == Spec => []ServerAndStationAgree
  <1>1. Books => ServerAndStationAgree
    BY DEF Books
  <1> QED
    BY <1>1, BooksInvariance, PTL
=============================================================================
