---------------------------- MODULE Reservations ----------------------------
(***************************************************************************)
(* The reservations of one OCPP 1.6 charging station: ReserveNow and         *)
(* CancelReservation, the expiry of reservations, and the transactions that  *)
(* use a reserved connector.                                                 *)
(*                                                                          *)
(* One JavaScript thread: an action runs from one await to the next.  What  *)
(* is awaited is the answer of the server to a notification or a request;    *)
(* answers come in any order, or the request fails.  Notifications about     *)
(* connector 0 are not sent and await nothing.  The feature profile is       *)
(* supported, every idTag is in the local authorization list and every       *)
(* connector is Operative; the checks of StartTransaction answers about      *)
(* idTags are those of module Transactions.                                  *)
(***************************************************************************)
EXTENDS Integers, FiniteSets

CONSTANTS
  MaxConnectors, \* connectors of the station, besides connector 0
  Tags,          \* idTags
  NoTag,         \* no idTag
  MaxIds,        \* reservation ids the server uses
  Requests,      \* connector, id and idTag of the ReserveNow requests
  StartRequests, \* connector and idTag of the StartTransaction requests
  ReserveConnectorZeroSupported, \* the configuration key of that name
  MaxRequests,   \* bound: requests, together, a firmware update counting 2
  MaxAsks,       \* bound: ReserveNow requests
  MaxCancels,    \* bound: CancelReservation requests
  MaxStarts,     \* bound: StartTransaction requests
  MaxEvents      \* bound: expiries and failures of requests, together

ASSUME ReservationsAssumption ==
  /\ MaxConnectors \in Nat /\ MaxIds \in Nat /\ MaxAsks \in Nat
  /\ MaxRequests \in Nat
  /\ MaxCancels \in Nat /\ MaxStarts \in Nat /\ MaxEvents \in Nat
  /\ NoTag \notin Tags
  /\ Requests \subseteq [connector : 0..MaxConnectors, id : 1..MaxIds, tag : Tags]
  /\ StartRequests \subseteq [connector : 1..MaxConnectors, tag : Tags]
  /\ ReserveConnectorZeroSupported \in BOOLEAN

Connectors == 1..MaxConnectors
AllConnectors == 0..MaxConnectors
Ids == 1..MaxIds
NoId == 0
Asks == 1..MaxAsks
Cancels == 1..MaxCancels
Starts == 1..MaxStarts

VARIABLES
  status,      \* status, per connector and for connector 0
  reservation, \* reservation of the connector; live until its expiryDate
  running,     \* transactionStarted
  ask,         \* ReserveNow requests
  cancel,      \* CancelReservation requests
  start,       \* StartTransaction requests
  stopping,    \* connectors whose stopped transaction is being notified
  requests,    \* what MaxRequests bounds, so far
  events,      \* what MaxEvents bounds, so far
  granted,     \* server: reservations it was granted and that are not over
  mishaps      \* history: kinds of anomalies met, see Mishaps

connectorVars == <<status, reservation, running>>
reservationVars == <<reservation, ask, cancel, start, stopping, granted>>
vars == <<connectorVars, ask, cancel, start, stopping, requests, events, granted, mishaps>>

\* failed:    a request of the station failed
\* overtaken: a removal deletes another reservation than the one it was about
\* unpurged:  a reservation is made while an expired one is still there: its
\*            removal failed, or it expired during the removals of others
\* misused:   a start refers to a reservation that is not the one of its idTag
\* unfound:   a start fails because it refers to a reservation that is not there
Mishaps == {"failed", "overtaken", "unpurged", "misused", "unfound"}
When(kind, happened) == {k \in {kind} : happened}
Note(kind, happened) == mishaps' = mishaps \cup When(kind, happened)

None == [id |-> NoId, tag |-> NoTag, live |-> FALSE]
Reserve(id, tag) == [id |-> id, tag |-> tag, live |-> TRUE]
Grant(c, id, tag) == [connector |-> c, id |-> id, tag |-> tag]

NoAsk(pc) == [pc |-> pc, connector |-> 0, id |-> NoId, tag |-> NoTag, left |-> {}]
NoCancel(pc) == [pc |-> pc, connector |-> 0, id |-> NoId]
NoStart(pc) == [pc |-> pc, connector |-> 0, tag |-> NoTag, id |-> NoId, target |-> "none"]

Init ==
  /\ status = [c \in AllConnectors |-> "Available"]
  /\ reservation = [c \in AllConnectors |-> None]
  /\ running = [c \in Connectors |-> FALSE]
  /\ ask = [k \in Asks |-> NoAsk("idle")]
  /\ cancel = [k \in Cancels |-> NoCancel("idle")]
  /\ start = [s \in Starts |-> NoStart("idle")]
  /\ stopping = {} /\ requests = 0 /\ events = 0 /\ granted = {} /\ mishaps = {}

Happens == events < MaxEvents /\ events' = events + 1
Fail == Happens /\ Note("failed", TRUE)

\* A request that counts n in the bound; the identities of a kind are used in
\* their order.
Request(activation, i, n) ==
  /\ activation[i].pc = "idle" /\ \A j \in 1..(i - 1) : activation[j].pc # "idle"
  /\ requests + n <= MaxRequests /\ requests' = requests + n

-----------------------------------------------------------------------------
(* Looking reservations up *)

First(S) == CHOOSE c \in S : \A d \in S : c <= d

\* getReservationBy 'reservationId' and 'idTag': the connectors that match, of
\* which it takes the first.
WithId(res, id) == {c \in AllConnectors : res[c].id = id}
WithTag(res, tag) == {c \in AllConnectors : res[c].tag = tag}

\* The first match is there and has not expired.
Current(res, matches) == matches # {} /\ res[First(matches)].live

\* getNumberOfReservableConnectors
ReservableConnectors(st, res) ==
  Cardinality({c \in Connectors : st[c] = "Available"}) - (IF res[0] = None THEN 0 ELSE 1)

\* Faulty: a reservation of the idTag does not matter.
ReservableByAnyTag(st, res, id, tag) ==
  /\ ~Current(res, WithId(res, id))
  /\ ReservableConnectors(st, res) > 0

\* isConnectorReservable.  The checks of a connector above 0 are in Refused.
Reservable(st, res, id, tag) ==
  /\ ~Current(res, WithId(res, id))
  /\ ~Current(res, WithTag(res, tag))
  /\ ReservableConnectors(st, res) > 0

\* hasReservation
HasReservation(c, tag) ==
  \E d \in {c, 0} :
    status[d] = "Reserved" /\ reservation[d].live /\ reservation[d].tag = tag

-----------------------------------------------------------------------------
(* Reserving *)

\* addReservation from the assignment on; connector 0 is not notified.  What was
\* reserved on the connector before is over for the server, too.
Place(k, q, st, res) ==
  /\ reservation' = [res EXCEPT ![q.connector] = Reserve(q.id, q.tag)]
  /\ granted' = {g \in granted : g.connector # q.connector}
                  \cup {Grant(q.connector, q.id, q.tag)}
  /\ IF q.connector = 0
     THEN /\ status' = [st EXCEPT ![0] = "Reserved"]
          /\ ask' = [ask EXCEPT ![k] = NoAsk("done")]
     ELSE /\ status' = st
          /\ ask' = [ask EXCEPT ![k] = [q EXCEPT !.pc = "reserving", !.left = {}]]

\* handleRequestReserveNow refuses: Occupied, Unavailable.
Refused(q, st, res) ==
  \/ st[q.connector] \notin {"Available", "Reserved"}
  \/ st[q.connector] = "Reserved" /\ q.connector = 0
  \/ ~Reservable(st, res, q.id, q.tag)

\* handleRequestReserveNow after removeExpiredReservations.  A reservation with
\* the same id, which has expired, is removed first: with an await unless it is
\* on connector 0.
Decide(k, q, st, res) ==
  LET same == WithId(res, q.id) IN
  \/ /\ Refused(q, st, res)
     /\ ask' = [ask EXCEPT ![k] = NoAsk("done")]
     /\ status' = st /\ reservation' = res
     /\ UNCHANGED granted
  \/ /\ ~Refused(q, st, res) /\ same = {}
     /\ Place(k, q, st, res)
  \/ /\ ~Refused(q, st, res) /\ same # {} /\ First(same) = 0
     /\ Place(k, q, [st EXCEPT ![0] = "Available"], [res EXCEPT ![0] = None])
  \/ /\ ~Refused(q, st, res) /\ same # {} /\ First(same) # 0
     /\ ask' = [ask EXCEPT ![k] = [q EXCEPT !.pc = "replacing", !.left = {First(same)}]]
     /\ status' = st /\ reservation' = res
     /\ UNCHANGED granted

\* Expired reservations: the one of connector 0 is removed at once, a removal
\* from another connector awaits.
ExpiredOn(S) == {d \in S : reservation[d].id # NoId /\ ~reservation[d].live}

\* A request decided on with expired reservations around is granted.
Unpurged(q, st, res) ==
  /\ ~Refused(q, st, res)
  /\ \E d \in AllConnectors : res[d].id # NoId /\ ~res[d].live

\* handleRequestReserveNow up to the first await.
ReserveNow(k, r) ==
  LET expired == ExpiredOn(Connectors)
      st == [d \in AllConnectors |-> IF d \in ExpiredOn({0}) THEN "Available" ELSE status[d]]
      res == [d \in AllConnectors |-> IF d \in ExpiredOn({0}) THEN None ELSE reservation[d]]
      q == [pc |-> "purging", connector |-> r.connector, id |-> r.id, tag |-> r.tag,
            left |-> expired]
  IN
  /\ Request(ask, k, 1)
  /\ r.connector = 0 => ReserveConnectorZeroSupported
  /\ \/ expired = {} /\ Decide(k, q, st, res)
     \/ /\ expired # {}
        /\ ask' = [ask EXCEPT ![k] = q]
        /\ status' = st /\ reservation' = res
        /\ UNCHANGED granted
  /\ UNCHANGED <<running, cancel, start, stopping, events, mishaps>>

\* 'Available' is answered for an expired reservation, or fails: it is deleted
\* only if answered.  After the last one the request goes on.
Purged(k, d, answered) ==
  LET q == [ask[k] EXCEPT !.left = @ \ {d}]
      st == IF answered THEN [status EXCEPT ![d] = "Available"] ELSE status
      res == IF answered THEN [reservation EXCEPT ![d] = None] ELSE reservation
      unpurged == When("unpurged", q.left = {} /\ Unpurged(q, st, res))
  IN
  /\ ask[k].pc = "purging" /\ d \in ask[k].left
  /\ \/ q.left = {} /\ Decide(k, q, st, res)
     \/ /\ q.left # {}
        /\ ask' = [ask EXCEPT ![k] = q]
        /\ status' = st /\ reservation' = res
        /\ UNCHANGED granted
  /\ IF answered
     THEN mishaps' = mishaps \cup unpurged \cup When("overtaken", reservation[d].live)
            /\ UNCHANGED events
     ELSE mishaps' = mishaps \cup unpurged \cup {"failed"} /\ Happens
  /\ UNCHANGED <<running, cancel, start, stopping, requests>>

\* 'Available' is answered for the reservation with the same id.
Replaced(k) ==
  LET q == ask[k]
      at == First(q.left)
  IN
  /\ q.pc = "replacing"
  /\ Place(k, q, [status EXCEPT ![at] = "Available"], [reservation EXCEPT ![at] = None])
  /\ Note("overtaken", reservation[at].live)
  /\ UNCHANGED <<running, cancel, start, stopping, events, requests>>

\* 'Reserved' is answered.
Reserved(k) ==
  /\ ask[k].pc = "reserving"
  /\ status' = [status EXCEPT ![ask[k].connector] = "Reserved"]
  /\ ask' = [ask EXCEPT ![k] = NoAsk("done")]
  /\ UNCHANGED <<reservation, running, cancel, start, stopping, events, granted, mishaps, requests>>

\* The notification of a replacement or of the reservation fails: the request is
\* answered Faulted, the reservation stays.
ReserveFailed(k) ==
  LET q == ask[k] IN
  /\ Fail
  /\ q.pc \in {"replacing", "reserving"}
  /\ status' = [status EXCEPT ![q.connector] = "Available"]
  /\ ask' = [ask EXCEPT ![k] = NoAsk("done")]
  /\ granted' = granted \ {Grant(q.connector, q.id, q.tag)}
  /\ UNCHANGED <<reservation, running, cancel, start, stopping, requests>>

\* The expiryDate of a reservation passes; the server knows it.
Expire(c) ==
  /\ Happens
  /\ reservation[c].live
  /\ reservation' = [reservation EXCEPT ![c].live = FALSE]
  /\ granted' = granted \ {Grant(c, reservation[c].id, reservation[c].tag)}
  /\ UNCHANGED <<status, running, ask, cancel, start, stopping, mishaps, requests>>

-----------------------------------------------------------------------------
(* Cancelling *)

\* The reservation of connector c that has this id is deleted.
Remove(st, c, id) ==
  /\ status' = st
  /\ reservation' = [reservation EXCEPT ![c] = None]
  /\ granted' = {g \in granted : ~(g.connector = c /\ g.id = id)}
  /\ Note("overtaken", reservation[c].live /\ reservation[c].id # id)

\* handleRequestCancelReservation; a request that is rejected changes nothing.
\* The notification of connector 0 is not sent.
CancelReservation(k, id) ==
  LET same == WithId(reservation, id) IN
  /\ Request(cancel, k, 1)
  /\ same # {}
  /\ IF First(same) = 0
     THEN /\ Remove([status EXCEPT ![0] = "Available"], 0, id)
          /\ cancel' = [cancel EXCEPT ![k] = NoCancel("done")]
     ELSE /\ cancel' = [cancel EXCEPT ![k] =
               [pc |-> "cancelling", connector |-> First(same), id |-> id]]
          /\ UNCHANGED <<status, reservation, granted, mishaps>>
  /\ UNCHANGED <<running, ask, start, stopping, events>>

\* 'Available' is answered.
Cancelled(k) ==
  LET q == cancel[k] IN
  /\ q.pc = "cancelling"
  /\ Remove([status EXCEPT ![q.connector] = "Available"], q.connector, q.id)
  /\ cancel' = [cancel EXCEPT ![k] = NoCancel("done")]
  /\ UNCHANGED <<running, ask, start, stopping, events, requests>>

CancelFailed(k) ==
  /\ Fail
  /\ cancel[k].pc = "cancelling"
  /\ cancel' = [cancel EXCEPT ![k] = NoCancel("done")]
  /\ UNCHANGED <<connectorVars, ask, start, stopping, granted, requests>>

-----------------------------------------------------------------------------
(* Using a reservation *)

\* buildRequestPayload of StartTransaction: the connector whose reservation the
\* request refers to.
ReferredTo(c) == IF status[0] = "Reserved" THEN 0 ELSE c

\* StartTransaction, of whatever origin.  A remote start without a connector id
\* takes the first connector without a transaction and without a reservation for
\* the idTag: one of the choices made here.
Start(s, r) ==
  LET c == r.connector
      tag == r.tag
      at == ReferredTo(c)
      request(id) == [pc |-> "preparing", connector |-> c, tag |-> tag, id |-> id, target |-> "none"]
  IN
  /\ Request(start, s, 1)
  /\ \/ /\ ~HasReservation(c, tag)
        /\ start' = [start EXCEPT ![s] = request(NoId)]
        /\ UNCHANGED mishaps
     \/ /\ HasReservation(c, tag) /\ reservation[at] # None
        /\ start' = [start EXCEPT ![s] = request(reservation[at].id)]
        /\ Note("misused", reservation[at].tag # tag)
     \/ /\ HasReservation(c, tag) /\ reservation[at] = None
        /\ start' = [start EXCEPT ![s] = NoStart("done")]
        /\ Note("unfound", TRUE)
  /\ UNCHANGED <<connectorVars, ask, cancel, stopping, events, granted>>

\* 'Preparing' is answered, StartTransaction is sent.
Prepared(s) ==
  /\ start[s].pc = "preparing"
  /\ start' = [start EXCEPT ![s].pc = "requested"]
  /\ status' = [status EXCEPT ![start[s].connector] = "Preparing"]
  /\ UNCHANGED <<reservation, running, ask, cancel, stopping, events, granted, mishaps, requests>>

Startable(c) == ~running[c] /\ status[c] \in {"Available", "Preparing"}

\* Faulty: the reservation used stays.
UseKeeping(id) ==
  /\ granted' = {g \in granted : g.id # id}
  /\ UNCHANGED reservation

\* handleResponseStartTransaction uses the reservation of the request, wherever
\* it is by now; the status of its connector stays.
Use(id) ==
  LET same == WithId(reservation, id) \ {c \in AllConnectors : id = NoId} IN
  IF same = {}
  THEN UNCHANGED <<reservation, granted>>
  ELSE /\ reservation' = [reservation EXCEPT ![First(same)] = None]
       /\ granted' = {g \in granted : ~(g.connector = First(same) /\ g.id = id)}

\* The server accepts StartTransaction, the station does, too.
StartAccepted(s) ==
  LET c == start[s].connector IN
  /\ start[s].pc = "requested" /\ Startable(c)
  /\ running' = [running EXCEPT ![c] = TRUE]
  /\ Use(start[s].id)
  /\ start' = [start EXCEPT ![s] = [@ EXCEPT !.pc = "notifying", !.target = "Charging"]]
  /\ UNCHANGED <<status, ask, cancel, stopping, events, mishaps, requests>>

\* The connector is used, or has a status that allows no transaction.
StartIgnored(s) ==
  /\ start[s].pc = "requested" /\ ~Startable(start[s].connector)
  /\ start' = [start EXCEPT ![s] = NoStart("done")]
  /\ UNCHANGED <<connectorVars, ask, cancel, stopping, events, granted, mishaps, requests>>

\* Faulty: a connector that is not reserved has no status afterwards.
RestoredIfReserved(c) == IF reservation[c] # None THEN "Reserved" ELSE "none"

\* restoreConnectorStatus: what it notifies, unless it is the status.
RestoredStatus(c) ==
  IF reservation[c] # None /\ status[c] # "Reserved" THEN "Reserved" ELSE "Available"

\* The server rejects StartTransaction: resetConnectorOnStartTransactionError.
StartRejected(s) ==
  LET c == start[s].connector IN
  /\ start[s].pc = "requested" /\ Startable(c)
  /\ start' = [start EXCEPT ![s] =
       IF RestoredStatus(c) = status[c]
       THEN NoStart("done")
       ELSE [@ EXCEPT !.pc = "notifying", !.target = RestoredStatus(c)]]
  /\ UNCHANGED <<connectorVars, ask, cancel, stopping, events, granted, mishaps, requests>>

\* 'Charging', or the status restored, is answered.
StartNotified(s) ==
  /\ start[s].pc = "notifying"
  /\ status' = [status EXCEPT ![start[s].connector] = start[s].target]
  /\ start' = [start EXCEPT ![s] = NoStart("done")]
  /\ UNCHANGED <<reservation, running, ask, cancel, stopping, events, granted, mishaps, requests>>

StartFailed(s) ==
  /\ Fail
  /\ start[s].pc \in {"preparing", "requested", "notifying"}
  /\ start' = [start EXCEPT ![s] = NoStart("done")]
  /\ UNCHANGED <<connectorVars, ask, cancel, stopping, granted, requests>>

\* StopTransaction of the running transaction is answered.
StopAnswered(c) ==
  /\ running[c] /\ c \notin stopping
  /\ stopping' = stopping \cup {c}
  /\ UNCHANGED <<connectorVars, ask, cancel, start, events, granted, mishaps, requests>>

\* 'Available' is answered, whatever is reserved.
Stopped(c) ==
  /\ c \in stopping
  /\ stopping' = stopping \ {c}
  /\ status' = [status EXCEPT ![c] = "Available"]
  /\ running' = [running EXCEPT ![c] = FALSE]
  /\ UNCHANGED <<reservation, ask, cancel, start, events, granted, mishaps, requests>>

-----------------------------------------------------------------------------
(* Composition *)

ReservationStep ==
  \/ \E k \in Asks, r \in Requests : ReserveNow(k, r)
  \/ \E k \in Asks, d \in Connectors, answered \in BOOLEAN : Purged(k, d, answered)
  \/ \E k \in Asks : Replaced(k) \/ Reserved(k) \/ ReserveFailed(k)
  \/ \E c \in AllConnectors : Expire(c)
  \/ \E k \in Cancels : (\E id \in Ids : CancelReservation(k, id)) \/ Cancelled(k) \/ CancelFailed(k)

TransactionStep ==
  \/ \E s \in Starts, r \in StartRequests : Start(s, r)
  \/ \E s \in Starts : Prepared(s) \/ StartAccepted(s) \/ StartIgnored(s) \/ StartRejected(s)
                         \/ StartNotified(s) \/ StartFailed(s)
  \/ \E c \in Connectors : StopAnswered(c) \/ Stopped(c)

=============================================================================
