------------------------ MODULE FirmwareUpdate_proof ------------------------
(***************************************************************************)
(* Theorems about the reservations of a station that is updated: its types,  *)
(* the uniqueness of reservations, and the agreement of server and station.  *)
(***************************************************************************)
EXTENDS FirmwareUpdate, WellFoundedInduction, TLAPS

\* A request being handled has its reservation, and one that replaces an expired
\* reservation knows where it is and is a mishap.
Asking ==
  \A k \in Asks :
    ask[k].pc \in {"purging", "replacing", "reserving"} =>
      /\ ask[k].id \in Ids /\ ask[k].tag \in Tags
      /\ ask[k].pc = "replacing" => ask[k].left # {} /\ "unpurged" \in mishaps

\* Whoever notifies a status at the end of a start has chosen it.
Notifying == \A s \in Starts : start[s].pc = "notifying" => start[s].target \in Statuses

\* The first of some connectors is one of them, and none is before it.
LEMMA FirstOfConnectors ==
  ASSUME NEW S \in SUBSET AllConnectors, S # {}
  PROVE  First(S) \in S /\ \A d \in S : First(S) <= d
<1>1. S \subseteq Nat /\ MaxConnectors \in Nat
  BY ReservationsAssumption DEF AllConnectors
<1>2. PICK c \in S : \A d \in S : <<d, c>> \notin OpToRel(<, Nat)
  BY <1>1, NatLessThanWellFounded, WFMin
<1>3. \A d \in S : c <= d
  <2> SUFFICES ASSUME NEW d \in S PROVE c <= d
    OBVIOUS
  <2>1. c \in Nat /\ d \in Nat
    BY <1>1
  <2>2. ~(d < c)
    BY <1>2, <2>1 DEF OpToRel
  <2> QED BY <2>1, <2>2
<1> QED BY <1>3 DEF First

-----------------------------------------------------------------------------
(* Types *)

\* What a reservation, the lack of one and a grant are.
LEMMA ReservationTypes ==
  /\ None \in Reservation
  /\ \A id \in Ids, tag \in Tags : Reserve(id, tag) \in Reservation
  /\ \A c \in AllConnectors, id \in Ids, tag \in Tags :
       Grant(c, id, tag) \in [connector : AllConnectors, id : Ids, tag : Tags]
BY DEF None, Reserve, Reservation, Grant

\* The records of activations that are over.
LEMMA OverTypes ==
  /\ NoAsk("done") \in AskRecords
  /\ NoCancel("done") \in CancelRecords
  /\ NoStart("done") \in StartRecords
  /\ NoUpdate("done") \in UpdateRecords
BY ReservationsAssumption
   DEF NoAsk, NoCancel, NoStart, NoUpdate, AskRecords, CancelRecords, StartRecords,
       UpdateRecords, AllConnectors, Statuses

\* Placing a reservation, and deciding on one, from well-formed connectors.
LEMMA PlaceTypes ==
  ASSUME TypeOK, NEW k \in Asks, NEW q \in AskRecords, q.id \in Ids, q.tag \in Tags,
         NEW st \in [AllConnectors -> Statuses], NEW res \in [AllConnectors -> Reservation],
         Place(k, q, st, res)
  PROVE  /\ status' \in [AllConnectors -> Statuses]
         /\ reservation' \in [AllConnectors -> Reservation]
         /\ ask' \in [Asks -> AskRecords]
         /\ granted' \subseteq [connector : AllConnectors, id : Ids, tag : Tags]
<1>1. q.connector \in AllConnectors
  BY DEF AskRecords
<1>2. reservation' \in [AllConnectors -> Reservation]
  BY <1>1, ReservationTypes DEF Place
<1>3. granted' \subseteq [connector : AllConnectors, id : Ids, tag : Tags]
  BY <1>1, ReservationTypes DEF Place, TypeOK
<1>4. status' \in [AllConnectors -> Statuses]
  BY DEF Place, Statuses
<1>5. [q EXCEPT !.pc = "reserving", !.left = {}] \in AskRecords
  BY DEF AskRecords
<1>6. ask' \in [Asks -> AskRecords]
  BY <1>5, OverTypes DEF Place, TypeOK
<1> QED BY <1>2, <1>3, <1>4, <1>6

LEMMA DecideTypes ==
  ASSUME TypeOK, NEW k \in Asks, NEW q \in AskRecords, q.id \in Ids, q.tag \in Tags,
         NEW st \in [AllConnectors -> Statuses], NEW res \in [AllConnectors -> Reservation],
         Decide(k, q, st, res)
  PROVE  /\ status' \in [AllConnectors -> Statuses]
         /\ reservation' \in [AllConnectors -> Reservation]
         /\ ask' \in [Asks -> AskRecords]
         /\ granted' \subseteq [connector : AllConnectors, id : Ids, tag : Tags]
<1> DEFINE same == WithId(res, q.id)
<1>1. CASE ask' = [ask EXCEPT ![k] = NoAsk("done")] /\ status' = st /\ reservation' = res
             /\ UNCHANGED granted
  BY <1>1, OverTypes DEF TypeOK
<1>2. CASE Place(k, q, st, res)
  BY <1>2, PlaceTypes
<1>3. CASE Place(k, q, [st EXCEPT ![0] = "Available"], [res EXCEPT ![0] = None])
  <2>1. [st EXCEPT ![0] = "Available"] \in [AllConnectors -> Statuses]
    BY DEF Statuses
  <2>2. [res EXCEPT ![0] = None] \in [AllConnectors -> Reservation]
    BY ReservationTypes
  <2> QED BY <1>3, <2>1, <2>2, PlaceTypes
<1>4. CASE /\ same # {} /\ First(same) # 0
           /\ ask' = [ask EXCEPT ![k] = [q EXCEPT !.pc = "replacing", !.left = {First(same)}]]
           /\ status' = st /\ reservation' = res
           /\ UNCHANGED granted
  <2>1. same \in SUBSET AllConnectors
    BY DEF WithId
  <2>2. First(same) \in Connectors
    BY <1>4, <2>1, FirstOfConnectors, ReservationsAssumption DEF AllConnectors, Connectors
  <2>3. [q EXCEPT !.pc = "replacing", !.left = {First(same)}] \in AskRecords
    BY <2>2 DEF AskRecords
  <2> QED BY <1>4, <2>3 DEF TypeOK
<1> QED BY <1>1, <1>2, <1>3, <1>4 DEF Decide

\* Well-formed states.
WellFormed == TypeOK /\ Asking /\ Notifying

LEMMA InitWellFormed ==
  FirmwareInit => WellFormed
<1> SUFFICES ASSUME FirmwareInit PROVE WellFormed
  OBVIOUS
<1>1. /\ NoAsk("idle") \in AskRecords /\ NoCancel("idle") \in CancelRecords
      /\ NoStart("idle") \in StartRecords /\ NoUpdate("idle") \in UpdateRecords
  BY ReservationsAssumption
     DEF NoAsk, NoCancel, NoStart, NoUpdate, AskRecords, CancelRecords, StartRecords,
         UpdateRecords, AllConnectors, Statuses
<1>2. TypeOK
  BY <1>1, ReservationTypes, ReservationsAssumption
     DEF FirmwareInit, Init, TypeOK, Statuses, FirmwareStatuses
<1>3. Asking /\ Notifying
  BY DEF FirmwareInit, Init, Asking, Notifying, NoAsk, NoStart
<1> QED BY <1>2, <1>3 DEF WellFormed

\* An idle or finished request asks for nothing, and a change of one request
\* leaves what the others ask for.
LEMMA AskingStays ==
  ASSUME WellFormed, NEW k \in Asks, NEW q \in AskRecords,
         ask' = [ask EXCEPT ![k] = q], mishaps \subseteq mishaps',
         q.pc \in {"idle", "done"} \/ (q.id \in Ids /\ q.tag \in Tags),
         q.pc = "replacing" => q.left # {} /\ "unpurged" \in mishaps'
  PROVE  Asking'
BY DEF Asking, WellFormed, TypeOK

\* What Decide leaves a request with.
LEMMA Decided ==
  ASSUME NEW k \in Asks, NEW q \in AskRecords, q.id \in Ids, q.tag \in Tags,
         NEW st, NEW res \in [AllConnectors -> Reservation], Decide(k, q, st, res)
  PROVE  \E p \in AskRecords :
           /\ ask' = [ask EXCEPT ![k] = p]
           /\ p.pc = "done" \/ (p.id \in Ids /\ p.tag \in Tags)
           /\ p.pc = "replacing" => p.left # {} /\ Unpurged(q, st, res)
<1>1. CASE ask' = [ask EXCEPT ![k] = NoAsk("done")]
  <2> DEFINE new == NoAsk("done")
  <2>1. new \in AskRecords /\ new.pc = "done"
    BY OverTypes DEF NoAsk
  <2>2. ask' = [ask EXCEPT ![k] = new]
    BY <1>1
  <2> HIDE DEF new
  <2>3. new.pc # "replacing"
    BY <2>1
  <2> QED BY <2>1, <2>2, <2>3
<1>2. CASE ask' = [ask EXCEPT ![k] = [q EXCEPT !.pc = "reserving", !.left = {}]]
  <2> DEFINE new == [q EXCEPT !.pc = "reserving", !.left = {}]
  <2>1. new \in AskRecords /\ new.id \in Ids /\ new.tag \in Tags /\ new.pc = "reserving"
    BY DEF AskRecords
  <2> QED BY <1>2, <2>1
<1>3. CASE /\ ~Refused(q, st, res) /\ WithId(res, q.id) # {} /\ First(WithId(res, q.id)) # 0
           /\ ask' = [ask EXCEPT ![k] =
                [q EXCEPT !.pc = "replacing", !.left = {First(WithId(res, q.id))}]]
  <2> DEFINE at == First(WithId(res, q.id))
             new == [q EXCEPT !.pc = "replacing", !.left = {at}]
  <2>1. WithId(res, q.id) \in SUBSET AllConnectors
    BY DEF WithId
  <2>2. at \in WithId(res, q.id)
    BY <1>3, <2>1, FirstOfConnectors
  <2>3. at \in Connectors /\ at \in AllConnectors /\ res[at].id = q.id
    BY <1>3, <2>2, ReservationsAssumption DEF WithId, AllConnectors, Connectors
  <2>4. ~res[at].live
    BY <1>3 DEF Refused, Reservable, Current
  <2>5. q.id # NoId
    BY ReservationsAssumption DEF Ids, NoId
  <2>6. Unpurged(q, st, res)
    BY <1>3, <2>3, <2>4, <2>5 DEF Unpurged
  <2>7. new \in AskRecords /\ new.id \in Ids /\ new.tag \in Tags /\ new.left # {}
    BY <2>3 DEF AskRecords
  <2> QED BY <1>3, <2>6, <2>7
<1> QED BY <1>1, <1>2, <1>3 DEF Decide, Place

\* An action that leaves alone what requests and starts are about to do.
LEMMA OthersStay ==
  ASSUME WellFormed, mishaps \subseteq mishaps'
  PROVE  /\ UNCHANGED ask => Asking'
         /\ UNCHANGED start => Notifying'
BY DEF WellFormed, Asking, Notifying

\* A finished request asks for nothing.
LEMMA AskingDone ==
  ASSUME WellFormed, NEW k \in Asks, ask' = [ask EXCEPT ![k] = NoAsk("done")],
         mishaps \subseteq mishaps'
  PROVE  Asking'
<1> DEFINE p == NoAsk("done")
<1>1. p \in AskRecords /\ p.pc = "done"
  BY OverTypes DEF NoAsk
<1>2. ask' = [ask EXCEPT ![k] = p]
  OBVIOUS
<1> HIDE DEF p
<1>3. p.pc \in {"idle", "done"} /\ p.pc # "replacing"
  BY <1>1
<1> QED BY <1>1, <1>2, <1>3 DEF Asking, WellFormed, TypeOK

\* The history after a request of the station has failed.
LEMMA FailTypes ==
  ASSUME WellFormed, Fail
  PROVE  /\ mishaps \subseteq mishaps' /\ mishaps' \subseteq Mishaps
         /\ "failed" \in mishaps' /\ events' \in 0..MaxEvents
<1>1. mishaps' = mishaps \cup {"failed"}
  BY DEF Fail, Note, When
<1>2. events' \in 0..MaxEvents
  BY ReservationsAssumption DEF Fail, Happens, WellFormed, TypeOK
<1> QED BY <1>1, <1>2 DEF WellFormed, TypeOK, Mishaps

LEMMA ReserveNowWellFormed ==
  ASSUME WellFormed, NEW k \in Asks, NEW r \in Requests, ReserveNow(k, r), UNCHANGED firmwareVars
  PROVE  WellFormed'
<1> DEFINE expired == ExpiredOn(Connectors)
           st == [d \in AllConnectors |-> IF d \in ExpiredOn({0}) THEN "Available" ELSE status[d]]
           res == [d \in AllConnectors |-> IF d \in ExpiredOn({0}) THEN None ELSE reservation[d]]
           q == [pc |-> "purging", connector |-> r.connector, id |-> r.id, tag |-> r.tag,
                 left |-> expired]
<1>1. q \in AskRecords /\ q.id \in Ids /\ q.tag \in Tags /\ q.pc = "purging"
  BY ReservationsAssumption DEF AskRecords, AllConnectors, Ids, ExpiredOn
<1>2. st \in [AllConnectors -> Statuses] /\ res \in [AllConnectors -> Reservation]
  BY ReservationTypes DEF WellFormed, TypeOK, Statuses
<1>3. /\ status' \in [AllConnectors -> Statuses]
      /\ reservation' \in [AllConnectors -> Reservation]
      /\ ask' \in [Asks -> AskRecords]
      /\ granted' \subseteq [connector : AllConnectors, id : Ids, tag : Tags]
  <2>1. CASE Decide(k, q, st, res)
    <3> HIDE DEF st, res, q
    <3> QED BY <2>1, <1>1, <1>2, DecideTypes DEF WellFormed
  <2>2. CASE ask' = [ask EXCEPT ![k] = q] /\ status' = st /\ reservation' = res /\ UNCHANGED granted
    <3> HIDE DEF st, res, q
    <3> QED BY <2>2, <1>1, <1>2 DEF WellFormed, TypeOK
  <2> QED BY <2>1, <2>2 DEF ReserveNow
<1>4. requests' \in 0..MaxRequests
  BY ReservationsAssumption DEF ReserveNow, Request, WellFormed, TypeOK
<1>5. TypeOK'
  BY <1>3, <1>4 DEF ReserveNow, WellFormed, TypeOK, firmwareVars
<1>6. Asking'
  <2>1. CASE expired = {} /\ Decide(k, q, st, res)
    <3>1. ~Unpurged(q, st, res)
      <4>1. \A d \in AllConnectors : d \in Connectors \/ d = 0
        BY ReservationsAssumption DEF AllConnectors, Connectors
      <4>2. \A d \in AllConnectors : res[d].id # NoId => res[d].live
        BY <2>1, <4>1 DEF ExpiredOn, None
      <4> QED BY <4>2 DEF Unpurged
    <3> HIDE DEF st, res, q
    <3>2. PICK p \in AskRecords :
            /\ ask' = [ask EXCEPT ![k] = p]
            /\ p.pc = "done" \/ (p.id \in Ids /\ p.tag \in Tags)
            /\ p.pc = "replacing" => p.left # {} /\ Unpurged(q, st, res)
      BY <2>1, <1>1, <1>2, Decided
    <3> QED BY <3>1, <3>2, AskingStays DEF ReserveNow
  <2>2. CASE ask' = [ask EXCEPT ![k] = q]
    <3> HIDE DEF q
    <3> QED BY <2>2, <1>1, AskingStays DEF ReserveNow
  <2> QED BY <2>1, <2>2 DEF ReserveNow
<1> QED BY <1>5, <1>6, OthersStay DEF WellFormed, ReserveNow

LEMMA PurgedWellFormed ==
  ASSUME WellFormed, NEW k \in Asks, NEW d \in Connectors, NEW answered \in BOOLEAN,
         Purged(k, d, answered), UNCHANGED firmwareVars
  PROVE  WellFormed'
<1> DEFINE q == [ask[k] EXCEPT !.left = @ \ {d}]
           st == IF answered THEN [status EXCEPT ![d] = "Available"] ELSE status
           res == IF answered THEN [reservation EXCEPT ![d] = None] ELSE reservation
<1>1. q \in AskRecords /\ q.id \in Ids /\ q.tag \in Tags /\ q.pc = "purging"
  BY DEF Purged, WellFormed, TypeOK, Asking, AskRecords
<1>2. st \in [AllConnectors -> Statuses] /\ res \in [AllConnectors -> Reservation]
  BY ReservationTypes DEF WellFormed, TypeOK, Statuses
<1>3. /\ status' \in [AllConnectors -> Statuses]
      /\ reservation' \in [AllConnectors -> Reservation]
      /\ ask' \in [Asks -> AskRecords]
      /\ granted' \subseteq [connector : AllConnectors, id : Ids, tag : Tags]
  <2>1. CASE Decide(k, q, st, res)
    <3> HIDE DEF st, res, q
    <3> QED BY <2>1, <1>1, <1>2, DecideTypes DEF WellFormed
  <2>2. CASE ask' = [ask EXCEPT ![k] = q] /\ status' = st /\ reservation' = res /\ UNCHANGED granted
    <3> HIDE DEF st, res, q
    <3> QED BY <2>2, <1>1, <1>2 DEF WellFormed, TypeOK
  <2> QED BY <2>1, <2>2 DEF Purged
<1>4. mishaps \subseteq mishaps' /\ mishaps' \subseteq Mishaps
  BY DEF Purged, When, WellFormed, TypeOK, Mishaps
<1>5. events' \in 0..MaxEvents
  BY ReservationsAssumption DEF Purged, Happens, WellFormed, TypeOK
<1>6. TypeOK'
  BY <1>3, <1>4, <1>5 DEF Purged, WellFormed, TypeOK, firmwareVars
<1>7. Asking'
  <2>1. CASE q.left = {} /\ Decide(k, q, st, res)
    <3>1. Unpurged(q, st, res) => "unpurged" \in mishaps'
      BY <2>1 DEF Purged, When
    <3> HIDE DEF st, res, q
    <3>2. PICK p \in AskRecords :
            /\ ask' = [ask EXCEPT ![k] = p]
            /\ p.pc = "done" \/ (p.id \in Ids /\ p.tag \in Tags)
            /\ p.pc = "replacing" => p.left # {} /\ Unpurged(q, st, res)
      BY <2>1, <1>1, <1>2, Decided
    <3> QED BY <3>1, <3>2, <1>4, AskingStays
  <2>2. CASE ask' = [ask EXCEPT ![k] = q]
    <3> HIDE DEF q
    <3> QED BY <2>2, <1>1, <1>4, AskingStays
  <2> QED BY <2>1, <2>2 DEF Purged
<1> QED BY <1>4, <1>6, <1>7, OthersStay DEF WellFormed, Purged

\* The rest of ReserveNow.
LEMMA ReserveRestWellFormed ==
  ASSUME WellFormed, UNCHANGED firmwareVars, NEW k \in Asks,
         Replaced(k) \/ Reserved(k) \/ ReserveFailed(k)
  PROVE  WellFormed'
<1>1. CASE Replaced(k)
  <2> DEFINE at == First(ask[k].left)
             st == [status EXCEPT ![at] = "Available"]
             res == [reservation EXCEPT ![at] = None]
  <2>1. ask[k] \in AskRecords /\ ask[k].id \in Ids /\ ask[k].tag \in Tags
    BY <1>1 DEF Replaced, WellFormed, TypeOK, Asking
  <2>2. st \in [AllConnectors -> Statuses] /\ res \in [AllConnectors -> Reservation]
    BY ReservationTypes DEF WellFormed, TypeOK, Statuses
  <2>3. mishaps \subseteq mishaps' /\ mishaps' \subseteq Mishaps
    BY <1>1 DEF Replaced, Note, When, WellFormed, TypeOK, Mishaps
  <2>4. Place(k, ask[k], st, res)
    BY <1>1 DEF Replaced
  <2> HIDE DEF st, res
  <2>5. TypeOK'
    BY <1>1, <2>1, <2>2, <2>3, <2>4, PlaceTypes DEF Replaced, WellFormed, TypeOK, firmwareVars
  <2>6. Asking'
    <3>1. CASE ask' = [ask EXCEPT ![k] = NoAsk("done")]
      BY <3>1, <2>3, AskingDone
    <3>2. CASE ask' = [ask EXCEPT ![k] = [ask[k] EXCEPT !.pc = "reserving", !.left = {}]]
      <4> DEFINE p == [ask[k] EXCEPT !.pc = "reserving", !.left = {}]
      <4>1. p \in AskRecords /\ p.pc = "reserving" /\ p.id \in Ids /\ p.tag \in Tags
        BY <2>1 DEF AskRecords
      <4> HIDE DEF p
      <4>2. p.pc # "replacing"
        BY <4>1
      <4> QED BY <3>2, <4>1, <4>2, <2>3, AskingStays DEF p
    <3> QED BY <2>4, <3>1, <3>2 DEF Place
  <2> QED BY <1>1, <2>3, <2>5, <2>6, OthersStay DEF Replaced, WellFormed
<1>2. CASE Reserved(k)
  <2>1. TypeOK'
    BY <1>2, OverTypes DEF Reserved, WellFormed, TypeOK, firmwareVars, Statuses
  <2>2. Asking'
    BY <1>2, AskingDone DEF Reserved
  <2> QED BY <1>2, <2>1, <2>2, OthersStay DEF Reserved, WellFormed
<1>3. CASE ReserveFailed(k)
  <2>1. mishaps \subseteq mishaps' /\ mishaps' \subseteq Mishaps /\ events' \in 0..MaxEvents
    BY <1>3, FailTypes DEF ReserveFailed
  <2>2. TypeOK'
    BY <1>3, <2>1, OverTypes DEF ReserveFailed, WellFormed, TypeOK, firmwareVars, Statuses
  <2>3. Asking'
    BY <1>3, <2>1, AskingDone DEF ReserveFailed
  <2> QED BY <1>3, <2>1, <2>2, <2>3, OthersStay DEF ReserveFailed, WellFormed
<1> QED BY <1>1, <1>2, <1>3

LEMMA ExpireWellFormed ==
  ASSUME WellFormed, UNCHANGED firmwareVars, NEW c \in AllConnectors, Expire(c)
  PROVE  WellFormed'
<1>1. events' \in 0..MaxEvents
  BY ReservationsAssumption DEF Expire, Happens, WellFormed, TypeOK
<1>2. [reservation[c] EXCEPT !.live = FALSE] \in Reservation
  <2>1. reservation[c] \in Reservation /\ reservation[c] # None
    BY DEF Expire, WellFormed, TypeOK, None
  <2>2. reservation[c] \in [id : Ids, tag : Tags, live : BOOLEAN]
    BY <2>1 DEF Reservation
  <2>3. [reservation[c] EXCEPT !.live = FALSE] \in [id : Ids, tag : Tags, live : BOOLEAN]
    BY <2>2
  <2> QED BY <2>3 DEF Reservation
<1>3. TypeOK'
  BY <1>1, <1>2 DEF Expire, WellFormed, TypeOK, firmwareVars
<1> QED BY <1>3, OthersStay DEF Expire, WellFormed

\* A removal, by CancelReservation.
LEMMA RemoveTypes ==
  ASSUME WellFormed, NEW st \in [AllConnectors -> Statuses], NEW c \in AllConnectors, NEW i,
         Remove(st, c, i)
  PROVE  /\ status' \in [AllConnectors -> Statuses]
         /\ reservation' \in [AllConnectors -> Reservation]
         /\ granted' \subseteq [connector : AllConnectors, id : Ids, tag : Tags]
         /\ mishaps \subseteq mishaps' /\ mishaps' \subseteq Mishaps
BY ReservationTypes DEF Remove, Note, When, WellFormed, TypeOK, Mishaps

LEMMA CancelWellFormed ==
  ASSUME WellFormed, UNCHANGED firmwareVars, NEW k \in Cancels, NEW id \in Ids,
         CancelReservation(k, id)
  PROVE  WellFormed'
<1> DEFINE same == WithId(reservation, id)
           at == First(same)
           st == [status EXCEPT ![0] = "Available"]
<1>1. same \in SUBSET AllConnectors /\ same # {}
  BY DEF CancelReservation, WithId
<1>2. at \in AllConnectors
  BY <1>1, FirstOfConnectors
<1>3. requests' \in 0..MaxRequests
  BY ReservationsAssumption DEF CancelReservation, Request, WellFormed, TypeOK
<1>4. CASE at = 0
  <2>1. Remove(st, 0, id) /\ cancel' = [cancel EXCEPT ![k] = NoCancel("done")]
    BY <1>4 DEF CancelReservation
  <2>2. cancel' \in [Cancels -> CancelRecords]
    BY <2>1, OverTypes DEF WellFormed, TypeOK
  <2>3. st \in [AllConnectors -> Statuses] /\ 0 \in AllConnectors
    BY <1>2, <1>4 DEF WellFormed, TypeOK, Statuses
  <2> HIDE DEF st
  <2>4. /\ status' \in [AllConnectors -> Statuses]
        /\ reservation' \in [AllConnectors -> Reservation]
        /\ granted' \subseteq [connector : AllConnectors, id : Ids, tag : Tags]
        /\ mishaps \subseteq mishaps' /\ mishaps' \subseteq Mishaps
    BY <2>1, <2>3, RemoveTypes
  <2>5. TypeOK'
    BY <1>3, <2>2, <2>4 DEF CancelReservation, WellFormed, TypeOK, firmwareVars
  <2> QED BY <2>4, <2>5, OthersStay DEF CancelReservation, WellFormed
<1>5. CASE at # 0
  <2>1. /\ cancel' = [cancel EXCEPT ![k] = [pc |-> "cancelling", connector |-> at, id |-> id]]
        /\ UNCHANGED <<status, reservation, granted, mishaps>>
    BY <1>5 DEF CancelReservation
  <2>2. [pc |-> "cancelling", connector |-> at, id |-> id] \in CancelRecords
    BY <1>2 DEF CancelRecords
  <2>3. TypeOK'
    BY <1>3, <2>1, <2>2 DEF CancelReservation, WellFormed, TypeOK, firmwareVars
  <2> QED BY <2>1, <2>3, OthersStay DEF CancelReservation, WellFormed
<1> QED BY <1>4, <1>5

LEMMA CancelRestWellFormed ==
  ASSUME WellFormed, UNCHANGED firmwareVars, NEW k \in Cancels, Cancelled(k) \/ CancelFailed(k)
  PROVE  WellFormed'
<1>1. \A c \in AllConnectors :
        [status EXCEPT ![c] = "Available"] \in [AllConnectors -> Statuses]
  BY DEF WellFormed, TypeOK, Statuses
<1>2. CASE Cancelled(k)
  <2>1. cancel[k].connector \in AllConnectors
    BY DEF WellFormed, TypeOK, CancelRecords
  <2>2. /\ status' \in [AllConnectors -> Statuses]
        /\ reservation' \in [AllConnectors -> Reservation]
        /\ granted' \subseteq [connector : AllConnectors, id : Ids, tag : Tags]
        /\ mishaps \subseteq mishaps' /\ mishaps' \subseteq Mishaps
    BY RemoveTypes, <1>1, <1>2, <2>1 DEF Cancelled
  <2>3. TypeOK'
    BY <1>2, <2>2, OverTypes DEF Cancelled, WellFormed, TypeOK, firmwareVars
  <2> QED BY <1>2, <2>2, <2>3, OthersStay DEF Cancelled, WellFormed
<1>3. CASE CancelFailed(k)
  <2>1. mishaps \subseteq mishaps' /\ mishaps' \subseteq Mishaps /\ events' \in 0..MaxEvents
    BY <1>3, FailTypes DEF CancelFailed
  <2>2. TypeOK'
    BY <1>3, <2>1, OverTypes DEF CancelFailed, WellFormed, TypeOK, firmwareVars, connectorVars
  <2> QED BY <1>3, <2>1, <2>2, OthersStay DEF CancelFailed, WellFormed
<1> QED BY <1>2, <1>3

\* The transactions: none of them asks for a reservation.
LEMMA StartWellFormed ==
  ASSUME WellFormed, UNCHANGED firmwareVars, NEW s \in Starts, NEW r \in StartRequests, Start(s, r)
  PROVE  WellFormed'
<1> DEFINE request(id) == [pc |-> "preparing", connector |-> r.connector, tag |-> r.tag, id |-> id,
                           target |-> "none"]
           at == ReferredTo(r.connector)
<1>1. r.connector \in AllConnectors /\ r.tag \in Tags
  BY ReservationsAssumption DEF AllConnectors
<1>2. \A id \in Ids \cup {NoId} : request(id) \in StartRecords /\ request(id).pc = "preparing"
  BY <1>1 DEF StartRecords
<1>3. at \in AllConnectors
  BY <1>1, ReservationsAssumption DEF ReferredTo, AllConnectors
<1>4. reservation[at].id \in Ids \cup {NoId}
  BY <1>3 DEF WellFormed, TypeOK, Reservation, None
<1>5. NoStart("done") \in StartRecords /\ NoStart("done").pc = "done"
  BY OverTypes DEF NoStart
<1> HIDE DEF request
<1>6. \E p \in StartRecords : start' = [start EXCEPT ![s] = p] /\ p.pc # "notifying"
  <2>1. \E p \in {request(NoId), request(reservation[at].id), NoStart("done")} :
          start' = [start EXCEPT ![s] = p]
    BY DEF Start, request
  <2>2. \A p \in {request(NoId), request(reservation[at].id), NoStart("done")} :
          p \in StartRecords /\ p.pc \in {"preparing", "done"}
    BY <1>2, <1>4, <1>5
  <2> QED BY <2>1, <2>2
<1>7. mishaps \subseteq mishaps' /\ mishaps' \subseteq Mishaps
  BY DEF Start, Note, When, WellFormed, TypeOK, Mishaps
<1>8. requests' \in 0..MaxRequests
  BY ReservationsAssumption DEF Start, Request, WellFormed, TypeOK
<1>9. TypeOK'
  BY <1>6, <1>7, <1>8 DEF Start, WellFormed, TypeOK, firmwareVars, connectorVars
<1>10. Notifying'
  BY <1>6 DEF Notifying, WellFormed, TypeOK
<1> QED BY <1>7, <1>9, <1>10, OthersStay DEF Start, WellFormed

\* The end of a start.
LEMMA NotifyingDone ==
  ASSUME WellFormed, NEW s \in Starts, start' = [start EXCEPT ![s] = NoStart("done")]
  PROVE  Notifying' /\ start' \in [Starts -> StartRecords]
<1>1. NoStart("done") \in StartRecords /\ NoStart("done").pc = "done"
  BY OverTypes DEF NoStart
<1>2. NoStart("done").pc # "notifying"
  BY <1>1
<1> QED BY <1>1, <1>2 DEF WellFormed, TypeOK, Notifying

\* A start that is about to notify a status.
LEMMA NotifyingNext ==
  ASSUME WellFormed, NEW s \in Starts, NEW target \in Statuses,
         start' = [start EXCEPT ![s] = [@ EXCEPT !.pc = "notifying", !.target = target]]
  PROVE  Notifying' /\ start' \in [Starts -> StartRecords]
<1> DEFINE p == [start[s] EXCEPT !.pc = "notifying", !.target = target]
<1>1. p \in StartRecords /\ p.target \in Statuses
  BY DEF WellFormed, TypeOK, StartRecords
<1>2. start' = [start EXCEPT ![s] = p]
  OBVIOUS
<1> HIDE DEF p
<1> QED BY <1>1, <1>2 DEF WellFormed, TypeOK, Notifying

LEMMA StartRestWellFormed ==
  ASSUME WellFormed, UNCHANGED firmwareVars, NEW s \in Starts,
         \/ Prepared(s) \/ StartAccepted(s) \/ StartIgnored(s) \/ StartRejected(s)
         \/ StartNotified(s) \/ StartFailed(s)
  PROVE  WellFormed'
<1>1. CASE Prepared(s)
  <2>1. [start[s] EXCEPT !.pc = "requested"] \in StartRecords
    BY DEF WellFormed, TypeOK, StartRecords
  <2>2. TypeOK'
    BY <1>1, <2>1 DEF Prepared, WellFormed, TypeOK, Statuses, firmwareVars
  <2>3. Notifying'
    BY <1>1 DEF Prepared, Notifying, WellFormed, TypeOK
  <2> QED BY <1>1, <2>2, <2>3, OthersStay DEF Prepared, WellFormed
<1>2. CASE StartAccepted(s)
  <2>1. Notifying' /\ start' \in [Starts -> StartRecords]
    BY <1>2, NotifyingNext DEF StartAccepted, Statuses
  <2>2. /\ reservation' \in [AllConnectors -> Reservation]
        /\ granted' \subseteq [connector : AllConnectors, id : Ids, tag : Tags]
    BY <1>2, ReservationTypes DEF StartAccepted, Use, WellFormed, TypeOK
  <2>3. TypeOK'
    BY <1>2, <2>1, <2>2 DEF StartAccepted, WellFormed, TypeOK, firmwareVars
  <2> QED BY <1>2, <2>1, <2>3, OthersStay DEF StartAccepted, WellFormed
<1>3. CASE StartIgnored(s)
  <2>1. Notifying' /\ start' \in [Starts -> StartRecords]
    BY <1>3, NotifyingDone DEF StartIgnored
  <2>2. TypeOK'
    BY <1>3, <2>1 DEF StartIgnored, WellFormed, TypeOK, firmwareVars, connectorVars
  <2> QED BY <1>3, <2>1, <2>2, OthersStay DEF StartIgnored, WellFormed
<1>4. CASE StartRejected(s)
  <2> DEFINE target == RestoredStatus(start[s].connector)
  <2>1. target \in Statuses
    BY DEF RestoredStatus, Statuses
  <2> HIDE DEF target
  <2>2. Notifying' /\ start' \in [Starts -> StartRecords]
    <3>1. CASE target = status[start[s].connector]
      BY <1>4, <3>1, NotifyingDone DEF StartRejected, target
    <3>2. CASE target # status[start[s].connector]
      <4>1. start' = [start EXCEPT ![s] = [@ EXCEPT !.pc = "notifying", !.target = target]]
        BY <1>4, <3>2 DEF StartRejected, target
      <4> QED BY <4>1, <2>1, NotifyingNext
    <3> QED BY <3>1, <3>2
  <2>3. TypeOK'
    BY <1>4, <2>2 DEF StartRejected, WellFormed, TypeOK, firmwareVars, connectorVars
  <2> QED BY <1>4, <2>2, <2>3, OthersStay DEF StartRejected, WellFormed
<1>5. CASE StartNotified(s)
  <2>1. Notifying' /\ start' \in [Starts -> StartRecords]
    BY <1>5, NotifyingDone DEF StartNotified
  <2>2. start[s].target \in Statuses
    BY <1>5 DEF StartNotified, WellFormed, Notifying
  <2>3. TypeOK'
    BY <1>5, <2>1, <2>2 DEF StartNotified, WellFormed, TypeOK, firmwareVars
  <2> QED BY <1>5, <2>1, <2>3, OthersStay DEF StartNotified, WellFormed
<1>6. CASE StartFailed(s)
  <2>1. Notifying' /\ start' \in [Starts -> StartRecords]
    BY <1>6, NotifyingDone DEF StartFailed
  <2>2. mishaps \subseteq mishaps' /\ mishaps' \subseteq Mishaps /\ events' \in 0..MaxEvents
    BY <1>6, FailTypes DEF StartFailed
  <2>3. TypeOK'
    BY <1>6, <2>1, <2>2 DEF StartFailed, WellFormed, TypeOK, firmwareVars, connectorVars
  <2> QED BY <1>6, <2>1, <2>2, <2>3, OthersStay DEF StartFailed, WellFormed
<1> QED BY <1>1, <1>2, <1>3, <1>4, <1>5, <1>6

LEMMA StopWellFormed ==
  ASSUME WellFormed, UNCHANGED firmwareVars, NEW c \in Connectors, StopAnswered(c) \/ Stopped(c)
  PROVE  WellFormed'
<1>1. TypeOK'
  BY DEF StopAnswered, Stopped, WellFormed, TypeOK, Statuses, firmwareVars, connectorVars
<1> QED BY <1>1, OthersStay DEF StopAnswered, Stopped, WellFormed

\* What an update does next: a state and a connector, or a loop over connectors.
UpdateStates ==
  {"idle", "scheduled", "closing", "starting", "failing", "fetching", "waiting", "sealing",
   "pausing", "installing", "breaking", "resetting", "booted", "done"}

LEMMA UpdateAtTypes ==
  ASSUME WellFormed, NEW u \in Updates, NEW pc \in UpdateStates, NEW at \in AllConnectors,
         UpdateAt(u, pc, at)
  PROVE  update' \in [Updates -> UpdateRecords]
BY DEF UpdateAt, WellFormed, TypeOK, UpdateRecords, UpdateStates

LEMMA TakeOutTypes ==
  ASSUME WellFormed, NEW u \in Updates, NEW pc \in UpdateStates, NEW after \in UpdateStates,
         NEW i \in Nat, NEW out, TakeOut(u, pc, i, out, after)
  PROVE  update' \in [Updates -> UpdateRecords]
<1> DEFINE left == {c \in i..MaxConnectors : c \in out}
<1>1. left \in SUBSET AllConnectors /\ 0 \in AllConnectors
  BY ReservationsAssumption DEF AllConnectors
<1>2. CASE left = {}
  BY <1>1, <1>2, UpdateAtTypes DEF TakeOut
<1>3. CASE left # {}
  <2>1. First(left) \in AllConnectors
    BY <1>1, <1>3, FirstOfConnectors
  <2>2. UpdateAt(u, pc, First(left))
    BY <1>3 DEF TakeOut
  <2> QED BY <2>1, <2>2, UpdateAtTypes
<1> QED BY <1>2, <1>3

LEMMA DrainTypes ==
  ASSUME WellFormed, NEW u \in Updates, Drain(u)
  PROVE  update' \in [Updates -> UpdateRecords]
<1>1. CASE update' = [update EXCEPT ![u] = [pc |-> "waiting", at |-> 0, waited |-> TRUE]]
  <2>1. [pc |-> "waiting", at |-> 0, waited |-> TRUE] \in UpdateRecords
    BY ReservationsAssumption DEF UpdateRecords, AllConnectors
  <2> QED BY <1>1, <2>1 DEF WellFormed, TypeOK
<1>2. CASE SealFrom(u, 1)
  BY <1>2, TakeOutTypes DEF SealFrom, UpdateStates
<1> QED BY <1>1, <1>2 DEF Drain

\* A notification of the firmware status.
LEMMA NotifiedWellFormed ==
  ASSUME WellFormed, NEW u \in Updates, NEW from, NEW new \in FirmwareStatuses,
         NEW pc \in UpdateStates, Notified(u, from, new, pc)
  PROVE  WellFormed'
<1>1. update' \in [Updates -> UpdateRecords]
  BY UpdateAtTypes, ReservationsAssumption DEF Notified, AllConnectors
<1>2. TypeOK'
  BY <1>1 DEF Notified, Only, reservationVars, WellFormed, TypeOK
<1> QED BY <1>2, OthersStay DEF Notified, Only, reservationVars, WellFormed

LEMMA UpdateWellFormed ==
  ASSUME WellFormed, NEW u \in Updates, UpdateFirmware(u) \/ UpdateProgress(u) \/ UpdateFailed(u)
  PROVE  WellFormed'
<1> USE DEF UpdateStates
<1>1. update[u].at \in AllConnectors /\ update[u].at + 1 \in Nat /\ 0 \in AllConnectors
  BY ReservationsAssumption DEF WellFormed, TypeOK, UpdateRecords, AllConnectors
<1>2. CASE UpdateFirmware(u)
  <2>1. update' \in [Updates -> UpdateRecords]
    BY <1>1, <1>2, UpdateAtTypes DEF UpdateFirmware
  <2>2. requests' \in 0..MaxRequests
    BY <1>2, ReservationsAssumption DEF UpdateFirmware, Request, WellFormed, TypeOK
  <2>3. TypeOK'
    BY <1>2, <2>1, <2>2 DEF UpdateFirmware, reservationVars, WellFormed, TypeOK
  <2> QED BY <1>2, <2>3, OthersStay DEF UpdateFirmware, reservationVars, WellFormed
<1>3. CASE Retrieve(u) \/ Waited(u) \/ Paused(u)
  <2>1. update' \in [Updates -> UpdateRecords]
    BY <1>1, <1>3, TakeOutTypes, DrainTypes, UpdateAtTypes DEF Retrieve, CloseFrom, Waited, Paused
  <2>2. TypeOK'
    BY <1>3, <2>1 DEF Retrieve, Waited, Paused, Only, reservationVars, WellFormed, TypeOK
  <2> QED BY <1>3, <2>2, OthersStay DEF Retrieve, Waited, Paused, Only, reservationVars, WellFormed
<1>4. CASE Closed(u) \/ Sealed(u)
  <2>1. update' \in [Updates -> UpdateRecords]
    <3>1. CASE Closed(u)
      BY <1>1, <3>1, TakeOutTypes DEF Closed, CloseFrom
    <3>2. CASE Sealed(u)
      <4>1. (IF update[u].waited THEN "installing" ELSE "pausing") \in UpdateStates
        OBVIOUS
      <4> QED BY <1>1, <3>2, <4>1, TakeOutTypes DEF Sealed, SealFrom
    <3> QED BY <1>4, <3>1, <3>2
  <2>2. TypeOK'
    BY <1>1, <1>4, <2>1 DEF Closed, Sealed, Only, reservationVars, WellFormed, TypeOK, Statuses
  <2> QED BY <1>4, <2>2, OthersStay DEF Closed, Sealed, Only, reservationVars, WellFormed
<1>5. CASE \/ Downloading(u) \/ DownloadFailed(u) \/ Installing(u) \/ InstallationFailed(u)
           \/ Installed(u)
  <2>1. \A new \in FirmwareStatuses, from, pc \in UpdateStates :
          Notified(u, from, new, pc) => WellFormed'
    BY NotifiedWellFormed
  <2>2. {"Downloading", "DownloadFailed", "Installing", "InstallationFailed", "Installed"}
          \subseteq FirmwareStatuses
    BY DEF FirmwareStatuses
  <2>3. CASE Downloading(u)
    BY <2>1, <2>2, <2>3 DEF Downloading
  <2>4. CASE DownloadFailed(u)
    BY <2>1, <2>2, <2>4 DEF DownloadFailed
  <2>5. CASE Installing(u)
    <3>1. (IF FirmwareReset THEN "resetting" ELSE "done") \in UpdateStates
      OBVIOUS
    <3> QED BY <2>1, <2>2, <2>5, <3>1 DEF Installing
  <2>6. CASE InstallationFailed(u)
    BY <2>1, <2>2, <2>6 DEF InstallationFailed
  <2>7. CASE Installed(u)
    BY <2>1, <2>2, <2>7 DEF Installed
  <2> QED BY <1>5, <2>3, <2>4, <2>5, <2>6, <2>7
<1>6. CASE Downloaded(u)
  <2>1. update' \in [Updates -> UpdateRecords]
    BY <1>6, DrainTypes DEF Downloaded
  <2>2. TypeOK'
    BY <1>6, <2>1 DEF Downloaded, Only, reservationVars, WellFormed, TypeOK, FirmwareStatuses
  <2> QED BY <1>6, <2>2, OthersStay DEF Downloaded, Only, reservationVars, WellFormed
<1>7. CASE Reset(u)
  <2>1. update' \in [Updates -> UpdateRecords]
    BY <1>1, <1>7, UpdateAtTypes DEF Reset
  <2>2. TypeOK'
    BY <1>1, <1>7, <2>1 DEF Reset, reservationVars, WellFormed, TypeOK, Statuses
  <2> QED BY <1>7, <2>2, OthersStay DEF Reset, reservationVars, WellFormed
<1>8. CASE UpdateFailed(u)
  <2>1. update' \in [Updates -> UpdateRecords]
    BY <1>8, OverTypes DEF UpdateFailed, WellFormed, TypeOK
  <2>2. mishaps \subseteq mishaps' /\ mishaps' \subseteq Mishaps /\ events' \in 0..MaxEvents
    BY <1>8, FailTypes DEF UpdateFailed
  <2>3. TypeOK'
    BY <1>8, <2>1, <2>2 DEF UpdateFailed, connectorVars, WellFormed, TypeOK
  <2> QED BY <1>8, <2>2, <2>3, OthersStay DEF UpdateFailed, WellFormed
<1> QED BY <1>2, <1>3, <1>4, <1>5, <1>6, <1>7, <1>8 DEF UpdateProgress

LEMMA NextWellFormed ==
  WellFormed /\ [Next]_stationVars => WellFormed'
<1> SUFFICES ASSUME WellFormed, [Next]_stationVars PROVE WellFormed'
  OBVIOUS
<1>1. CASE UNCHANGED stationVars
  BY <1>1 DEF stationVars, vars, connectorVars, firmwareVars, WellFormed, TypeOK, Asking, Notifying
<1>2. CASE ReservationStep /\ UNCHANGED firmwareVars
  <2>1. ASSUME NEW k \in Asks, Replaced(k) \/ Reserved(k) \/ ReserveFailed(k) PROVE WellFormed'
    BY <1>2, <2>1, ReserveRestWellFormed
  <2>2. ASSUME NEW c \in AllConnectors, Expire(c) PROVE WellFormed'
    BY <1>2, <2>2, ExpireWellFormed
  <2>3. ASSUME NEW k \in Cancels, Cancelled(k) \/ CancelFailed(k) PROVE WellFormed'
    BY <1>2, <2>3, CancelRestWellFormed
  <2>4. ASSUME NEW k \in Cancels, NEW id \in Ids, CancelReservation(k, id) PROVE WellFormed'
    BY <1>2, <2>4, CancelWellFormed
  <2> QED BY <1>2, <2>1, <2>2, <2>3, <2>4, ReserveNowWellFormed, PurgedWellFormed DEF ReservationStep
<1>3. CASE TransactionStep /\ UNCHANGED firmwareVars
  BY <1>3, StartWellFormed, StartRestWellFormed, StopWellFormed DEF TransactionStep
<1>4. CASE FirmwareStep
  BY <1>4, UpdateWellFormed DEF FirmwareStep
<1> QED BY <1>1, <1>2, <1>3, <1>4 DEF Next

\* The variables have their types in every reachable state (TypeOK): whatever is
\* reserved, notified or updated, no status, reservation or history of another
\* kind comes up, and a status restored after a start is always a status.
THEOREM Typing == Spec => []TypeOK
<1>1. FirmwareInit => WellFormed
  BY InitWellFormed
<1>2. WellFormed /\ [Next]_stationVars => WellFormed'
  BY NextWellFormed
<1>3. WellFormed => TypeOK
  BY DEF WellFormed
<1> QED BY <1>1, <1>2, <1>3, PTL DEF Spec

-----------------------------------------------------------------------------
(* Reservations *)

\* What the two invariants say of a table of reservations and a set of grants.
Unique(res) ==
  \A c, d \in AllConnectors :
    res[c].live /\ res[d].live /\ c # d => res[c].id # res[d].id /\ res[c].tag # res[d].tag
Granted(res) == {Grant(c, res[c].id, res[c].tag) : c \in {d \in AllConnectors : res[d].live}}

LEMMA Unfolded ==
  /\ NothingReservedTwice <=> ("unpurged" \notin mishaps => Unique(reservation))
  /\ ReservationsAgree <=>
       (mishaps \cap {"failed", "overtaken"} = {} => granted = Granted(reservation))
BY DEF NothingReservedTwice, Unique, Live, ReservationsAgree, Granted

LEMMA Untouched ==
  ASSUME NothingReservedTwice, ReservationsAgree, UNCHANGED <<reservation, granted>>,
         mishaps \subseteq mishaps'
  PROVE  NothingReservedTwice' /\ ReservationsAgree'
<1>1. NothingReservedTwice'
  BY DEF NothingReservedTwice, Live
<1>2. ReservationsAgree'
  BY DEF ReservationsAgree, Live
<1> QED BY <1>1, <1>2

\* A removal: the rest stays unique, and its grant is over, if it had one.
LEMMA UniqueWithout ==
  ASSUME NEW res \in [AllConnectors -> Reservation], NEW c \in AllConnectors, Unique(res)
  PROVE  Unique([res EXCEPT ![c] = None])
BY DEF Unique, None

LEMMA GrantedOnDead ==
  ASSUME NEW res \in [AllConnectors -> Reservation], NEW c \in AllConnectors, ~res[c].live
  PROVE  Granted([res EXCEPT ![c] = None]) = Granted(res)
BY DEF Granted, None

\* Placing a reservation that is not refused where none has expired.
LEMMA UniqueWith ==
  ASSUME NEW res \in [AllConnectors -> Reservation], Unique(res),
         NEW q \in AskRecords, q.id \in Ids, q.tag \in Tags, NEW st,
         ~Refused(q, st, res), ~Unpurged(q, st, res)
  PROVE  /\ Unique([res EXCEPT ![q.connector] = Reserve(q.id, q.tag)])
         /\ WithId(res, q.id) = {}
<1>1. NoId \notin Ids
  BY ReservationsAssumption DEF Ids, NoId
<1>2. \A d \in AllConnectors : res[d].id # NoId => res[d].live
  BY DEF Unpurged
<1>3. WithId(res, q.id) = {}
  <2> SUFFICES ASSUME WithId(res, q.id) # {} PROVE FALSE
    OBVIOUS
  <2>1. First(WithId(res, q.id)) \in WithId(res, q.id)
    BY FirstOfConnectors DEF WithId
  <2>2. res[First(WithId(res, q.id))].live
    BY <1>1, <1>2, <2>1 DEF WithId
  <2> QED BY <2>2 DEF Refused, Reservable, Current
<1>4. WithTag(res, q.tag) = {}
  <2> SUFFICES ASSUME WithTag(res, q.tag) # {} PROVE FALSE
    OBVIOUS
  <2> DEFINE at == First(WithTag(res, q.tag))
  <2>1. at \in WithTag(res, q.tag)
    BY FirstOfConnectors DEF WithTag
  <2>2. at \in AllConnectors /\ res[at].tag = q.tag
    BY <2>1 DEF WithTag
  <2>3. res[at] # None
    BY <2>2, ReservationsAssumption DEF None
  <2>4. res[at].id \in Ids
    BY <2>2, <2>3 DEF Reservation
  <2>5. res[at].live
    BY <1>1, <1>2, <2>2, <2>4
  <2> QED BY <2>5 DEF Refused, Reservable, Current
<1>5. \A d \in AllConnectors : res[d].id # q.id /\ res[d].tag # q.tag
  BY <1>3, <1>4 DEF WithId, WithTag
<1>6. q.connector \in AllConnectors
  BY DEF AskRecords
<1> QED BY <1>3, <1>5, <1>6 DEF Unique, Reserve

LEMMA PlaceGranted ==
  ASSUME NEW k, NEW st, NEW res \in [AllConnectors -> Reservation], granted = Granted(res),
         NEW q \in AskRecords, Place(k, q, st, res)
  PROVE  granted' = Granted(reservation')
<1>1. PICK c, id, tag : q.connector = c /\ q.id = id /\ q.tag = tag
  OBVIOUS
<1>2. c \in AllConnectors
  BY <1>1 DEF AskRecords
<1>3. reservation' = [res EXCEPT ![c] = Reserve(id, tag)]
  BY <1>1 DEF Place
<1>4. granted' = {g \in granted : g.connector # c} \cup {Grant(c, id, tag)}
  BY <1>1 DEF Place
<1>5. Granted([res EXCEPT ![c] = Reserve(id, tag)]) =
        {g \in Granted(res) : g.connector # c} \cup {Grant(c, id, tag)}
  BY <1>2 DEF Granted, Grant, Reserve
<1> QED BY <1>3, <1>4, <1>5

\* Deciding on a request.
LEMMA DecideUnique ==
  ASSUME NEW k, NEW st, NEW res \in [AllConnectors -> Reservation], Unique(res),
         NEW q \in AskRecords, q.id \in Ids, q.tag \in Tags,
         Decide(k, q, st, res), ~Unpurged(q, st, res)
  PROVE  Unique(reservation')
<1>1. CASE reservation' = res
  BY <1>1
<1>2. CASE ~Refused(q, st, res)
  <2>1. CASE Place(k, q, st, res)
    BY <1>2, <2>1, UniqueWith DEF Place
  <2> QED BY <1>1, <1>2, <2>1, UniqueWith DEF Decide
<1> QED BY <1>1, <1>2 DEF Decide

LEMMA DecideGranted ==
  ASSUME NEW k, NEW st, NEW res \in [AllConnectors -> Reservation], granted = Granted(res),
         NEW q \in AskRecords, q.id \in Ids, q.tag \in Tags, Decide(k, q, st, res)
  PROVE  granted' = Granted(reservation')
<1> DEFINE same == WithId(res, q.id)
<1>1. q.connector \in AllConnectors /\ 0 \in AllConnectors
  BY ReservationsAssumption DEF AskRecords, AllConnectors
<1>2. CASE reservation' = res /\ UNCHANGED granted
  BY <1>2
<1>3. CASE Place(k, q, st, res)
  BY <1>3, PlaceGranted
<1>4. CASE /\ ~Refused(q, st, res) /\ same # {} /\ First(same) = 0
           /\ Place(k, q, [st EXCEPT ![0] = "Available"], [res EXCEPT ![0] = None])
  <2>1. ~res[0].live
    BY <1>4 DEF Refused, Reservable, Current
  <2> DEFINE rest == [res EXCEPT ![0] = None]
  <2>2. rest \in [AllConnectors -> Reservation] /\ granted = Granted(rest)
    BY <1>1, <2>1, ReservationTypes, GrantedOnDead
  <2>3. Place(k, q, [st EXCEPT ![0] = "Available"], rest)
    BY <1>4
  <2> HIDE DEF rest
  <2> QED BY <2>2, <2>3, PlaceGranted
<1> QED BY <1>2, <1>3, <1>4 DEF Decide

\* The steps that add, replace or remove reservations.
LEMMA ReserveNowKeeps ==
  ASSUME WellFormed, NothingReservedTwice, ReservationsAgree,
         NEW k \in Asks, NEW r \in Requests, ReserveNow(k, r)
  PROVE  NothingReservedTwice' /\ ReservationsAgree'
<1> DEFINE expired == ExpiredOn(Connectors)
           st == [d \in AllConnectors |-> IF d \in ExpiredOn({0}) THEN "Available" ELSE status[d]]
           res == [d \in AllConnectors |-> IF d \in ExpiredOn({0}) THEN None ELSE reservation[d]]
           q == [pc |-> "purging", connector |-> r.connector, id |-> r.id, tag |-> r.tag,
                 left |-> expired]
<1>1. q \in AskRecords /\ q.id \in Ids /\ q.tag \in Tags
  BY ReservationsAssumption DEF AskRecords, AllConnectors, Ids, ExpiredOn
<1>2. res \in [AllConnectors -> Reservation]
  BY ReservationTypes DEF WellFormed, TypeOK
<1>3. "unpurged" \notin mishaps => Unique(res)
  <2>1. \A d \in AllConnectors : res[d].live => res[d] = reservation[d]
    BY DEF None
  <2> QED BY <2>1, Unfolded DEF Unique
<1>4. Granted(res) = Granted(reservation)
  <2>1. \A d \in AllConnectors :
          /\ res[d].live <=> reservation[d].live
          /\ res[d].live => res[d] = reservation[d]
    BY <1>2 DEF ExpiredOn, None, Reservation, WellFormed, TypeOK
  <2> HIDE DEF res
  <2>2. \A g : g \in Granted(res) <=> g \in Granted(reservation)
    BY <2>1 DEF Granted
  <2> QED BY <2>2
<1>5. CASE expired = {} /\ Decide(k, q, st, res)
  <2>1. ~Unpurged(q, st, res)
    <3>1. \A d \in AllConnectors : d \in Connectors \/ d = 0
      BY ReservationsAssumption DEF AllConnectors, Connectors
    <3>2. \A d \in AllConnectors : res[d].id # NoId => res[d].live
      BY <1>5, <3>1 DEF ExpiredOn, None
    <3> QED BY <3>2 DEF Unpurged
  <2>2. Decide(k, q, st, res) /\ mishaps' = mishaps
    BY <1>5 DEF ReserveNow
  <2> HIDE DEF st, res, q
  <2>3. "unpurged" \notin mishaps => Unique(reservation')
    BY <1>1, <1>2, <1>3, <2>1, <2>2, DecideUnique
  <2>4. granted = Granted(reservation) => granted' = Granted(reservation')
    BY <1>1, <1>2, <1>4, <2>2, DecideGranted
  <2>5. NothingReservedTwice'
    BY <2>2, <2>3 DEF NothingReservedTwice, Unique, Live
  <2>6. ReservationsAgree'
    BY <2>2, <2>4 DEF ReservationsAgree, Granted, Live
  <2> QED BY <2>5, <2>6
<1>6. CASE reservation' = res /\ UNCHANGED granted
  <2>1. mishaps' = mishaps
    BY DEF ReserveNow
  <2> HIDE DEF res
  <2>2. NothingReservedTwice'
    BY <1>3, <1>6, <2>1 DEF NothingReservedTwice, Unique, Live
  <2>3. granted = Granted(reservation) => granted' = Granted(reservation')
    BY <1>4, <1>6
  <2>4. ReservationsAgree'
    BY <2>1, <2>3 DEF ReservationsAgree, Granted, Live
  <2> QED BY <2>2, <2>4
<1> QED BY <1>5, <1>6 DEF ReserveNow

LEMMA PurgedKeeps ==
  ASSUME WellFormed, NothingReservedTwice, ReservationsAgree, NEW k \in Asks,
         NEW d \in Connectors, NEW answered \in BOOLEAN, Purged(k, d, answered)
  PROVE  NothingReservedTwice' /\ ReservationsAgree'
<1> DEFINE q == [ask[k] EXCEPT !.left = @ \ {d}]
           st == IF answered THEN [status EXCEPT ![d] = "Available"] ELSE status
           res == IF answered THEN [reservation EXCEPT ![d] = None] ELSE reservation
<1>1. q \in AskRecords /\ q.id \in Ids /\ q.tag \in Tags
  BY DEF Purged, WellFormed, TypeOK, Asking, AskRecords
<1>2. d \in AllConnectors /\ reservation \in [AllConnectors -> Reservation]
  BY ReservationsAssumption DEF AllConnectors, Connectors, WellFormed, TypeOK
<1>3. res \in [AllConnectors -> Reservation]
  BY <1>2, ReservationTypes
<1>4. "unpurged" \notin mishaps => Unique(res)
  BY <1>2, UniqueWithout, Unfolded
<1>5. mishaps' \cap {"failed", "overtaken"} = {} => granted = Granted(res)
  <2> SUFFICES ASSUME mishaps' \cap {"failed", "overtaken"} = {} PROVE granted = Granted(res)
    OBVIOUS
  <2>1. answered /\ ~reservation[d].live /\ mishaps \subseteq mishaps'
    BY DEF Purged, When
  <2>2. granted = Granted(reservation)
    BY <2>1, Unfolded
  <2> QED BY <1>2, <2>1, <2>2, GrantedOnDead
<1>6. mishaps \subseteq mishaps'
  BY DEF Purged
<1>7. CASE q.left = {} /\ Decide(k, q, st, res)
  <2>1. Unpurged(q, st, res) => "unpurged" \in mishaps'
    BY <1>7 DEF Purged, When
  <2>2. Decide(k, q, st, res)
    BY <1>7
  <2> HIDE DEF st, res, q
  <2>3. "unpurged" \notin mishaps' => Unique(reservation')
    BY <1>1, <1>3, <1>4, <1>6, <2>1, <2>2, DecideUnique
  <2>4. granted = Granted(res) => granted' = Granted(reservation')
    BY <1>1, <1>3, <2>2, DecideGranted
  <2>5. NothingReservedTwice'
    BY <2>3 DEF NothingReservedTwice, Unique, Live
  <2>6. ReservationsAgree'
    BY <1>5, <2>4 DEF ReservationsAgree, Granted, Live
  <2> QED BY <2>5, <2>6
<1>8. CASE reservation' = res /\ UNCHANGED granted
  <2> HIDE DEF res
  <2>1. NothingReservedTwice'
    BY <1>4, <1>6, <1>8 DEF NothingReservedTwice, Unique, Live
  <2>2. mishaps' \cap {"failed", "overtaken"} = {} => granted' = Granted(reservation')
    BY <1>5, <1>8
  <2>3. ReservationsAgree'
    BY <2>2 DEF ReservationsAgree, Granted, Live
  <2> QED BY <2>1, <2>3
<1> QED BY <1>7, <1>8 DEF Purged

LEMMA ReplacedKeeps ==
  ASSUME WellFormed, NothingReservedTwice, ReservationsAgree, NEW k \in Asks, Replaced(k)
  PROVE  NothingReservedTwice' /\ ReservationsAgree'
<1> DEFINE at == First(ask[k].left)
           st == [status EXCEPT ![at] = "Available"]
           res == [reservation EXCEPT ![at] = None]
<1>1. ask[k] \in AskRecords /\ ask[k].left # {} /\ "unpurged" \in mishaps
  BY DEF Replaced, WellFormed, TypeOK, Asking
<1>2. at \in AllConnectors
  <2>1. ask[k].left \in SUBSET AllConnectors
    BY <1>1 DEF AskRecords, Connectors, AllConnectors
  <2> QED BY <1>1, <2>1, FirstOfConnectors
<1>3. mishaps' = mishaps \cup When("overtaken", reservation[at].live)
  BY DEF Replaced, Note
<1>4. NothingReservedTwice'
  BY <1>1, <1>3 DEF NothingReservedTwice
<1>5. ReservationsAgree'
  <2> SUFFICES ASSUME mishaps' \cap {"failed", "overtaken"} = {}
               PROVE  granted' = Granted(reservation')
    BY DEF ReservationsAgree, Granted, Live
  <2>1. ~reservation[at].live /\ granted = Granted(reservation)
    BY <1>3, Unfolded DEF When
  <2>2. res \in [AllConnectors -> Reservation] /\ granted = Granted(res)
    BY <1>2, <2>1, ReservationTypes, GrantedOnDead DEF WellFormed, TypeOK
  <2>3. Place(k, ask[k], st, res)
    BY DEF Replaced
  <2> HIDE DEF st, res
  <2> QED BY <1>1, <2>2, <2>3, PlaceGranted
<1> QED BY <1>4, <1>5

LEMMA ExpireKeeps ==
  ASSUME WellFormed, NothingReservedTwice, ReservationsAgree, NEW c \in AllConnectors, Expire(c)
  PROVE  NothingReservedTwice' /\ ReservationsAgree'
<1> DEFINE dead == [reservation EXCEPT ![c].live = FALSE]
<1>1. reservation' = dead /\ mishaps' = mishaps
  BY DEF Expire
<1>2. reservation \in [AllConnectors -> Reservation]
  BY DEF WellFormed, TypeOK
<1>3. ~dead[c].live
  <2>1. reservation[c] \in [id : Ids, tag : Tags, live : BOOLEAN]
    BY <1>2 DEF Expire, Reservation, None
  <2> QED BY <1>2, <2>1
<1>4. \A d \in AllConnectors \ {c} : dead[d] = reservation[d]
  BY <1>2
<1> HIDE DEF dead
<1>5. NothingReservedTwice'
  BY <1>1, <1>3, <1>4 DEF NothingReservedTwice, Live
<1>6. ASSUME granted = Granted(reservation) PROVE granted' = Granted(dead)
  <2>1. granted' = granted \ {Grant(c, reservation[c].id, reservation[c].tag)}
    BY DEF Expire
  <2>2. \A g : g \in granted' <=> g \in Granted(dead)
    BY <1>3, <1>4, <1>6, <2>1 DEF Granted, Grant
  <2> QED BY <2>2
<1>7. ReservationsAgree'
  BY <1>1, <1>6 DEF ReservationsAgree, Granted, Live
<1> QED BY <1>5, <1>7

\* A removal of the reservation with some id.
LEMMA RemoveGranted ==
  ASSUME NEW c \in AllConnectors, NEW id, reservation \in [AllConnectors -> Reservation],
         granted = Granted(reservation), reservation[c].live => reservation[c].id = id,
         granted' = {g \in granted : ~(g.connector = c /\ g.id = id)},
         reservation' = [reservation EXCEPT ![c] = None]
  PROVE  granted' = Granted(reservation')
<1>1. \A g \in granted : g.connector = c => g.id = id
  BY DEF Granted, Grant
<1>2. granted' = {g \in granted : g.connector # c}
  BY <1>1
<1>3. Granted([reservation EXCEPT ![c] = None]) = {g \in Granted(reservation) : g.connector # c}
  BY DEF Granted, Grant, None
<1> QED BY <1>2, <1>3

LEMMA RemoveKeeps ==
  ASSUME WellFormed, NothingReservedTwice, ReservationsAgree, NEW c \in AllConnectors, NEW st, NEW id,
         Remove(st, c, id)
  PROVE  NothingReservedTwice' /\ ReservationsAgree'
<1>1. reservation \in [AllConnectors -> Reservation]
  BY DEF WellFormed, TypeOK
<1>2. reservation' = [reservation EXCEPT ![c] = None] /\ mishaps \subseteq mishaps'
  BY DEF Remove, Note
<1>3. NothingReservedTwice'
  BY <1>1, <1>2 DEF NothingReservedTwice, Live, None
<1>4. ReservationsAgree'
  <2> SUFFICES ASSUME mishaps' \cap {"failed", "overtaken"} = {}
               PROVE  granted' = Granted(reservation')
    BY DEF ReservationsAgree, Granted, Live
  <2>1. (reservation[c].live => reservation[c].id = id) /\ granted = Granted(reservation)
    BY Unfolded DEF Remove, Note, When
  <2> QED BY <1>1, <1>2, <2>1, RemoveGranted DEF Remove
<1> QED BY <1>3, <1>4

\* A transaction that starts uses the reservation of its request.
LEMMA UseKeeps ==
  ASSUME WellFormed, NothingReservedTwice, ReservationsAgree, NEW id, Use(id), UNCHANGED mishaps
  PROVE  NothingReservedTwice' /\ ReservationsAgree'
<1> DEFINE same == WithId(reservation, id) \ {c \in AllConnectors : id = NoId}
           at == First(same)
<1>1. CASE same = {}
  BY <1>1, Untouched DEF Use
<1>2. CASE same # {}
  <2>1. at \in AllConnectors /\ reservation[at].id = id
    BY <1>2, FirstOfConnectors DEF WithId
  <2>2. /\ reservation' = [reservation EXCEPT ![at] = None]
        /\ granted' = {g \in granted : ~(g.connector = at /\ g.id = id)}
    BY <1>2 DEF Use
  <2>3. reservation \in [AllConnectors -> Reservation]
    BY DEF WellFormed, TypeOK
  <2> HIDE DEF at
  <2>4. NothingReservedTwice'
    BY <2>1, <2>2, <2>3 DEF NothingReservedTwice, Live, None
  <2>5. granted = Granted(reservation) => granted' = Granted(reservation')
    BY <2>1, <2>2, <2>3, RemoveGranted
  <2>6. ReservationsAgree'
    BY <2>5 DEF ReservationsAgree, Granted, Live
  <2> QED BY <2>4, <2>6
<1> QED BY <1>1, <1>2

\* The inductive invariant.
IInv == WellFormed /\ NothingReservedTwice /\ ReservationsAgree

LEMMA InitIInv == FirmwareInit => IInv
<1> SUFFICES ASSUME FirmwareInit PROVE IInv
  OBVIOUS
<1>1. Live = {}
  BY DEF FirmwareInit, Init, Live, None
<1>2. NothingReservedTwice /\ ReservationsAgree
  BY <1>1 DEF NothingReservedTwice, ReservationsAgree, FirmwareInit, Init
<1> QED BY <1>2, InitWellFormed DEF IInv

\* The steps of requests, reservations and removals.
LEMMA ReservationStepKeeps ==
  IInv /\ ReservationStep => NothingReservedTwice' /\ ReservationsAgree'
<1> SUFFICES ASSUME IInv, ReservationStep PROVE NothingReservedTwice' /\ ReservationsAgree'
  OBVIOUS
<1> USE DEF IInv
<1>1. ASSUME NEW k \in Asks, NEW r \in Requests, ReserveNow(k, r)
      PROVE  NothingReservedTwice' /\ ReservationsAgree'
  BY <1>1, ReserveNowKeeps
<1>2. ASSUME NEW k \in Asks, NEW d \in Connectors, NEW answered \in BOOLEAN, Purged(k, d, answered)
      PROVE  NothingReservedTwice' /\ ReservationsAgree'
  BY <1>2, PurgedKeeps
<1>3. ASSUME NEW k \in Asks, Replaced(k)
      PROVE  NothingReservedTwice' /\ ReservationsAgree'
  BY <1>3, ReplacedKeeps
<1>4. ASSUME NEW k \in Asks, Reserved(k)
      PROVE  NothingReservedTwice' /\ ReservationsAgree'
  BY <1>4, Untouched DEF Reserved
<1>5. ASSUME NEW k \in Asks, ReserveFailed(k)
      PROVE  NothingReservedTwice' /\ ReservationsAgree'
  <2>1. "failed" \in mishaps' /\ mishaps \subseteq mishaps' /\ UNCHANGED reservation
    BY <1>5, FailTypes DEF ReserveFailed
  <2>2. NothingReservedTwice'
    BY <2>1 DEF NothingReservedTwice, Live
  <2>3. ReservationsAgree'
    BY <2>1 DEF ReservationsAgree
  <2> QED BY <2>2, <2>3
<1>6. ASSUME NEW c \in AllConnectors, Expire(c)
      PROVE  NothingReservedTwice' /\ ReservationsAgree'
  BY <1>6, ExpireKeeps
<1>7. ASSUME NEW k \in Cancels, NEW id \in Ids, CancelReservation(k, id)
      PROVE  NothingReservedTwice' /\ ReservationsAgree'
  <2>1. CASE First(WithId(reservation, id)) = 0
    <3>1. 0 \in AllConnectors
      BY ReservationsAssumption DEF AllConnectors
    <3> QED BY <1>7, <2>1, <3>1, RemoveKeeps DEF CancelReservation
  <2>2. CASE First(WithId(reservation, id)) # 0
    BY <1>7, <2>2, Untouched DEF CancelReservation
  <2> QED BY <2>1, <2>2
<1>8. ASSUME NEW k \in Cancels, Cancelled(k)
      PROVE  NothingReservedTwice' /\ ReservationsAgree'
  <2>1. cancel[k].connector \in AllConnectors
    BY DEF WellFormed, TypeOK, CancelRecords
  <2> QED BY <1>8, <2>1, RemoveKeeps DEF Cancelled
<1>9. ASSUME NEW k \in Cancels, CancelFailed(k)
      PROVE  NothingReservedTwice' /\ ReservationsAgree'
  BY <1>9, FailTypes, Untouched DEF CancelFailed, connectorVars
<1> QED BY <1>1, <1>2, <1>3, <1>4, <1>5, <1>6, <1>7, <1>8, <1>9 DEF ReservationStep

\* The steps of transactions.
LEMMA TransactionStepKeeps ==
  IInv /\ TransactionStep => NothingReservedTwice' /\ ReservationsAgree'
<1> SUFFICES ASSUME IInv, TransactionStep PROVE NothingReservedTwice' /\ ReservationsAgree'
  OBVIOUS
<1> USE DEF IInv, connectorVars
<1>1. ASSUME NEW s \in Starts, NEW r \in StartRequests, Start(s, r)
      PROVE  NothingReservedTwice' /\ ReservationsAgree'
  <2>1. UNCHANGED <<reservation, granted>> /\ mishaps \subseteq mishaps'
    BY <1>1 DEF Start, Note
  <2> QED BY <2>1, Untouched
<1>2. ASSUME NEW s \in Starts,
             Prepared(s) \/ StartIgnored(s) \/ StartRejected(s) \/ StartNotified(s)
      PROVE  NothingReservedTwice' /\ ReservationsAgree'
  BY <1>2, Untouched DEF Prepared, StartIgnored, StartRejected, StartNotified
<1>3. ASSUME NEW s \in Starts, StartAccepted(s)
      PROVE  NothingReservedTwice' /\ ReservationsAgree'
  BY <1>3, UseKeeps DEF StartAccepted
<1>4. ASSUME NEW s \in Starts, StartFailed(s)
      PROVE  NothingReservedTwice' /\ ReservationsAgree'
  BY <1>4, FailTypes, Untouched DEF StartFailed
<1>5. ASSUME NEW c \in Connectors, StopAnswered(c) \/ Stopped(c)
      PROVE  NothingReservedTwice' /\ ReservationsAgree'
  BY <1>5, Untouched DEF StopAnswered, Stopped
<1> QED BY <1>1, <1>2, <1>3, <1>4, <1>5 DEF TransactionStep

\* The steps of updates leave the reservations alone.
LEMMA FirmwareStepKeeps ==
  IInv /\ FirmwareStep => NothingReservedTwice' /\ ReservationsAgree'
<1> SUFFICES ASSUME IInv, NEW u \in Updates,
                    UpdateFirmware(u) \/ UpdateProgress(u) \/ UpdateFailed(u)
             PROVE  NothingReservedTwice' /\ ReservationsAgree'
  BY DEF FirmwareStep
<1>1. CASE UpdateFirmware(u) \/ UpdateProgress(u)
  <2>1. UNCHANGED <<reservation, granted, mishaps>>
    BY <1>1 DEF UpdateFirmware, UpdateProgress, Retrieve, Closed, Downloading, DownloadFailed,
                Downloaded, Waited, Sealed, Paused, Installing, InstallationFailed, Reset,
                Installed, Notified, Only, reservationVars
  <2> QED BY <2>1, Untouched DEF IInv
<1>2. CASE UpdateFailed(u)
  BY <1>2, FailTypes, Untouched DEF UpdateFailed, connectorVars, IInv
<1> QED BY <1>1, <1>2

LEMMA NextIInv == IInv /\ [Next]_stationVars => IInv'
<1> SUFFICES ASSUME IInv, [Next]_stationVars PROVE NothingReservedTwice' /\ ReservationsAgree'
  BY NextWellFormed DEF IInv
<1>1. CASE UNCHANGED stationVars
  BY <1>1, Untouched DEF IInv, stationVars, vars, connectorVars
<1> QED BY <1>1, ReservationStepKeeps, TransactionStepKeeps, FirmwareStepKeeps DEF Next

\* No reservation id and no idTag is reserved twice at a time
\* (NothingReservedTwice), for any number of connectors, requests and expiries:
\* the check in handleRequestReserveNow and the placing of the reservation are
\* one step, and a reservation placed later than its check, in place of one with
\* the same id, is an "unpurged" one.
THEOREM Uniqueness == Spec => []NothingReservedTwice
<1>1. IInv => NothingReservedTwice
  BY DEF IInv
<1> QED BY <1>1, InitIInv, NextIInv, PTL DEF Spec

\* Server and station agree on the reservations (ReservationsAgree), for any
\* number of them: what is granted is placed and what is cancelled, used,
\* expired or replaced is gone on both sides, also over the restart at the end
\* of an update, unless a notification fails or a removal comes too late.
THEOREM Agreement == Spec => []ReservationsAgree
<1>1. IInv => ReservationsAgree
  BY DEF IInv
<1> QED BY <1>1, InitIInv, NextIInv, PTL DEF Spec

=============================================================================
