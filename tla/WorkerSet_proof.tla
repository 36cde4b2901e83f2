-------------------------- MODULE WorkerSet_proof --------------------------
(***************************************************************************)
(* Theorems about the worker set: its types, that stop leaves no thread      *)
(* behind, which calls may stay without an answer, and that the count of the *)
(* main thread covers the stations.                                          *)
(***************************************************************************)
EXTENDS WorkerSet, FiniteSetTheorems, TLAPS

\* A worker that was started is in the set or gone, stop has seen those before
\* the one it waits for go, and after stop all are gone.
Fleet ==
  \A w \in 1..created :
    /\ w \in workerSet \/ IsGone(w)
    /\ w < terminating => IsGone(w)
    /\ phase = "stopped" => IsGone(w)

\* Who sleeps has had to start a worker.
Sleepers == \A r \in Requests : request[r] = "sleeping" => r \in creators /\ chosen[r] # 0

\* A call that is posted to a worker was made of it, and is pending as long as
\* the worker runs; it is answered once.
Mine(r, w) ==
  /\ chosen[r] = w /\ request[r] \notin {"idle", "sleeping"}
  /\ life[w] = "running" => request[r] = "awaiting"

Calls ==
  /\ \A w \in Workers : \A r \in inbox[w] : Mine(r, w) /\ \A reply \in replies : reply.to # r
  /\ \A reply \in replies : Mine(reply.to, reply.from)
  /\ \A a, b \in replies : a.to = b.to => a = b
  /\ IsFiniteSet(replies)

\* A worker not started runs no stations.
Empty == \A w \in Workers : w > created => hosted[w] = 0

-----------------------------------------------------------------------------
(* Types *)

LEMMA InitTypes == Init => TypeOK
BY WorkerSetAssumption DEF Init, TypeOK, Workers, Lives

\* A worker more.
LEMMA AddTypes ==
  ASSUME TypeOK, AddWorkerSetElement
  PROVE  /\ created' \in 0..MaxWorkers /\ workerSet' \subseteq 1..created'
         /\ life' \in [Workers -> Lives]
         /\ \A w \in Workers : life'[w] = "none" <=> w > created'
         /\ 0..created \subseteq 0..created' /\ created + 1 \in 0..created'
BY WorkerSetAssumption DEF AddWorkerSetElement, TypeOK, Workers, Lives

LEMMA AddingTypes ==
  ASSUME TypeOK, NEW r \in Requests,
         AddElement(r) \/ AddElementOnNewWorker(r) \/ AddElementResumed(r) \/ AddElementRefused(r)
  PROVE  TypeOK'
<1>1. ASSUME NEW w, Post(r, w) PROVE inbox' \in [Workers -> SUBSET Requests]
  BY <1>1 DEF Post, TypeOK
<1>2. CASE AddElement(r)
  <2>1. PICK w \in WithRoom : chosen' = [chosen EXCEPT ![r] = w] /\ Post(r, w)
    BY <1>2 DEF AddElement
  <2>2. w \in 0..created
    BY DEF WithRoom, TypeOK
  <2> QED BY <1>1, <1>2, <2>1, <2>2 DEF AddElement, TypeOK, setVars
<1>3. CASE AddElementOnNewWorker(r)
  BY <1>3, AddTypes DEF AddElementOnNewWorker, TypeOK, channelVars
<1>4. CASE AddElementResumed(r)
  BY <1>1, <1>4 DEF AddElementResumed, TypeOK, setVars
<1>5. CASE AddElementRefused(r)
  BY <1>5 DEF AddElementRefused, TypeOK, setVars, channelVars
<1> QED BY <1>2, <1>3, <1>4, <1>5

LEMMA RejectTypes ==
  ASSUME TypeOK, NEW calls, Reject(calls)
  PROVE  request' \in [Requests -> {"idle", "sleeping", "awaiting", "added", "rejected"}]
BY DEF Reject, TypeOK

LEMMA WorkingTypes ==
  ASSUME TypeOK, Working
  PROVE  TypeOK'
<1>1. ASSUME NEW w \in Workers, NEW r \in Requests, CreateStation(w, r) PROVE TypeOK'
  <2>1. hosted' \in [Workers -> Nat] /\ inbox' \in [Workers -> SUBSET Requests]
    BY <1>1 DEF CreateStation, TypeOK
  <2>2. replies' \subseteq [from : Workers, to : Requests,
                            event : {"addedWorkerElement", "workerElementError"}]
    BY <1>1 DEF CreateStation, TypeOK
  <2> QED BY <1>1, <2>1, <2>2 DEF CreateStation, TypeOK, setVars, requestVars
<1>2. ASSUME NEW reply \in replies, Receive(reply) PROVE TypeOK'
  <2>1. counted' \in [Workers -> Nat]
    BY <1>2 DEF Receive, TypeOK
  <2>2. request' \in [Requests -> {"idle", "sleeping", "awaiting", "added", "rejected"}]
    BY <1>2 DEF Receive, TypeOK
  <2> QED BY <1>2, <2>1, <2>2 DEF Receive, TypeOK
<1>3. ASSUME NEW w \in Workers, DeleteStation(w) PROVE TypeOK'
  BY <1>3 DEF DeleteStation, TypeOK, setVars, requestVars
<1>4. ASSUME NEW w \in Workers, WorkerError(w) PROVE TypeOK'
  <2>1. /\ request' \in [Requests -> {"idle", "sleeping", "awaiting", "added", "rejected"}]
        /\ inbox' \in [Workers -> SUBSET Requests]
    BY <1>4, RejectTypes DEF WorkerError, TypeOK
  <2>2. w \in 1..created /\ created \in 0..MaxWorkers
    BY <1>4, WorkerSetAssumption DEF WorkerError, TypeOK, Workers
  <2>3. CASE IsStarted
    <3>1. created' = created + 1 /\ created' \in 0..MaxWorkers /\ workerSet' \subseteq 1..created'
      <4>1. /\ created' = created + 1 /\ created < MaxWorkers
            /\ workerSet' = workerSet \cup {created + 1}
        BY <1>4, <2>3 DEF WorkerError
      <4>2. workerSet \subseteq 1..created
        BY DEF TypeOK
      <4> QED BY <2>2, <4>1, <4>2, WorkerSetAssumption
    <3>2. life' = [life EXCEPT ![w] = "failed", ![created + 1] = "running"]
      BY <1>4, <2>3 DEF WorkerError
    <3>3. life' \in [Workers -> Lives] /\ \A v \in Workers : life'[v] = "none" <=> v > created'
      BY <2>2, <3>1, <3>2, WorkerSetAssumption DEF TypeOK, Workers, Lives
    <3>4. 0..created \subseteq 0..created'
      BY <2>2, <3>1
    <3> QED BY <1>4, <2>1, <3>1, <3>3, <3>4 DEF WorkerError, TypeOK
  <2>4. CASE ~IsStarted
    <3>1. life' = [life EXCEPT ![w] = "failed"] /\ UNCHANGED <<created, workerSet>>
      BY <1>4, <2>4 DEF WorkerError
    <3>2. life' \in [Workers -> Lives] /\ \A v \in Workers : life'[v] = "none" <=> v > created'
      BY <1>4, <2>2, <3>1 DEF TypeOK, Workers, Lives
    <3> QED BY <1>4, <2>1, <3>1, <3>2 DEF WorkerError, TypeOK
  <2> QED BY <2>3, <2>4
<1>5. ASSUME NEW w \in Workers, WorkerExit(w) PROVE TypeOK'
  <2>1. life' \in [Workers -> Lives] /\ \A v \in Workers : life'[v] = "none" <=> v > created
    BY <1>5 DEF WorkerExit, TypeOK, Lives
  <2> QED BY <1>5, <2>1, RejectTypes DEF WorkerExit, TypeOK, channelVars
<1> QED BY <1>1, <1>2, <1>3, <1>4, <1>5 DEF Working

LEMMA StopTypes ==
  ASSUME TypeOK, Start \/ Started \/ Stop \/ TerminateNext \/ Stopped
  PROVE  TypeOK'
<1>1. CASE Start
  BY <1>1, AddTypes DEF Start, TypeOK, requestVars, channelVars
<1>2. CASE Started \/ Stop
  BY <1>2 DEF Started, Stop, TypeOK, requestVars, channelVars
<1>3. CASE TerminateNext
  <2>1. PICK w \in ToTerminate :
          /\ terminating' = w
          /\ life' = [life EXCEPT ![w] = IF @ = "running" THEN "terminated" ELSE @]
          /\ inbox' = [inbox EXCEPT ![w] = {}]
    BY <1>3 DEF TerminateNext
  <2>2. w \in 0..created
    BY DEF ToTerminate, TypeOK
  <2>3. life' \in [Workers -> Lives] /\ \A v \in Workers : life'[v] = "none" <=> v > created
    BY <2>1 DEF TypeOK, Lives
  <2> QED BY <1>3, <2>1, <2>2, <2>3 DEF TerminateNext, TypeOK, requestVars
<1>4. CASE Stopped
  BY <1>4, RejectTypes DEF Stopped, TypeOK, channelVars
<1> QED BY <1>1, <1>2, <1>3, <1>4

LEMMA NextTypes == TypeOK /\ [Next]_vars => TypeOK'
<1> SUFFICES ASSUME TypeOK, [Next]_vars PROVE TypeOK'
  OBVIOUS
<1>1. CASE UNCHANGED vars
  BY <1>1 DEF vars, setVars, requestVars, channelVars, TypeOK
<1> QED BY <1>1, AddingTypes, WorkingTypes, StopTypes DEF Next, AddingElement

\* The variables of the worker set have their types in every reachable state
\* (TypeOK): no more workers than were created, none without a thread of its own.
THEOREM Typing == Spec => []TypeOK
BY InitTypes, NextTypes, PTL DEF Spec

-----------------------------------------------------------------------------
(* stop *)

\* What a step has to do for Fleet: workers that are gone stay gone, those that
\* leave the set or that stop has passed are gone, and a new one is in the set.
LEMMA FleetStays ==
  ASSUME TypeOK, Fleet, TypeOK',
         \A w \in 1..created : IsGone(w) => IsGone(w)',
         \A w \in 1..created : w \in workerSet => w \in workerSet' \/ IsGone(w)',
         \A w \in 1..created' : w \notin 1..created => w \in workerSet' /\ phase' # "stopped",
         terminating' = terminating, phase' = "stopped" => phase = "stopped"
  PROVE  Fleet'
<1> SUFFICES ASSUME NEW w \in 1..created'
             PROVE  /\ w \in workerSet' \/ IsGone(w)'
                    /\ w < terminating' => IsGone(w)'
                    /\ phase' = "stopped" => IsGone(w)'
  BY DEF Fleet
<1>1. CASE w \in 1..created
  BY <1>1 DEF Fleet
<1>2. CASE w \notin 1..created
  <2>1. created \in Nat /\ created' \in Nat /\ terminating \in 0..created
    BY WorkerSetAssumption DEF TypeOK
  <2>2. ~(w < terminating)
    BY <1>2, <2>1
  <2> QED BY <1>2, <2>2
<1> QED BY <1>1, <1>2

LEMMA AddFleet ==
  ASSUME TypeOK, AddWorkerSetElement
  PROVE  /\ \A w \in 1..created : IsGone(w) => IsGone(w)'
         /\ \A w \in 1..created' : w \in 1..created \/ w \in workerSet'
         /\ workerSet \subseteq workerSet'
BY WorkerSetAssumption DEF AddWorkerSetElement, TypeOK, IsGone, Workers

LEMMA NextFleet ==
  TypeOK /\ TypeOK' /\ Fleet /\ [Next]_vars => Fleet'
<1> SUFFICES ASSUME TypeOK, TypeOK', Fleet, [Next]_vars PROVE Fleet'
  OBVIOUS
<1>1. created \in Nat /\ 1..created \subseteq Workers
  BY WorkerSetAssumption DEF TypeOK, Workers
<1>2. ASSUME UNCHANGED setVars PROVE Fleet'
  BY <1>2 DEF Fleet, setVars, IsGone
<1>3. CASE UNCHANGED vars
  BY <1>2, <1>3 DEF vars
<1>4. CASE Start
  BY <1>4, AddFleet, FleetStays DEF Start
<1>5. CASE Started \/ Stop
  BY <1>5, FleetStays DEF Started, Stop, IsGone
<1>6. ASSUME NEW r \in Requests, AddElementOnNewWorker(r) PROVE Fleet'
  <2>1. phase' # "stopped" /\ UNCHANGED <<phase, terminating>> /\ AddWorkerSetElement
    BY <1>6 DEF AddElementOnNewWorker, IsStarted
  <2> QED BY <2>1, AddFleet, FleetStays
<1>7. ASSUME NEW r \in Requests, AddElement(r) \/ AddElementResumed(r) \/ AddElementRefused(r)
      PROVE  Fleet'
  BY <1>2, <1>7 DEF AddElement, AddElementResumed, AddElementRefused
<1>8. ASSUME NEW w \in Workers, NEW r \in Requests, CreateStation(w, r) PROVE Fleet'
  BY <1>2, <1>8 DEF CreateStation
<1>9. ASSUME NEW reply \in replies, Receive(reply) PROVE Fleet'
  BY <1>2, <1>9 DEF Receive, setVars, Fleet, IsGone
<1>10. ASSUME NEW w \in Workers, DeleteStation(w) PROVE Fleet'
  BY <1>2, <1>10 DEF DeleteStation
<1>11. ASSUME NEW w \in Workers, WorkerError(w) PROVE Fleet'
  <2>1. ~IsGone(w) /\ w \in 1..created /\ phase # "stopped" /\ UNCHANGED <<phase, terminating>>
    <3>1. life[w] = "running" /\ UNCHANGED <<phase, terminating>>
      BY <1>11 DEF WorkerError
    <3>2. w \in 1..created
      BY <1>1, <3>1, WorkerSetAssumption DEF TypeOK, Workers
    <3> QED BY <3>1, <3>2 DEF IsGone, Fleet
  <2>2. \A v \in 1..created : IsGone(v) => IsGone(v)'
    BY <1>1, <1>11, <2>1 DEF WorkerError, IsGone, TypeOK
  <2>3. \A v \in 1..created' : v \in 1..created \/ v \in workerSet'
    BY <1>1, <1>11 DEF WorkerError
  <2>4. workerSet \subseteq workerSet'
    BY <1>11 DEF WorkerError
  <2> QED BY <2>1, <2>2, <2>3, <2>4, FleetStays
<1>12. ASSUME NEW w \in Workers, WorkerExit(w) PROVE Fleet'
  <2>1. IsGone(w)'
    BY <1>12 DEF WorkerExit, IsGone, TypeOK
  <2>2. \A v \in 1..created : IsGone(v) => IsGone(v)'
    BY <1>1, <1>12, <2>1 DEF WorkerExit, IsGone, TypeOK
  <2> QED BY <1>12, <2>1, <2>2, FleetStays DEF WorkerExit
<1>13. CASE TerminateNext
  <2>1. PICK w \in ToTerminate :
          /\ \A v \in ToTerminate : w <= v
          /\ terminating' = w
          /\ life' = [life EXCEPT ![w] = IF @ = "running" THEN "terminated" ELSE @]
    BY <1>13 DEF TerminateNext
  <2>2. w \in 1..created /\ UNCHANGED <<phase, created, workerSet>> /\ phase # "stopped"
    BY <1>13 DEF ToTerminate, TypeOK, TerminateNext
  <2>3. \A v \in 1..created : IsGone(v) => IsGone(v)'
    BY <1>1, <2>1 DEF IsGone, TypeOK
  <2>4. ASSUME NEW v \in 1..created, v < w PROVE IsGone(v)
    <3>1. terminating \in 0..created /\ terminating < w
      BY DEF ToTerminate, TypeOK
    <3>2. CASE v < terminating
      BY <3>2 DEF Fleet
    <3>3. CASE v = terminating
      BY <1>1, <1>13, <3>3 DEF TerminateNext, TerminationDone
    <3>4. CASE terminating < v
      <4>1. v \notin ToTerminate
        BY <1>1, <2>1, <2>2, <2>4
      <4>2. v \notin workerSet
        BY <3>4, <4>1 DEF ToTerminate
      <4> QED BY <4>2 DEF Fleet
    <3> QED BY <1>1, <3>1, <3>2, <3>3, <3>4
  <2> QED BY <2>1, <2>2, <2>3, <2>4 DEF Fleet
<1>14. CASE Stopped
  <2>1. ASSUME NEW v \in 1..created PROVE IsGone(v)
    <3>1. CASE v \in workerSet
      <4>1. ~(v > terminating) /\ terminating \in 0..created
        BY <1>14, <3>1 DEF Stopped, ToTerminate, TypeOK
      <4>2. v < terminating \/ v = terminating
        BY <1>1, <4>1
      <4> QED BY <1>1, <1>14, <4>2 DEF Stopped, TerminationDone, Fleet
    <3>2. CASE v \notin workerSet
      BY <3>2 DEF Fleet
    <3> QED BY <3>1, <3>2
  <2>2. UNCHANGED <<life, created>>
    BY <1>14 DEF Stopped
  <2> QED BY <2>1, <2>2 DEF Fleet, IsGone
<1> QED BY <1>3, <1>4, <1>5, <1>6, <1>7, <1>8, <1>9, <1>10, <1>11, <1>12, <1>13, <1>14
        DEF Next, AddingElement, Working

\* stop leaves no thread behind (StopLeavesNoWorker), for any number of workers
\* and of failures: the iteration of stop() over the set meets every worker that
\* a concurrent addElement or the error handler adds, and the exit of the last
\* one is awaited.
THEOREM StopCompletes == Spec => []StopLeavesNoWorker
<1>1. Init => Fleet
  BY DEF Init, Fleet
<1>2. TypeOK /\ Fleet => StopLeavesNoWorker
  BY WorkerSetAssumption DEF TypeOK, Fleet, StopLeavesNoWorker, Workers
<1> QED BY <1>1, <1>2, InitTypes, NextTypes, NextFleet, PTL DEF Spec

-----------------------------------------------------------------------------
(* Calls *)

LEMMA NextStranded ==
  TypeOK /\ Sleepers /\ OnlyCreatorsAreStranded /\ [Next]_vars
    => Sleepers' /\ OnlyCreatorsAreStranded'
<1> SUFFICES ASSUME TypeOK, Sleepers, OnlyCreatorsAreStranded, [Next]_vars
             PROVE  Sleepers' /\ OnlyCreatorsAreStranded'
  OBVIOUS
<1> USE DEF Sleepers, OnlyCreatorsAreStranded, Pending
<1>1. ASSUME UNCHANGED requestVars, workerSet \subseteq workerSet'
      PROVE  Sleepers' /\ OnlyCreatorsAreStranded'
  BY <1>1 DEF requestVars
<1>2. CASE UNCHANGED vars
  BY <1>1, <1>2 DEF vars, setVars
<1>3. CASE Start \/ Started \/ Stop \/ TerminateNext
  BY <1>1, <1>3 DEF Start, Started, Stop, TerminateNext, AddWorkerSetElement
<1>4. ASSUME NEW r \in Requests, AddElement(r) PROVE Sleepers' /\ OnlyCreatorsAreStranded'
  BY <1>4 DEF AddElement, WithRoom, setVars, TypeOK
<1>5. ASSUME NEW r \in Requests, AddElementOnNewWorker(r)
      PROVE  Sleepers' /\ OnlyCreatorsAreStranded'
  BY <1>5 DEF AddElementOnNewWorker, AddWorkerSetElement, TypeOK
<1>6. ASSUME NEW r \in Requests, AddElementResumed(r) PROVE Sleepers' /\ OnlyCreatorsAreStranded'
  BY <1>6 DEF AddElementResumed, setVars, TypeOK
<1>7. ASSUME NEW r \in Requests, AddElementRefused(r) PROVE Sleepers' /\ OnlyCreatorsAreStranded'
  BY <1>7 DEF AddElementRefused, setVars, TypeOK
<1>8. ASSUME NEW w \in Workers, (\E r \in Requests : CreateStation(w, r)) \/ DeleteStation(w)
      PROVE  Sleepers' /\ OnlyCreatorsAreStranded'
  BY <1>1, <1>8 DEF CreateStation, DeleteStation, setVars
<1>9. ASSUME NEW reply \in replies, Receive(reply) PROVE Sleepers' /\ OnlyCreatorsAreStranded'
  BY <1>9 DEF Receive, TypeOK
<1>10. ASSUME NEW w \in Workers, WorkerError(w) PROVE Sleepers' /\ OnlyCreatorsAreStranded'
  BY <1>10 DEF WorkerError, Reject, PendingOn, TypeOK
<1>11. ASSUME NEW w \in Workers, WorkerExit(w) PROVE Sleepers' /\ OnlyCreatorsAreStranded'
  BY <1>11 DEF WorkerExit, Reject, PendingOn, TypeOK
<1>12. CASE Stopped
  BY <1>12 DEF Stopped, Reject, TypeOK
<1> QED BY <1>2, <1>3, <1>4, <1>5, <1>6, <1>7, <1>8, <1>9, <1>10, <1>11, <1>12
        DEF Next, AddingElement, Working

\* Only a call that had to start its worker can be stranded
\* (OnlyCreatorsAreStranded): every other pending call is of a worker of the set,
\* and the handlers that take a worker out of it reject its calls.
THEOREM Stranding == Spec => []OnlyCreatorsAreStranded
<1>1. Init => Sleepers /\ OnlyCreatorsAreStranded
  BY DEF Init, Sleepers, OnlyCreatorsAreStranded, Pending
<1> QED BY <1>1, InitTypes, NextTypes, NextStranded, PTL DEF Spec

-----------------------------------------------------------------------------
(* Stations *)

\* A call stays a worker's while neither it nor the worker changes.
LEMMA CallsStay ==
  ASSUME TypeOK, Calls, inbox' \in [Workers -> SUBSET Requests],
         \A w \in Workers : inbox'[w] \subseteq inbox[w], replies' \subseteq replies,
         \A w \in Workers, r \in Requests :
           Mine(r, w) /\ (r \in inbox'[w] \/ \E reply \in replies' : reply.from = w /\ reply.to = r)
             => Mine(r, w)'
  PROVE  Calls'
<1>1. ASSUME NEW w \in Workers, NEW r \in inbox'[w]
      PROVE  Mine(r, w)' /\ \A reply \in replies' : reply.to # r
  BY <1>1 DEF Calls
<1>2. ASSUME NEW reply \in replies' PROVE Mine(reply.to, reply.from)'
  BY <1>2 DEF Calls, TypeOK
<1>3. IsFiniteSet(replies')
  BY FS_Subset DEF Calls
<1> QED BY <1>1, <1>2, <1>3 DEF Calls

LEMMA NextCalls ==
  TypeOK /\ TypeOK' /\ Fleet' /\ Sleepers /\ Calls /\ Empty /\ [Next]_vars => Calls' /\ Empty'
<1> SUFFICES ASSUME TypeOK, TypeOK', Fleet', Sleepers, Calls, Empty, [Next]_vars
             PROVE  Calls' /\ Empty'
  OBVIOUS
<1>1. created \in Nat /\ 1..created \subseteq Workers /\ inbox' \in [Workers -> SUBSET Requests]
  BY WorkerSetAssumption DEF TypeOK, Workers
<1>2. ASSUME UNCHANGED <<request, chosen, inbox, replies, hosted>>, created <= created', created' \in Nat,
             \A w \in 1..created : life'[w] = "running" => life[w] = "running"
      PROVE  Calls' /\ Empty'
  <2>1. \A w \in Workers, r \in Requests : Mine(r, w) => Mine(r, w)'
    <3> SUFFICES ASSUME NEW w \in Workers, NEW r \in Requests, Mine(r, w) PROVE Mine(r, w)'
      OBVIOUS
    <3>1. w \in 1..created
      BY <1>1, WorkerSetAssumption DEF Mine, TypeOK, Workers
    <3> QED BY <1>2, <3>1 DEF Mine
  <2>2. Calls'
    BY <1>1, <1>2, <2>1, CallsStay
  <2>3. Empty'
    BY <1>1, <1>2, WorkerSetAssumption DEF Empty, Workers
  <2> QED BY <2>2, <2>3
<1>3. CASE UNCHANGED vars
  BY <1>1, <1>2, <1>3 DEF vars, setVars, requestVars, channelVars
<1>4. CASE Start
  BY <1>1, <1>2, <1>4 DEF Start, AddWorkerSetElement, TypeOK, requestVars, channelVars
<1>5. CASE Started \/ Stop
  BY <1>1, <1>2, <1>5 DEF Started, Stop, requestVars, channelVars
<1>6. ASSUME NEW r \in Requests, request[r] \in {"idle", "sleeping"}, request'[r] = "awaiting",
             NEW w \in Workers, chosen' = [chosen EXCEPT ![r] = w], Post(r, w),
             request' = [request EXCEPT ![r] = "awaiting"], UNCHANGED <<life, created, hosted, replies>>
      PROVE  Calls' /\ Empty'
  <2>1. \A v \in Workers : r \notin inbox[v]
    BY <1>6 DEF Calls, Mine
  <2>2. \A reply \in replies : reply.to # r
    BY <1>6 DEF Calls, Mine
  <2>3. \A v \in Workers, p \in Requests \ {r} : Mine(p, v) => Mine(p, v)'
    BY <1>6 DEF Mine, TypeOK
  <2>4. Mine(r, w)'
    BY <1>6 DEF Mine, TypeOK
  <2>5. \A v \in Workers : \A p \in inbox'[v] : p \in inbox[v] \/ (p = r /\ v = w)
    BY <1>6 DEF Post, TypeOK
  <2>6. ASSUME NEW v \in Workers, NEW p \in inbox'[v]
        PROVE  Mine(p, v)' /\ \A reply \in replies' : reply.to # p
    <3>1. CASE p \in inbox[v]
      BY <1>6, <2>1, <2>3, <3>1 DEF Calls, TypeOK
    <3>2. CASE p = r /\ v = w
      BY <1>6, <2>2, <2>4, <3>2
    <3> QED BY <2>5, <3>1, <3>2
  <2>7. ASSUME NEW reply \in replies' PROVE Mine(reply.to, reply.from)'
    BY <1>6, <2>2, <2>3, <2>7 DEF Calls, TypeOK
  <2>8. Calls'
    BY <1>6, <2>6, <2>7 DEF Calls
  <2> QED BY <1>6, <2>8 DEF Empty
<1>7. ASSUME NEW r \in Requests, AddElement(r) PROVE Calls' /\ Empty'
  <2>1. PICK w \in WithRoom : chosen' = [chosen EXCEPT ![r] = w] /\ Post(r, w)
    BY <1>7 DEF AddElement
  <2>2. w \in Workers
    BY <1>1 DEF WithRoom, TypeOK
  <2> QED BY <1>6, <1>7, <2>1, <2>2 DEF AddElement, setVars, TypeOK
<1>8. ASSUME NEW r \in Requests, AddElementResumed(r) PROVE Calls' /\ Empty'
  <2>1. chosen' = [chosen EXCEPT ![r] = chosen[r]]
    BY <1>8 DEF AddElementResumed, TypeOK
  <2>2. chosen[r] \in Workers
    <3>1. chosen[r] \in 0..created /\ chosen[r] # 0
      BY <1>8 DEF AddElementResumed, Sleepers, TypeOK
    <3>2. chosen[r] \in 1..created
      BY <1>1, <3>1
    <3> QED BY <1>1, <3>2
  <2> QED BY <1>6, <1>8, <2>1, <2>2 DEF AddElementResumed, setVars, TypeOK
<1>9. ASSUME NEW r \in Requests, request[r] = "idle", UNCHANGED <<inbox, replies, hosted>>,
             \A p \in Requests \ {r} : request'[p] = request[p] /\ chosen'[p] = chosen[p],
             created <= created', created' \in Nat,
             \A w \in 1..created : life'[w] = "running" => life[w] = "running"
      PROVE  Calls' /\ Empty'
  <2>1. ASSUME NEW w \in Workers, NEW p \in Requests, Mine(p, w) PROVE Mine(p, w)'
    <3>1. p # r
      BY <1>9, <2>1 DEF Mine
    <3>2. w \in 1..created
      BY <1>1, <2>1, WorkerSetAssumption DEF Mine, TypeOK, Workers
    <3> QED BY <1>9, <2>1, <3>1, <3>2 DEF Mine
  <2>2. Calls'
    BY <1>1, <1>9, <2>1, CallsStay
  <2>3. Empty'
    BY <1>1, <1>9, WorkerSetAssumption DEF Empty, Workers
  <2> QED BY <2>2, <2>3
<1>10. ASSUME NEW r \in Requests, AddElementOnNewWorker(r) PROVE Calls' /\ Empty'
  <2>1. created' = created + 1 /\ life' = [life EXCEPT ![created + 1] = "running"]
    BY <1>10 DEF AddElementOnNewWorker, AddWorkerSetElement
  <2>2. \A w \in 1..created : life'[w] = life[w]
    BY <1>1, <2>1 DEF TypeOK
  <2> QED BY <1>1, <1>9, <1>10, <2>1, <2>2 DEF AddElementOnNewWorker, channelVars, TypeOK
<1>11. ASSUME NEW r \in Requests, AddElementRefused(r) PROVE Calls' /\ Empty'
  BY <1>1, <1>9, <1>11 DEF AddElementRefused, setVars, channelVars, TypeOK
<1>12. ASSUME NEW w \in Workers, NEW r \in Requests, CreateStation(w, r) PROVE Calls' /\ Empty'
  <2>1. /\ inbox' = [inbox EXCEPT ![w] = @ \ {r}] /\ r \in inbox[w] /\ life[w] = "running"
        /\ UNCHANGED <<life, created, request, chosen>>
    BY <1>12 DEF CreateStation, setVars, requestVars
  <2>2. PICK event : replies' = replies \cup {[from |-> w, to |-> r, event |-> event]}
    BY <1>12 DEF CreateStation
  <2> DEFINE answer == [from |-> w, to |-> r, event |-> event]
  <2>3. answer.from = w /\ answer.to = r /\ replies' = replies \cup {answer}
    BY <2>2
  <2> HIDE DEF answer
  <2>4. \A v \in Workers, p \in Requests : Mine(p, v) => Mine(p, v)'
    BY <2>1 DEF Mine
  <2>5. Mine(r, w) /\ \A reply \in replies : reply.to # r
    BY <2>1 DEF Calls
  <2>6. ASSUME NEW v \in Workers, NEW p \in inbox'[v]
        PROVE  Mine(p, v)' /\ \A reply \in replies' : reply.to # p
    <3>1. p \in inbox[v] /\ ~(v = w /\ p = r)
      BY <2>1 DEF TypeOK
    <3>2. Mine(p, v) /\ \A reply \in replies : reply.to # p
      BY <3>1 DEF Calls
    <3>3. p # r
      BY <2>5, <3>1, <3>2 DEF Mine
    <3>4. p \in Requests
      BY <3>1 DEF TypeOK
    <3> QED BY <2>3, <2>4, <3>2, <3>3, <3>4
  <2>7. ASSUME NEW reply \in replies' PROVE Mine(reply.to, reply.from)'
    BY <2>3, <2>4, <2>5, <2>7 DEF Calls, TypeOK
  <2>8. \A a, b \in replies' : a.to = b.to => a = b
    BY <2>3, <2>5 DEF Calls
  <2>9. IsFiniteSet(replies')
    BY <2>3, FS_AddElement DEF Calls
  <2>10. Empty'
    BY <1>1, <1>12, <2>1, WorkerSetAssumption DEF CreateStation, Empty, TypeOK, Workers
  <2> QED BY <2>6, <2>7, <2>8, <2>9, <2>10 DEF Calls
<1>13. ASSUME NEW reply \in replies, Receive(reply) PROVE Calls' /\ Empty'
  <2>1. /\ replies' = replies \ {reply} /\ UNCHANGED <<life, chosen, inbox, created, hosted>>
        /\ \A p \in Requests \ {reply.to} : request'[p] = request[p]
    BY <1>13 DEF Receive, TypeOK
  <2>2. ASSUME NEW w \in Workers, NEW r \in Requests, Mine(r, w),
               r \in inbox'[w] \/ \E other \in replies' : other.from = w /\ other.to = r
        PROVE  Mine(r, w)'
    <3>1. r # reply.to
      BY <2>1, <2>2 DEF Calls
    <3> QED BY <2>1, <2>2, <3>1 DEF Mine
  <2>3. Calls'
    BY <2>1, <2>2, CallsStay, <1>1
  <2> QED BY <2>1, <2>3 DEF Empty
<1>14. ASSUME NEW w \in Workers, DeleteStation(w) PROVE Calls' /\ Empty'
  <2>1. Calls'
    BY <1>14 DEF DeleteStation, Calls, Mine, setVars, requestVars
  <2>2. Empty'
    BY <1>1, <1>14, WorkerSetAssumption DEF DeleteStation, setVars, Empty, TypeOK, Workers
  <2> QED BY <2>1, <2>2
<1>15. ASSUME NEW w \in Workers, Reject(PendingOn(w)), UNCHANGED <<chosen, replies, hosted>>,
              \A v \in Workers : inbox'[v] \subseteq inbox[v], created <= created', created' \in Nat,
              \A v \in 1..created : life'[v] = "running" => life[v] = "running" /\ v # w
       PROVE  Calls' /\ Empty'
  <2>1. ASSUME NEW v \in Workers, NEW r \in Requests, Mine(r, v) PROVE Mine(r, v)'
    <3>1. v \in 1..created
      BY <1>1, <2>1, WorkerSetAssumption DEF Mine, TypeOK, Workers
    <3>2. request'[r] \notin {"idle", "sleeping"}
      BY <1>15, <2>1 DEF Mine, Reject
    <3>3. v # w => request'[r] = request[r]
      BY <1>15, <2>1 DEF Mine, Reject, PendingOn
    <3> QED BY <1>15, <2>1, <3>1, <3>2, <3>3 DEF Mine
  <2>2. Calls'
    BY <1>1, <1>15, <2>1, CallsStay
  <2>3. Empty'
    BY <1>1, <1>15, WorkerSetAssumption DEF Empty, Workers
  <2> QED BY <2>2, <2>3
<1>16. ASSUME NEW w \in Workers, WorkerError(w) PROVE Calls' /\ Empty'
  <2>1. /\ Reject(PendingOn(w)) /\ UNCHANGED <<chosen, replies, hosted>>
        /\ \A v \in Workers : inbox'[v] \subseteq inbox[v]
    BY <1>16 DEF WorkerError, TypeOK
  <2>2. created <= created' /\ created' \in Nat
    BY <1>1, <1>16 DEF WorkerError
  <2>3. \A v \in 1..created : life'[v] = "running" => life[v] = "running" /\ v # w
    BY <1>1, <1>16 DEF WorkerError, TypeOK
  <2> QED BY <1>15, <2>1, <2>2, <2>3
<1>17. ASSUME NEW w \in Workers, WorkerExit(w) PROVE Calls' /\ Empty'
  <2>1. \A v \in 1..created : life'[v] = "running" => life[v] = "running" /\ v # w
    BY <1>1, <1>17 DEF WorkerExit, TypeOK
  <2> QED BY <1>1, <1>15, <1>17, <2>1 DEF WorkerExit, channelVars
<1>18. CASE TerminateNext
  <2>1. PICK w \in ToTerminate :
          /\ life' = [life EXCEPT ![w] = IF @ = "running" THEN "terminated" ELSE @]
          /\ inbox' = [inbox EXCEPT ![w] = {}]
    BY <1>18 DEF TerminateNext
  <2>2. \A v \in Workers, r \in Requests : Mine(r, v) => Mine(r, v)'
    BY <1>18, <2>1 DEF TerminateNext, Mine, requestVars, TypeOK
  <2>3. \A v \in Workers : inbox'[v] \subseteq inbox[v]
    BY <2>1 DEF TypeOK
  <2>4. replies' \subseteq replies
    BY <1>18 DEF TerminateNext
  <2>5. Calls'
    BY <1>1, <2>2, <2>3, <2>4, CallsStay
  <2> QED BY <1>18, <2>5 DEF TerminateNext, Empty
<1>19. CASE Stopped
  <2>1. \A v \in Workers : life'[v] # "running"
    <3>1. phase' = "stopped"
      BY <1>19 DEF Stopped
    <3>2. ASSUME NEW v \in 1..created' PROVE life'[v] # "running"
      BY <3>1 DEF Fleet, IsGone
    <3>3. ASSUME NEW v \in Workers, v \notin 1..created' PROVE life'[v] # "running"
      <4>1. created' \in Nat
        BY WorkerSetAssumption DEF TypeOK
      <4>2. v > created'
        BY <3>3, <4>1, WorkerSetAssumption DEF Workers
      <4> QED BY <4>2 DEF TypeOK
    <3> QED BY <3>2, <3>3
  <2>2. \A v \in Workers, r \in Requests : Mine(r, v) => Mine(r, v)'
    BY <1>19, <2>1 DEF Stopped, Reject, Mine
  <2>3. Calls'
    BY <1>1, <1>19, <2>2, CallsStay DEF Stopped, channelVars
  <2> QED BY <1>19, <2>3 DEF Stopped, channelVars, Empty
<1> QED BY <1>3, <1>4, <1>5, <1>7, <1>8, <1>10, <1>11, <1>12, <1>13, <1>14, <1>16, <1>17, <1>18,
           <1>19 DEF Next, AddingElement, Working

\* The answers of a worker that tell of a station.
LEMMA AnswersFinite ==
  ASSUME Calls
  PROVE  \A w, event : /\ IsFiniteSet(AnswersOf(w, event))
                       /\ Cardinality(AnswersOf(w, event)) \in Nat
<1> SUFFICES ASSUME NEW w, NEW event
             PROVE  /\ IsFiniteSet(AnswersOf(w, event))
                    /\ Cardinality(AnswersOf(w, event)) \in Nat
  OBVIOUS
<1>1. AnswersOf(w, event) \subseteq replies
  BY DEF AnswersOf
<1>2. IsFiniteSet(AnswersOf(w, event))
  BY <1>1, FS_Subset DEF Calls
<1> QED BY <1>2, FS_CardinalityType

\* A step that leaves hosted, counted and replies alone.
LEMMA CountStays ==
  ASSUME TypeOK, TypeOK', Calls, Empty, CountCoversStations, UNCHANGED <<hosted, counted, replies>>,
         \A w \in Workers : life'[w] = "running" => life[w] = "running" \/ w > created
  PROVE  CountCoversStations'
<1> SUFFICES ASSUME NEW w \in Workers, life'[w] = "running"
             PROVE  hosted[w] <= counted[w] + Cardinality(AnswersOf(w, "addedWorkerElement"))
  BY DEF CountCoversStations, AnswersOf
<1>1. CASE life[w] = "running"
  BY <1>1 DEF CountCoversStations
<1>2. CASE w > created
  <2>1. hosted[w] = 0 /\ counted[w] \in Nat
    BY <1>2 DEF Empty, TypeOK
  <2>2. Cardinality(AnswersOf(w, "addedWorkerElement")) \in Nat
    BY AnswersFinite
  <2> QED BY <2>1, <2>2
<1> QED BY <1>1, <1>2

LEMMA CreateCounts ==
  ASSUME TypeOK, TypeOK', Calls, CountCoversStations,
         NEW w \in Workers, NEW r \in Requests, CreateStation(w, r)
  PROVE  CountCoversStations'
<1>1. UNCHANGED <<life, counted>> /\ r \in inbox[w] /\ life[w] = "running"
  BY DEF CreateStation, setVars
<1> SUFFICES ASSUME NEW v \in Workers, life[v] = "running"
             PROVE  hosted'[v] <= counted[v] + Cardinality(AnswersOf(v, "addedWorkerElement")')
  BY <1>1 DEF CountCoversStations
<1> DEFINE before == AnswersOf(v, "addedWorkerElement")
           added == [from |-> w, to |-> r, event |-> "addedWorkerElement"]
           failed == [from |-> w, to |-> r, event |-> "workerElementError"]
<1>2. IsFiniteSet(before) /\ Cardinality(before) \in Nat
  BY AnswersFinite
<1>3. hosted[v] <= counted[v] + Cardinality(before) /\ hosted[v] \in Nat /\ counted[v] \in Nat
  BY DEF CountCoversStations, TypeOK
<1>4. CASE replies' = replies \cup {failed} /\ UNCHANGED hosted
  <2>1. AnswersOf(v, "addedWorkerElement")' = before
    BY <1>4 DEF AnswersOf
  <2> QED BY <1>3, <1>4, <2>1
<1>5. CASE replies' = replies \cup {added} /\ hosted' = [hosted EXCEPT ![w] = @ + 1]
  <2>1. CASE v = w
    <3>1. AnswersOf(v, "addedWorkerElement")' = before \cup {added}
      BY <1>5, <2>1 DEF AnswersOf
    <3>2. added \notin before
      BY <1>1 DEF Calls, AnswersOf
    <3>3. Cardinality(AnswersOf(v, "addedWorkerElement")') = Cardinality(before) + 1
      <4> HIDE DEF before, added
      <4> QED BY <1>2, <3>1, <3>2, FS_AddElement
    <3>4. hosted'[v] = hosted[v] + 1
      BY <1>5, <2>1 DEF TypeOK
    <3> HIDE DEF before
    <3> QED BY <1>2, <1>3, <3>3, <3>4
  <2>2. CASE v # w
    <3>1. AnswersOf(v, "addedWorkerElement")' = before
      BY <1>5, <2>2 DEF AnswersOf
    <3>2. hosted'[v] = hosted[v]
      BY <1>5, <2>2 DEF TypeOK
    <3> QED BY <1>3, <3>1, <3>2
  <2> QED BY <2>1, <2>2
<1> QED BY <1>4, <1>5 DEF CreateStation

LEMMA ReceiveCounts ==
  ASSUME TypeOK, TypeOK', Calls, CountCoversStations, NEW reply \in replies, Receive(reply)
  PROVE  CountCoversStations'
<1>1. UNCHANGED <<life, hosted>> /\ replies' = replies \ {reply}
  BY DEF Receive
<1> SUFFICES ASSUME NEW v \in Workers, life[v] = "running"
             PROVE  hosted[v] <= counted'[v] + Cardinality(AnswersOf(v, "addedWorkerElement")')
  BY <1>1 DEF CountCoversStations
<1> DEFINE before == AnswersOf(v, "addedWorkerElement")
<1>2. IsFiniteSet(before) /\ Cardinality(before) \in Nat
  BY AnswersFinite
<1>3. hosted[v] <= counted[v] + Cardinality(before) /\ hosted[v] \in Nat /\ counted[v] \in Nat
  BY DEF CountCoversStations, TypeOK
<1>4. counted'[v] \in Nat /\ counted[v] <= counted'[v]
  <2>1. counted' = counted \/ \E n \in {counted[chosen[reply.to]], counted[chosen[reply.to]] + 1} :
                               counted' = [counted EXCEPT ![chosen[reply.to]] = n]
    BY DEF Receive
  <2> QED BY <2>1 DEF TypeOK
<1>5. CASE reply \in before
  <2>1. reply.from = v /\ reply.event = "addedWorkerElement" /\ reply.to \in Requests
    BY <1>5 DEF AnswersOf, TypeOK
  <2>2. reply.to \in Pending /\ chosen[reply.to] = v
    BY <2>1 DEF Calls, Mine, Pending
  <2>3. counted'[v] = counted[v] + 1
    BY <2>1, <2>2 DEF Receive, TypeOK
  <2>4. AnswersOf(v, "addedWorkerElement")' = before \ {reply}
    BY <1>1 DEF AnswersOf
  <2>5. Cardinality(before \ {reply}) = Cardinality(before) - 1
    <3> HIDE DEF before
    <3> QED BY <1>2, <1>5, FS_RemoveElement
  <2> HIDE DEF before
  <2> QED BY <1>2, <1>3, <2>3, <2>4, <2>5
<1>6. CASE reply \notin before
  <2>1. AnswersOf(v, "addedWorkerElement")' = before
    BY <1>1, <1>6 DEF AnswersOf
  <2> HIDE DEF before
  <2> QED BY <1>2, <1>3, <1>4, <2>1
<1> QED BY <1>5, <1>6

LEMMA NextCounts ==
  TypeOK /\ TypeOK' /\ Calls /\ Empty /\ CountCoversStations /\ [Next]_vars
    => CountCoversStations'
<1> SUFFICES ASSUME TypeOK, TypeOK', Calls, Empty, CountCoversStations, [Next]_vars
             PROVE  CountCoversStations'
  OBVIOUS
<1>1. created \in Nat /\ created + 1 > created
  BY WorkerSetAssumption DEF TypeOK
<1>2. CASE UNCHANGED vars
  BY <1>2, CountStays DEF vars, setVars, channelVars
<1>3. CASE Start
  BY <1>1, <1>3, CountStays DEF Start, AddWorkerSetElement, channelVars, TypeOK
<1>4. CASE Started \/ Stop \/ Stopped
  BY <1>4, CountStays DEF Started, Stop, Stopped, channelVars
<1>5. ASSUME NEW r \in Requests, AddElement(r) \/ AddElementResumed(r) \/ AddElementRefused(r)
      PROVE  CountCoversStations'
  BY <1>5, CountStays DEF AddElement, AddElementResumed, AddElementRefused, setVars, channelVars
<1>6. ASSUME NEW r \in Requests, AddElementOnNewWorker(r) PROVE CountCoversStations'
  BY <1>1, <1>6, CountStays DEF AddElementOnNewWorker, AddWorkerSetElement, channelVars, TypeOK
<1>7. ASSUME NEW w \in Workers, NEW r \in Requests, CreateStation(w, r) PROVE CountCoversStations'
  BY <1>7, CreateCounts
<1>8. ASSUME NEW reply \in replies, Receive(reply) PROVE CountCoversStations'
  BY <1>8, ReceiveCounts
<1>9. ASSUME NEW w \in Workers, DeleteStation(w) PROVE CountCoversStations'
  <2>1. UNCHANGED <<life, counted, replies>>
    BY <1>9 DEF DeleteStation, setVars
  <2>2. \A v \in Workers : hosted'[v] \in Nat /\ hosted[v] \in Nat /\ hosted'[v] <= hosted[v]
    BY <1>9 DEF DeleteStation, TypeOK
  <2> SUFFICES ASSUME NEW v \in Workers, life[v] = "running"
               PROVE  hosted'[v] <= counted[v] + Cardinality(AnswersOf(v, "addedWorkerElement"))
    BY <2>1 DEF CountCoversStations, AnswersOf
  <2>3. hosted[v] <= counted[v] + Cardinality(AnswersOf(v, "addedWorkerElement"))
    BY DEF CountCoversStations
  <2>4. Cardinality(AnswersOf(v, "addedWorkerElement")) \in Nat /\ counted[v] \in Nat
    BY AnswersFinite DEF TypeOK
  <2> QED BY <2>2, <2>3, <2>4
<1>10. ASSUME NEW w \in Workers, WorkerError(w) \/ WorkerExit(w) PROVE CountCoversStations'
  <2>1. \A v \in Workers : life'[v] = "running" => life[v] = "running" \/ v > created
    BY <1>1, <1>10 DEF WorkerError, WorkerExit, TypeOK
  <2> QED BY <1>10, <2>1, CountStays DEF WorkerError, WorkerExit, channelVars
<1>11. CASE TerminateNext
  <2>1. \A v \in Workers : life'[v] = "running" => life[v] = "running"
    BY <1>11 DEF TerminateNext, TypeOK
  <2> QED BY <1>11, <2>1, CountStays DEF TerminateNext
<1> QED BY <1>2, <1>3, <1>4, <1>5, <1>6, <1>7, <1>8, <1>9, <1>10, <1>11
        DEF Next, AddingElement, Working

\* The count compared with elementsPerWorker covers the stations of every live
\* worker (CountCoversStations), for any number of calls: each station that was
\* created has exactly one answer, which raises the count of the worker that
\* created it, unless that worker is gone.
THEOREM Counting == Spec => []CountCoversStations
<1>1. Init => Sleepers /\ OnlyCreatorsAreStranded /\ Fleet /\ Calls /\ Empty /\ CountCoversStations
  BY FS_EmptySet DEF Init, Sleepers, OnlyCreatorsAreStranded, Pending, Fleet, Calls, Empty,
                     CountCoversStations
<1> QED BY <1>1, InitTypes, NextTypes, NextFleet, NextStranded, NextCalls, NextCounts, PTL DEF Spec

=============================================================================
