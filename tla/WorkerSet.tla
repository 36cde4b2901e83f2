----------------------------- MODULE WorkerSet -----------------------------
(***************************************************************************)
(* The worker set of the main thread: worker threads that host charging     *)
(* stations, the calls of addElement that ask for one more station, and the *)
(* map of calls awaiting the answer of their worker.                        *)
(*                                                                          *)
(* The main thread and every worker are event loops of their own; an action *)
(* is a turn of one of them.  Workers are numbered in order of creation,    *)
(* which is the iteration order of the JavaScript Set that holds them.      *)
(***************************************************************************)
EXTENDS Naturals, FiniteSets

CONSTANTS
  Requests,          \* the calls of addElement, one element per uuid
  ElementsPerWorker, \* workerOptions.elementsPerWorker
  MaxWorkers,        \* bound: worker threads ever created
  MaxErrors          \* bound: workers that die of an uncaught exception

ASSUME WorkerSetAssumption ==
  /\ ElementsPerWorker \in Nat \ {0}
  /\ MaxWorkers \in Nat \ {0}
  /\ MaxErrors \in Nat

Workers == 1..MaxWorkers

VARIABLES
  phase,     \* "new", "starting", "started", "stopping", "stopped"
  created,   \* how many workers were ever created
  workerSet, \* the workers in workerSet
  life,      \* per worker thread
  counted,   \* numberOfWorkerElements, as the main thread counts
  hosted,    \* the stations the worker thread really runs
  terminating, \* the worker stop waits for, 0 if none
  request,   \* progress of each call of addElement
  chosen,    \* the worker chosen for it, 0 before
  creators,  \* calls that had to start a worker
  inbox,     \* calls posted to a worker and not processed
  replies    \* answers posted by workers and not received

setVars == <<phase, created, workerSet, life, counted, terminating>>
requestVars == <<request, chosen, creators>>
channelVars == <<hosted, inbox, replies>>
vars == <<setVars, requestVars, channelVars>>

Init ==
  /\ phase = "new" /\ created = 0 /\ workerSet = {} /\ terminating = 0
  /\ life = [w \in Workers |-> "none"]
  /\ counted = [w \in Workers |-> 0] /\ hosted = [w \in Workers |-> 0]
  /\ request = [r \in Requests |-> "idle"] /\ chosen = [r \in Requests |-> 0]
  /\ creators = {}
  /\ inbox = [w \in Workers |-> {}]
  /\ replies = {}

\* Between the end of start and the end of stop, "started" is true.
IsStarted == phase \in {"started", "stopping"}

\* Faulty: the element is registered without starting its thread.
AddWorkerSetElementOnly ==
  /\ created < MaxWorkers
  /\ created' = created + 1
  /\ workerSet' = workerSet \cup {created + 1}
  /\ UNCHANGED life

\* addWorkerSetElement
AddWorkerSetElement ==
  /\ created < MaxWorkers
  /\ created' = created + 1
  /\ workerSet' = workerSet \cup {created + 1}
  /\ life' = [life EXCEPT ![created + 1] = "running"]

\* The calls of promiseResponseMap, and those of one worker.
Pending == {r \in Requests : request[r] = "awaiting"}
PendingOn(w) == {r \in Pending : chosen[r] = w}

Reject(calls) ==
  request' = [r \in Requests |-> IF r \in calls THEN "rejected" ELSE request[r]]

-----------------------------------------------------------------------------
(* start and addElement *)

Start ==
  /\ phase = "new"
  /\ phase' = "starting"
  /\ AddWorkerSetElement
  /\ UNCHANGED <<counted, terminating, requestVars, channelVars>>

\* start resumes after workerStartDelay.
Started ==
  /\ phase = "starting"
  /\ phase' = "started"
  /\ UNCHANGED <<created, workerSet, life, counted, terminating, requestVars, channelVars>>

\* postMessage: a thread that is gone receives nothing.
Post(r, w) ==
  inbox' = [inbox EXCEPT ![w] = IF life[w] = "running" THEN @ \cup {r} ELSE @]

WithRoom == {w \in workerSet : counted[w] < ElementsPerWorker}

\* addElement, when getWorkerSetElement finds a worker with room.
AddElement(r) ==
  /\ request[r] = "idle" /\ IsStarted
  /\ \E w \in WithRoom :
       /\ \A v \in WithRoom : w <= v
       /\ chosen' = [chosen EXCEPT ![r] = w]
       /\ Post(r, w)
  /\ request' = [request EXCEPT ![r] = "awaiting"]
  /\ UNCHANGED <<creators, setVars, hosted, replies>>

\* addElement, when it finds none: start a worker and sleep.
AddElementOnNewWorker(r) ==
  /\ request[r] = "idle" /\ IsStarted /\ WithRoom = {}
  /\ AddWorkerSetElement
  /\ chosen' = [chosen EXCEPT ![r] = created + 1]
  /\ creators' = creators \cup {r}
  /\ request' = [request EXCEPT ![r] = "sleeping"]
  /\ UNCHANGED <<phase, counted, terminating, channelVars>>

\* The sleep of workerStartDelay ends.
AddElementResumed(r) ==
  /\ request[r] = "sleeping"
  /\ request' = [request EXCEPT ![r] = "awaiting"]
  /\ Post(r, chosen[r])
  /\ UNCHANGED <<chosen, creators, setVars, hosted, replies>>

\* addElement before start or after stop throws.
AddElementRefused(r) ==
  /\ request[r] = "idle" /\ ~IsStarted
  /\ request' = [request EXCEPT ![r] = "rejected"]
  /\ UNCHANGED <<chosen, creators, setVars, channelVars>>

-----------------------------------------------------------------------------
(* The worker threads *)

\* ChargingStationWorker creates the station and answers, or answers with the
\* error its constructor threw.
CreateStation(w, r) ==
  /\ life[w] = "running" /\ r \in inbox[w]
  /\ inbox' = [inbox EXCEPT ![w] = @ \ {r}]
  /\ \/ /\ hosted' = [hosted EXCEPT ![w] = @ + 1]
        /\ replies' = replies \cup {[from |-> w, to |-> r, event |-> "addedWorkerElement"]}
     \/ /\ replies' = replies \cup {[from |-> w, to |-> r, event |-> "workerElementError"]}
        /\ UNCHANGED hosted
  /\ UNCHANGED <<setVars, requestVars>>

\* ChargingStation.delete: the count of the main thread is never lowered.
DeleteStation(w) ==
  /\ life[w] = "running" /\ hosted[w] > 0
  /\ hosted' = [hosted EXCEPT ![w] = @ - 1]
  /\ UNCHANGED <<setVars, requestVars, inbox, replies>>

\* Faulty: an error of the worker leaves its call pending.
ReceiveIgnoringErrors(reply) ==
  /\ reply \in replies
  /\ replies' = replies \ {reply}
  /\ IF reply.to \notin Pending \/ reply.event = "workerElementError"
     THEN UNCHANGED <<request, counted>>
     ELSE /\ request' = [request EXCEPT ![reply.to] = "added"]
          /\ counted' = [counted EXCEPT ![chosen[reply.to]] = @ + 1]
  /\ UNCHANGED <<phase, created, workerSet, life, terminating, chosen, creators, hosted, inbox>>

\* Faulty: the handler does not count the new element.
ReceiveUncounted(reply) ==
  /\ reply \in replies
  /\ replies' = replies \ {reply}
  /\ IF reply.to \notin Pending
     THEN UNCHANGED request
     ELSE request' = [request EXCEPT ![reply.to] =
               IF reply.event = "addedWorkerElement" THEN "added" ELSE "rejected"]
  /\ UNCHANGED <<phase, created, workerSet, life, counted, terminating, chosen, creators, hosted, inbox>>

\* The message handler of the main thread; answers to unknown calls are
\* reported and dropped.
Receive(reply) ==
  /\ reply \in replies
  /\ replies' = replies \ {reply}
  /\ IF reply.to \notin Pending
     THEN UNCHANGED <<request, counted>>
     ELSE /\ request' = [request EXCEPT ![reply.to] =
               IF reply.event = "addedWorkerElement" THEN "added" ELSE "rejected"]
          /\ counted' = [counted EXCEPT ![chosen[reply.to]] =
               IF reply.event = "addedWorkerElement" THEN @ + 1 ELSE @]
  /\ UNCHANGED <<phase, created, workerSet, life, terminating, chosen, creators, hosted, inbox>>

Failures == Cardinality({w \in Workers : life[w] \in {"failed", "failedAndGone"}})

\* An uncaught exception ends the thread; the error handler rejects its calls
\* and, while the set is started, starts another worker.
WorkerError(w) ==
  /\ life[w] = "running" /\ Failures < MaxErrors
  /\ Reject(PendingOn(w))
  /\ inbox' = [inbox EXCEPT ![w] = {}]
  /\ IF IsStarted
     THEN /\ created < MaxWorkers
          /\ created' = created + 1
          /\ workerSet' = workerSet \cup {created + 1}
          /\ life' = [life EXCEPT ![w] = "failed", ![created + 1] = "running"]
     ELSE /\ life' = [life EXCEPT ![w] = "failed"]
          /\ UNCHANGED <<created, workerSet>>
  /\ UNCHANGED <<phase, counted, terminating, chosen, creators, hosted, replies>>

\* Faulty: the exit handler only removes the worker.
WorkerExitRemovingOnly(w) ==
  /\ life[w] \in {"failed", "terminated"}
  /\ \A reply \in replies : reply.from # w
  /\ life' = [life EXCEPT ![w] = IF @ = "failed" THEN "failedAndGone" ELSE "gone"]
  /\ workerSet' = workerSet \ {w}
  /\ UNCHANGED <<phase, created, counted, terminating, requestVars, channelVars>>

\* The exit event, after the messages the thread had posted.
WorkerExit(w) ==
  /\ life[w] \in {"failed", "terminated"}
  /\ \A reply \in replies : reply.from # w
  /\ life' = [life EXCEPT ![w] = IF @ = "failed" THEN "failedAndGone" ELSE "gone"]
  /\ Reject(PendingOn(w))
  /\ workerSet' = workerSet \ {w}
  /\ UNCHANGED <<phase, created, counted, terminating, chosen, creators, channelVars>>

-----------------------------------------------------------------------------
(* stop *)

Stop ==
  /\ phase = "started"
  /\ phase' = "stopping"
  /\ UNCHANGED <<created, workerSet, life, counted, terminating, requestVars, channelVars>>

\* The next worker of the iteration: those added meanwhile are visited too.
ToTerminate == {w \in workerSet : w > terminating}

IsGone(w) == life[w] \in {"gone", "failedAndGone"}

\* The worker that stop waits for, if any, has exited.
TerminationDone == \A w \in Workers : w = terminating => IsGone(w)

\* Faulty: the thread is only waited for.
TerminateNextByWaiting ==
  /\ phase = "stopping" /\ TerminationDone
  /\ \E w \in ToTerminate :
       /\ \A v \in ToTerminate : w <= v
       /\ terminating' = w
  /\ UNCHANGED <<phase, created, workerSet, life, counted, requestVars, channelVars>>

\* stop terminates one worker and awaits its exit.
TerminateNext ==
  /\ phase = "stopping" /\ TerminationDone
  /\ \E w \in ToTerminate :
       /\ \A v \in ToTerminate : w <= v
       /\ terminating' = w
       /\ life' = [life EXCEPT ![w] = IF @ = "running" THEN "terminated" ELSE @]
       /\ inbox' = [inbox EXCEPT ![w] = {}]
  /\ UNCHANGED <<phase, created, workerSet, counted, requestVars, hosted, replies>>

\* Faulty: the exit of the last worker is not awaited.
StoppedWithoutWaiting ==
  /\ phase = "stopping"
  /\ ToTerminate = {}
  /\ phase' = "stopped"
  /\ workerSet' = {}
  /\ Reject(Pending)
  /\ UNCHANGED <<created, life, counted, terminating, chosen, creators, channelVars>>

\* stop ends: reject what is still pending, forget the workers.
Stopped ==
  /\ phase = "stopping" /\ TerminationDone
  /\ ToTerminate = {}
  /\ phase' = "stopped"
  /\ workerSet' = {}
  /\ Reject(Pending)
  /\ UNCHANGED <<created, life, counted, terminating, chosen, creators, channelVars>>

AddingElement ==
  \E r \in Requests :
    \/ AddElement(r) \/ AddElementOnNewWorker(r)
    \/ AddElementResumed(r) \/ AddElementRefused(r)

Working ==
  \/ \E w \in Workers, r \in Requests : CreateStation(w, r)
  \/ \E reply \in replies : Receive(reply)
  \/ \E w \in Workers : DeleteStation(w) \/ WorkerError(w) \/ WorkerExit(w)

Next ==
  \/ Start \/ Started \/ AddingElement \/ Working
  \/ Stop \/ TerminateNext \/ Stopped

Spec == Init /\ [][Next]_vars

\* Sleeps end, threads run until they exit, messages and exit events arrive,
\* and stop goes on with its iteration.
Fairness ==
  /\ WF_vars(Started)
  /\ \A r \in Requests : WF_vars(AddElementResumed(r))
  /\ \A w \in Workers : WF_vars(\E r \in Requests : CreateStation(w, r)) /\ WF_vars(WorkerExit(w))
  /\ WF_vars(\E reply \in replies : Receive(reply))
  /\ WF_vars(TerminateNext \/ Stopped)

FairSpec == Spec /\ Fairness

-----------------------------------------------------------------------------
(* Properties *)

Lives == {"none", "running", "failed", "terminated", "gone", "failedAndGone"}

TypeOK ==
  /\ phase \in {"new", "starting", "started", "stopping", "stopped"}
  /\ created \in 0..MaxWorkers /\ workerSet \subseteq 1..created
  /\ life \in [Workers -> Lives]
  /\ \A w \in Workers : life[w] = "none" <=> w > created
  /\ counted \in [Workers -> Nat] /\ hosted \in [Workers -> Nat]
  /\ terminating \in 0..created
  /\ request \in [Requests -> {"idle", "sleeping", "awaiting", "added", "rejected"}]
  /\ chosen \in [Requests -> 0..created] /\ creators \subseteq Requests
  /\ inbox \in [Workers -> SUBSET Requests]
  /\ replies \subseteq [from : Workers, to : Requests,
                        event : {"addedWorkerElement", "workerElementError"}]

\* stop leaves no thread behind: not one started by a concurrent addElement,
\* nor one started to replace a worker that failed meanwhile.
StopLeavesNoWorker == phase = "stopped" => \A w \in Workers : life[w] = "none" \/ IsGone(w)

\* A call can only be left without an answer if it had to start its worker and
\* that worker was gone before the start delay ended: every other pending call
\* belongs to a worker of the set, whose exit would reject it.
OnlyCreatorsAreStranded == \A r \in Pending \ creators : chosen[r] \in workerSet

AnswersOf(w, event) == {reply \in replies : reply.from = w /\ reply.event = event}

\* The count that addElement compares with elementsPerWorker covers every
\* station a live worker runs, but for those whose answer is on its way.
CountCoversStations ==
  \A w \in Workers :
    life[w] = "running" => hosted[w] <= counted[w] + Cardinality(AnswersOf(w, "addedWorkerElement"))

\* A call made of a worker with room is answered or rejected.
CallsOfLiveWorkersSettle ==
  \A r \in Requests :
    (request[r] = "awaiting" /\ r \notin creators) ~> request[r] \in {"added", "rejected"}

\* Once stop has begun it ends, whatever fails or is added in between.
StopEnds == phase = "stopping" ~> phase = "stopped"

=============================================================================
