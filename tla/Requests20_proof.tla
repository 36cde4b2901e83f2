--------------------------- MODULE Requests20_proof ---------------------------
(***************************************************************************)
(* Proofs about Requests20, for every number of EVSEs, stations, requests    *)
(* and initialisations.                                                      *)
(***************************************************************************)
EXTENDS Requests20, FiniteSetTheorems, TLAPS

-----------------------------------------------------------------------------
(* Bags of tasks *)

\* What was in a bag or is added to it makes up the sum.
LEMMA BagSum ==
  ASSUME NEW B, IsABag(B), NEW ts
  PROVE  /\ IsABag(B (+) SetToBag(ts))
         /\ BagToSet(B (+) SetToBag(ts)) = BagToSet(B) \union ts
         /\ \A u \in BagToSet(B) \ ts : (B (+) SetToBag(ts))[u] = B[u]
         /\ \A u \in ts \ BagToSet(B) : (B (+) SetToBag(ts))[u] = 1
  BY DEF IsABag, BagToSet, SetToBag, (+)

\* One copy of a task is taken out: others of it may stay.
LEMMA BagWithout ==
  ASSUME NEW B, IsABag(B), NEW t \in BagToSet(B)
  PROVE  /\ IsABag(B (-) SetToBag({t}))
         /\ BagToSet(B) \ {t} \subseteq BagToSet(B (-) SetToBag({t}))
         /\ BagToSet(B (-) SetToBag({t})) \subseteq BagToSet(B)
         /\ \A u \in BagToSet(B) \ {t} : (B (-) SetToBag({t}))[u] = B[u]
         /\ B[t] = 1 => t \notin BagToSet(B (-) SetToBag({t}))
  BY DEF IsABag, BagToSet, SetToBag, (-)

\* The new tasks are added to those of before, a copy of t aside.
Added(ts) ==
  /\ IsABag(tasks') /\ BagToSet(tasks') = BagToSet(tasks) \union ts
  /\ \A u \in BagToSet(tasks) \ ts : tasks'[u] = tasks[u]
  /\ \A u \in ts \ BagToSet(tasks) : tasks'[u] = 1

Replaced(t, ts) ==
  /\ IsABag(tasks')
  /\ (BagToSet(tasks) \ {t}) \union ts \subseteq BagToSet(tasks')
  /\ BagToSet(tasks') \subseteq BagToSet(tasks) \union ts
  /\ \A u \in BagToSet(tasks) \ ({t} \union ts) : tasks'[u] = tasks[u]
  /\ \A u \in ts \ BagToSet(tasks) : tasks'[u] = 1
  /\ tasks[t] = 1 /\ t \notin ts => t \notin BagToSet(tasks')

LEMMA SpawnAdds ==
  ASSUME IsABag(tasks), NEW ts, tasks' = tasks (+) Spawn(ts)
  PROVE  Added(ts)
  BY BagSum DEF Spawn, Added

LEMMA ReplaceReplaces ==
  ASSUME IsABag(tasks), NEW t \in BagToSet(tasks), NEW ts, tasks' = Replace(t, ts)
  PROVE  Replaced(t, ts)
  <1> DEFINE B == tasks (-) SetToBag({t})
  <1>1. /\ IsABag(B)
        /\ BagToSet(tasks) \ {t} \subseteq BagToSet(B)
        /\ BagToSet(B) \subseteq BagToSet(tasks)
        /\ \A u \in BagToSet(tasks) \ {t} : B[u] = tasks[u]
        /\ tasks[t] = 1 => t \notin BagToSet(B)
    BY BagWithout
  <1>2. tasks' = B (+) SetToBag(ts)
    BY DEF Replace
  <1> HIDE DEF B
  <1>3. /\ IsABag(tasks')
        /\ BagToSet(tasks') = BagToSet(B) \union ts
        /\ \A u \in BagToSet(B) \ ts : tasks'[u] = B[u]
        /\ \A u \in ts \ BagToSet(B) : tasks'[u] = 1
    BY <1>1, <1>2, BagSum
  <1> QED
    BY <1>1, <1>3 DEF Replaced

\* A copy of t gives way to several tasks, one after the other.
LEMMA ReplaceSpawns ==
  ASSUME IsABag(tasks), NEW t \in BagToSet(tasks), NEW ts,
         tasks' = Replace(t, {}) (+) SetToBag(ts)
  PROVE  Replaced(t, ts)
  <1> DEFINE B == tasks (-) SetToBag({t})
             C == B (+) SetToBag({})
  <1>1. /\ IsABag(B)
        /\ BagToSet(tasks) \ {t} \subseteq BagToSet(B)
        /\ BagToSet(B) \subseteq BagToSet(tasks)
        /\ \A u \in BagToSet(tasks) \ {t} : B[u] = tasks[u]
        /\ tasks[t] = 1 => t \notin BagToSet(B)
    BY BagWithout
  <1>2. tasks' = C (+) SetToBag(ts)
    BY DEF Replace
  <1> HIDE DEF B
  <1>3. IsABag(C) /\ BagToSet(C) = BagToSet(B) /\ \A u \in BagToSet(B) : C[u] = B[u]
    <2>1. PICK no : no = {}
      OBVIOUS
    <2>2. /\ IsABag(B (+) SetToBag(no)) /\ BagToSet(B (+) SetToBag(no)) = BagToSet(B) \union no
          /\ \A u \in BagToSet(B) \ no : (B (+) SetToBag(no))[u] = B[u]
      BY <1>1, BagSum
    <2> QED
      BY <2>1, <2>2
  <1> HIDE DEF C
  <1>4. /\ IsABag(tasks')
        /\ BagToSet(tasks') = BagToSet(C) \union ts
        /\ \A u \in BagToSet(C) \ ts : tasks'[u] = C[u]
        /\ \A u \in ts \ BagToSet(C) : tasks'[u] = 1
    BY <1>2, <1>3, BagSum
  <1> QED
    BY <1>1, <1>3, <1>4 DEF Replaced

\* Two sets of tasks that share none are added.
LEMMA SpawnsAdd ==
  ASSUME IsABag(tasks), NEW ts, NEW us, ts \cap us = {},
         tasks' = (tasks (+) Spawn(ts)) (+) SetToBag(us)
  PROVE  Added(ts \union us)
  <1> DEFINE B == tasks (+) SetToBag(ts)
  <1>1. /\ IsABag(B) /\ BagToSet(B) = BagToSet(tasks) \union ts
        /\ \A u \in BagToSet(tasks) \ ts : B[u] = tasks[u]
        /\ \A u \in ts \ BagToSet(tasks) : B[u] = 1
    BY BagSum
  <1>2. tasks' = B (+) SetToBag(us)
    BY DEF Spawn
  <1> HIDE DEF B
  <1>3. /\ IsABag(tasks') /\ BagToSet(tasks') = BagToSet(B) \union us
        /\ \A u \in BagToSet(B) \ us : tasks'[u] = B[u]
        /\ \A u \in us \ BagToSet(B) : tasks'[u] = 1
    BY <1>1, <1>2, BagSum
  <1> QED
    BY <1>1, <1>3 DEF Added

-----------------------------------------------------------------------------
(* The inductive invariant of the types *)

Generations == 0..generation

TxProfileIds == [transaction : TransactionIds, names : BOOLEAN]
Stops20 == [of : Connectors20, evse : Connectors20]
Places20 == [evse : Connectors20, generation : Generations]
Statuses20 == {"none", "Available", "Occupied", "Unavailable"}

StartTasks == [op : {"start"}, evse : Connectors20, id : TransactionIds,
               generation : Generations, profile : SUBSET TxProfileIds]
StopTasks == [op : {"stop"}, for : {"request", "reset"}, evse : {Whole} \union Connectors20,
              generation : Generations, waits : SUBSET Stops20, frees : SUBSET Places20]
NotifyTasks == [op : {"notify"}, evse : Connectors20, status : {"Available", "Unavailable"},
                generation : Generations]
DownTasks == [op : {"down"}, todo : Nat, generation : Generations]
BootTasks == [op : {"boot"}, todo : Evses, generation : Generations, status : Statuses20]

\* A task is one the handlers suspend, of this or an earlier initialisation, on
\* connectors and transactions there are.
TaskOK(t) ==
  /\ t.op \in {"start", "stop", "notify", "timer", "down", "boot", "sleep", "monitor"}
  /\ t.op = "start" => t \in StartTasks
  /\ t.op = "stop" => t \in StopTasks
  /\ t.op = "notify" => t \in NotifyTasks
  /\ t.op = "down" => t \in DownTasks
  /\ t.op = "boot" => t \in BootTasks
  /\ t.op = "timer" => t.evse \in Connectors20
  /\ t.op = "monitor" => t.evse \in {Whole} \union Connectors20

TasksOK == \A t \in BagToSet(tasks) : TaskOK(t)

Counters ==
  evseOf \in Seq(Connectors20) /\ ended \in Seq(Nat) /\ Len(ended) = Len(evseOf)

\* The connectors have the numbers of the template until the first replacement
\* by those of the file, and the number 0 afterwards.
Numbering ==
  \/ generation = 0 /\ connectorOf = [e \in Connectors20 |-> e]
  \/ generation > 0 /\ connectorOf = [e \in Connectors20 |-> 0]

\* A connector, now and in the file, has a transaction that was started on it.
Owned ==
  \A o \in Connectors20 :
    /\ tx[o] # None => evseOf[tx[o]] = o
    /\ saved.tx[o] # None => evseOf[saved.tx[o]] = o

Base == TypeOK /\ Counters /\ TasksOK /\ Numbering /\ Owned

LEMMA EvsesAreNat == Evses \subseteq Nat \ {0} /\ IsFiniteSet(Connectors20)
  <1>1. IsFiniteSet(Evses) /\ Cardinality(Evses) \in Nat
    BY RequestsAssumption, FS_CardinalityType
  <1>2. IsFiniteSet({0} \union Evses)
    BY <1>1, FS_Singleton, FS_Union
  <1> QED
    BY <1>1, <1>2, RequestsAssumption DEF Connectors20

\* What getConnectorStatus finds for the number of a connector: the connector or,
\* when all have the number 0, that of the station.
LEMMA Places ==
  ASSUME Base, NEW e \in Connectors20
  PROVE  /\ ConnectorStatus(connectorOf[e]) \in Connectors20
         /\ generation = 0 => ConnectorStatus(connectorOf[e]) = e
         /\ generation > 0 => ConnectorStatus(connectorOf[e]) = 0
  <1> DEFINE N == Numbered(connectorOf[e])
  <1>0. Connectors20 \subseteq Nat /\ 0 \in Connectors20 /\ generation \in Nat
    BY EvsesAreNat, RequestsAssumption DEF Connectors20, Base, TypeOK
  <1>1. CASE generation = 0
    <2>1. N = {e}
      BY <1>1 DEF Base, Numbering, Numbered
    <2>2. \A f \in N : e <= f
      BY <1>0, <2>1
    <2> QED
      BY <1>0, <1>1, <2>1, <2>2 DEF ConnectorStatus
  <1>2. CASE generation > 0
    <2>0. connectorOf = [f \in Connectors20 |-> 0]
      BY <1>0, <1>2 DEF Base, Numbering
    <2>1. connectorOf[e] = 0 /\ Numbered(0) = Connectors20
      BY <2>0 DEF Numbered
    <2>2. \A f \in Connectors20 : 0 <= f
      BY <1>0
    <2>3. \A f \in Connectors20 : f <= 0 => f = 0
      BY <1>0
    <2>4. (CHOOSE f \in Connectors20 : \A g \in Connectors20 : f <= g) = 0
      BY <1>0, <2>2, <2>3
    <2>5. ConnectorStatus(0) = 0
      BY <2>1, <2>4 DEF ConnectorStatus
    <2> QED
      BY <1>0, <1>2, <2>1, <2>5
  <1> QED
    BY <1>0, <1>1, <1>2

\* The connector the Available of a stop goes to.
LEMMA FreedPlaces ==
  ASSUME Base, NEW o \in Connectors20
  PROVE  /\ Freed(o) \subseteq Places20
         /\ generation = 0 => [evse |-> o, generation |-> generation] \in Freed(o)
  <1>0. generation \in Nat /\ generation \in Generations /\ 0 \in Connectors20
    BY RequestsAssumption DEF Base, TypeOK, Generations, Connectors20
  <1>1. CASE generation = 0
    <2>1. connectorOf[o] = o
      BY <1>1 DEF Base, Numbering
    <2>2. ConnectorStatus(o) = o /\ o \in Numbered(o)
      BY <1>1, <2>1, Places DEF Numbered
    <2>3. Freed(o) = {[evse |-> o, generation |-> generation]}
      BY <2>2 DEF Freed
    <2> QED
      BY <1>0, <2>3 DEF Places20
  <1>2. CASE generation > 0
    <2>1. connectorOf = [e \in Connectors20 |-> 0]
      BY <1>0, <1>2 DEF Base, Numbering
    <2>2. CASE o = 0
      <3>1. ConnectorStatus(o) \in Connectors20
        BY <1>0, <2>1, <2>2, Places
      <3> QED
        BY <1>0, <1>2, <3>1 DEF Freed, Places20
    <2>3. CASE o # 0
      <3>1. Numbered(o) = {}
        BY <2>1, <2>3 DEF Numbered
      <3> QED
        BY <1>0, <1>2, <3>1 DEF Freed
    <2> QED
      BY <2>2, <2>3
  <1> QED
    BY <1>0, <1>1, <1>2

\* A task stays what it is as generations and transactions are added.
LEMMA TasksStayOK ==
  ASSUME TasksOK, generation \in Nat, generation' \in Nat, generation <= generation',
         TransactionIds \subseteq TransactionIds',
         NEW ts, \A u \in ts : TaskOK(u)', BagToSet(tasks') \subseteq BagToSet(tasks) \union ts
  PROVE  TasksOK'
  <1>1. Generations \subseteq Generations'
    BY DEF Generations
  <1>2. ASSUME NEW t, TaskOK(t) PROVE TaskOK(t)'
    <2>1. StartTasks \subseteq StartTasks'
      <3>1. TxProfileIds \subseteq TxProfileIds'
        BY DEF TxProfileIds
      <3> QED
        BY <1>1, <3>1 DEF StartTasks
    <2>2. StopTasks \subseteq StopTasks'
      <3>1. Places20 \subseteq Places20' /\ Stops20' = Stops20
        BY <1>1 DEF Places20, Stops20
      <3> QED
        BY <1>1, <3>1 DEF StopTasks
    <2>3. NotifyTasks \subseteq NotifyTasks'
      BY <1>1 DEF NotifyTasks
    <2>4. DownTasks \subseteq DownTasks' /\ BootTasks \subseteq BootTasks'
      BY <1>1 DEF DownTasks, BootTasks
    <2> QED
      BY <1>2, <2>1, <2>2, <2>3, <2>4 DEF TaskOK
  <1> QED
    BY <1>2 DEF TasksOK

\* What every step but the start of a transaction and an initialisation does.
Ordinary(ts) ==
  /\ UNCHANGED <<generation, connectorOf, evseOf>>
  /\ life' \in {"up", "stopping", "wedged", "down"} /\ registered' \in BOOLEAN
  /\ tx' \in [Connectors20 -> {None} \union TransactionIds]
  /\ \A o \in Connectors20 : tx'[o] \in {tx[o], None}
  /\ saved' \in {saved, EvsesStatus} /\ linked' \in BOOLEAN
  /\ status' \in [Connectors20 -> Statuses20]
  /\ profiles' \in [Connectors20 -> SUBSET TxProfileIds]
  /\ late' \subseteq Connectors20
  /\ ended' \in Seq(Nat) /\ Len(ended') = Len(ended)
  /\ IsABag(tasks') /\ BagToSet(tasks') \subseteq BagToSet(tasks) \union ts
  /\ \A u \in ts : TaskOK(u)

LEMMA OrdinaryBase ==
  ASSUME Base, NEW ts, Ordinary(ts)
  PROVE  Base'
  <1> USE DEF Base
  <1>0. generation \in Nat /\ generation' = generation /\ evseOf' = evseOf
    BY RequestsAssumption DEF TypeOK, Ordinary
  <1>1. TransactionIds' = TransactionIds /\ Len(evseOf) \in Nat
    BY <1>0 DEF TransactionIds, Counters
  <1>2. Counters'
    BY <1>0 DEF Counters, Ordinary
  <1>3. TasksOK'
    <2>0. Generations' = Generations
      BY <1>0 DEF Generations
    <2>2. StartTasks' = StartTasks /\ StopTasks' = StopTasks
      BY <1>1, <2>0 DEF StartTasks, StopTasks, TxProfileIds, Stops20, Places20
    <2>3. NotifyTasks' = NotifyTasks /\ DownTasks' = DownTasks /\ BootTasks' = BootTasks
      BY <2>0 DEF NotifyTasks, DownTasks, BootTasks
    <2>4. \A u \in ts : TaskOK(u)'
      <3>1. \A u \in ts : TaskOK(u)
        BY DEF Ordinary
      <3> HIDE DEF Base
      <3> QED
        BY <1>0, <2>2, <2>3, <3>1 DEF TaskOK
    <2>5. /\ TasksOK /\ generation' \in Nat /\ generation <= generation'
          /\ TransactionIds \subseteq TransactionIds'
          /\ BagToSet(tasks') \subseteq BagToSet(tasks) \union ts
      BY <1>0, <1>1 DEF Ordinary
    <2> QED
      BY <1>0, <2>4, <2>5, TasksStayOK
  <1>4. Numbering'
    BY <1>0 DEF Numbering, Ordinary
  <1>5. Owned'
    BY <1>0 DEF Owned, Ordinary, EvsesStatus
  <1>7. DOMAIN ended' = TransactionIds'
    BY <1>0, <1>1 DEF TransactionIds, Counters, Ordinary
  <1>8. TypeOK'
    <2>1. saved' \in [tx : [Connectors20 -> {None} \union TransactionIds],
                        status : [Connectors20 -> Statuses20]]
      BY DEF TypeOK, Ordinary, EvsesStatus, Statuses20
    <2> QED
      BY <1>0, <1>1, <1>7, <2>1 DEF TypeOK, Ordinary, Statuses20, TxProfileIds
  <1> QED
    BY <1>2, <1>3, <1>4, <1>5, <1>8

\* The part of it that the variables a step leaves alone do on their own.
LEMMA BaseStays ==
  ASSUME Base
  PROVE  /\ UNCHANGED <<life, registered>> =>
              life' \in {"up", "stopping", "wedged", "down"} /\ registered' \in BOOLEAN
         /\ UNCHANGED tx =>
              /\ tx' \in [Connectors20 -> {None} \union TransactionIds]
              /\ \A o \in Connectors20 : tx'[o] \in {tx[o], None}
         /\ UNCHANGED <<saved, linked>> => saved' \in {saved, EvsesStatus} /\ linked' \in BOOLEAN
         /\ UNCHANGED status => status' \in [Connectors20 -> Statuses20]
         /\ UNCHANGED profiles => profiles' \in [Connectors20 -> SUBSET TxProfileIds]
         /\ UNCHANGED late => late' \subseteq Connectors20
         /\ UNCHANGED ended => ended' \in Seq(Nat) /\ Len(ended') = Len(ended)
         /\ IsABag(tasks)
  BY DEF Base, TypeOK, Counters, Statuses20, TxProfileIds

-----------------------------------------------------------------------------
(* The steps that begin, stop and show no transaction *)

\* Statuses change, but none to Occupied.
StatusCalm ==
  /\ status' \in [Connectors20 -> Statuses20]
  /\ \A o \in Connectors20 : status'[o] = status[o] \/ status'[o] # "Occupied"

\* No connector gets a charging profile.
ProfilesCalm ==
  /\ profiles' \in [Connectors20 -> SUBSET TxProfileIds]
  /\ \A o \in Connectors20 : profiles'[o] \subseteq profiles[o]

\* The stop of a transaction that waits for an answer.
Pending(u) == u.op = "stop" /\ (u.waits # {} \/ u.frees # {})

StopsStay ==
  \A u \in BagToSet(tasks) : Pending(u) => u \in BagToSet(tasks') /\ tasks'[u] = tasks[u]

\* The tasks a step spawns when it begins no stop of a transaction.
Plain(ts) == \A u \in ts : TaskOK(u) /\ u.op # "stop"

Calm(ts) ==
  /\ Ordinary(ts) /\ Plain(ts)
  /\ UNCHANGED <<tx, ended, late>>
  /\ StatusCalm /\ ProfilesCalm /\ StopsStay

\* What every one of these steps leaves alone or sets within its type.
CalmVariables ==
  /\ UNCHANGED <<generation, connectorOf, evseOf, tx, ended, late>>
  /\ life' \in {"up", "stopping", "wedged", "down"} /\ registered' \in BOOLEAN
  /\ saved' \in {saved, EvsesStatus} /\ linked' \in BOOLEAN
  /\ StatusCalm /\ ProfilesCalm

LEMMA CalmAdd ==
  ASSUME Base, NEW ts, Plain(ts), Added(ts), CalmVariables
  PROVE  Calm(ts)
  <1>1. Ordinary(ts)
    BY BaseStays DEF Ordinary, Added, CalmVariables, StatusCalm, ProfilesCalm, Plain
  <1>2. StopsStay
    BY DEF StopsStay, Pending, Added, Plain
  <1> QED
    BY <1>1, <1>2 DEF Calm, CalmVariables

LEMMA CalmReplace ==
  ASSUME Base, NEW t \in BagToSet(tasks), ~Pending(t), NEW ts, Plain(ts),
         Replaced(t, ts), CalmVariables
  PROVE  Calm(ts)
  <1>1. Ordinary(ts)
    BY BaseStays DEF Ordinary, Replaced, CalmVariables, StatusCalm, ProfilesCalm, Plain
  <1>2. StopsStay
    BY DEF StopsStay, Pending, Replaced, Plain
  <1> QED
    BY <1>1, <1>2 DEF Calm, CalmVariables

LEMMA CalmNothing ==
  ASSUME Base, UNCHANGED tasks, CalmVariables
  PROVE  Calm({})
  <1>1. Plain({}) /\ IsABag(tasks) /\ StopsStay
    BY DEF Plain, Base, TypeOK, StopsStay
  <1>2. Ordinary({})
    BY <1>1, BaseStays DEF Ordinary, CalmVariables, StatusCalm, ProfilesCalm, Plain
  <1> QED
    BY <1>1, <1>2 DEF Calm, CalmVariables

LEMMA StatusStays == ASSUME Base, UNCHANGED status PROVE StatusCalm
  BY BaseStays DEF StatusCalm

LEMMA ProfilesStay == ASSUME Base, UNCHANGED profiles PROVE ProfilesCalm
  BY BaseStays DEF ProfilesCalm

\* The tasks the handlers spawn.
LEMMA PlainTasks ==
  ASSUME Base
  PROVE  /\ \A e \in Connectors20, st \in {"Available", "Unavailable"} :
              TaskOK(Notification(e, st)) /\ Notification(e, st).op = "notify"
         /\ \A e \in Connectors20 : TaskOK(Timer(e)) /\ Timer(e).op = "timer"
         /\ TaskOK([op |-> "sleep"])
         /\ TaskOK([op |-> "down", todo |-> 1, generation |-> generation])
         /\ \A e \in Nat : \A u \in Booting(e) : TaskOK(u) /\ u.op = "boot"
         /\ \A target \in {Whole} \union Connectors20 :
              TaskOK(Monitor(target)) /\ Monitor(target).op = "monitor"
  <1>0. generation \in Generations /\ status \in [Connectors20 -> Statuses20]
    BY RequestsAssumption DEF Generations, Base, TypeOK, Statuses20
  <1>1. ASSUME NEW e \in Connectors20, NEW st \in {"Available", "Unavailable"}
        PROVE  TaskOK(Notification(e, st)) /\ Notification(e, st).op = "notify"
    <2>1. ConnectorStatus(connectorOf[e]) \in Connectors20
      BY Places
    <2> QED
      BY <1>0, <2>1 DEF Notification, TaskOK, NotifyTasks
  <1>2. \A e \in Connectors20 : TaskOK(Timer(e)) /\ Timer(e).op = "timer"
    BY DEF Timer, TaskOK
  <1>3. TaskOK([op |-> "sleep"])
    BY DEF TaskOK
  <1>4. TaskOK([op |-> "down", todo |-> 1, generation |-> generation])
    BY <1>0 DEF TaskOK, DownTasks
  <1>6. ASSUME NEW e \in Nat, NEW u \in Booting(e)
        PROVE  TaskOK(u) /\ u.op = "boot"
    <2>1. e \in Evses /\ e \in Connectors20
      BY DEF Booting, Connectors20
    <2>2. u = [op |-> "boot", todo |-> e, generation |-> generation,
               status |-> IF status[e] = "none" THEN "Available" ELSE status[e]]
      BY <2>1 DEF Booting
    <2>3. u \in BootTasks
      BY <1>0, <2>1, <2>2 DEF BootTasks, Statuses20
    <2> QED
      BY <2>2, <2>3 DEF TaskOK
  <1>5. \A target \in {Whole} \union Connectors20 :
          TaskOK(Monitor(target)) /\ Monitor(target).op = "monitor"
    BY DEF Monitor, TaskOK
  <1> QED
    BY <1>1, <1>2, <1>3, <1>4, <1>5, <1>6

\* A reset of the station sleeps, sweeps the connectors or is stuck.
LEMMA CallResetSpawns ==
  ASSUME Base
  PROVE  /\ CallReset.life \in {"up", "stopping", "wedged", "down"}
         /\ \E ts : /\ CallReset.spawned = SetToBag(ts) /\ Plain(ts)
                    /\ \A u \in ts : u.op # "notify"
  <1> DEFINE sleep == [op |-> "sleep"]
             down == [op |-> "down", todo |-> 1, generation |-> generation]
  <1>1. Plain({sleep}) /\ Plain({down}) /\ Plain({}) /\ sleep.op # "notify" /\ down.op # "notify"
    BY PlainTasks DEF Plain
  <1>2. CallReset.life \in {"up", "stopping", "wedged", "down"}
    BY DEF CallReset, Base, TypeOK
  <1>3. \/ CallReset.spawned = SetToBag({sleep})
        \/ CallReset.spawned = SetToBag({})
        \/ CallReset.spawned = SetToBag({down})
    BY DEF CallReset, Spawn, EmptyBag
  <1> HIDE DEF sleep, down
  <1> QED
    BY <1>1, <1>2, <1>3

\* A reset of an EVSE notifies it and sets a timer.
LEMMA ScheduleSpawns ==
  ASSUME Base, NEW e \in Connectors20
  PROVE  \E ts : ScheduleEvseReset(e) = SetToBag(ts) /\ Plain(ts)
  <1> DEFINE ts == {Notification(e, "Unavailable"), Timer(e)}
  <1>1. Plain(ts)
    BY PlainTasks DEF Plain
  <1>2. ScheduleEvseReset(e) = SetToBag(ts)
    BY DEF ScheduleEvseReset, Spawn
  <1> QED
    BY <1>1, <1>2

\* What a refused start, a stop that finds nothing, a report or a save does.
LEMMA CalmRest ==
  ASSUME Base, UNCHANGED <<life, registered, generation, connectorOf, connectorVars, tasks, evseOf, ended, late>>,
         saved' \in {saved, EvsesStatus}, linked' \in BOOLEAN
  PROVE  \E ts : Calm(ts)
  <1>1. CalmVariables
    BY BaseStays, StatusStays, ProfilesStay DEF CalmVariables, connectorVars
  <1> QED
    BY <1>1, CalmNothing

\* A Reset on idle, and an immediate one of what has no transaction.
LEMMA CalmReset ==
  ASSUME Base, NEW target \in {Whole} \union Connectors20,
         IF target = Whole THEN Reset20
         ELSE tasks' = tasks (+) ScheduleEvseReset(target) /\ UNCHANGED life,
         UNCHANGED <<registered, generation, connectorOf, saved, linked, connectorVars, evseOf, ended, late>>
  PROVE  \E ts : Calm(ts)
  <1>0. IsABag(tasks) /\ StatusCalm /\ ProfilesCalm /\ linked \in BOOLEAN
    BY StatusStays, ProfilesStay DEF Base, TypeOK, connectorVars
  <1>1. PICK ts : Plain(ts) /\ tasks' = tasks (+) SetToBag(ts)
    BY CallResetSpawns, ScheduleSpawns DEF Reset20
  <1>2. Added(ts)
    BY <1>0, <1>1, SpawnAdds DEF Spawn
  <1>3. life' \in {"up", "stopping", "wedged", "down"} /\ registered' \in BOOLEAN
    BY CallResetSpawns DEF Base, TypeOK, Reset20
  <1>4. CalmVariables
    BY <1>0, <1>3 DEF CalmVariables, connectorVars
  <1> QED
    BY <1>1, <1>2, <1>4, CalmAdd

LEMMA CalmResetOnIdle ==
  ASSUME Base, ResetOnIdle
  PROVE  \E ts : Calm(ts)
  <1>1. PICK target \in OnIdles :
          /\ IF Busy(target) THEN tasks' = tasks (+) Spawn({Monitor(target)}) /\ UNCHANGED life
             ELSE IF target = Whole THEN Reset20
             ELSE tasks' = tasks (+) ScheduleEvseReset(target) /\ UNCHANGED life
          /\ UNCHANGED <<registered, generation, connectorOf, saved, linked, connectorVars, evseOf, ended, late>>
    BY DEF ResetOnIdle
  <1>2. target \in {Whole} \union Connectors20 /\ IsABag(tasks)
    BY RequestsAssumption DEF Base, TypeOK
  <1>3. CASE Busy(target)
    <2>1. Added({Monitor(target)})
      BY <1>1, <1>2, <1>3, SpawnAdds
    <2>2. Plain({Monitor(target)})
      BY <1>2, PlainTasks DEF Plain
    <2>3. CalmVariables
      BY <1>1, <1>3, BaseStays, StatusStays, ProfilesStay DEF CalmVariables, connectorVars
    <2> QED
      BY <2>1, <2>2, <2>3, CalmAdd
  <1>4. CASE ~Busy(target)
    BY <1>1, <1>2, <1>4, CalmReset
  <1> QED
    BY <1>3, <1>4

\* The BootNotification is answered.
LEMMA CalmRegister ==
  ASSUME Base, Register
  PROVE  \E ts : Calm(ts)
  <1>1. Added(Booting(1))
    BY SpawnAdds DEF Register, Base, TypeOK
  <1>2. Plain(Booting(1))
    BY PlainTasks DEF Plain
  <1>3. CalmVariables
    <2>1. linked' \in BOOLEAN /\ saved' = EvsesStatus /\ registered' \in BOOLEAN
      BY DEF Register, Base, TypeOK
    <2> QED
      BY <2>1, BaseStays, StatusStays, ProfilesStay DEF Register, CalmVariables, connectorVars
  <1> QED
    BY <1>1, <1>2, <1>3, CalmAdd

\* The end of a stop of transactions: the request is answered or the reset begins.
LEMMA CalmStopped ==
  ASSUME Base, NEW t \in BagToSet(tasks), Stopped20(t) \/ Terminate(t) \/ BecomesIdle(t)
  PROVE  \E ts : Calm(ts)
  <1>0. /\ IsABag(tasks) /\ StatusCalm /\ ProfilesCalm /\ linked \in BOOLEAN /\ ~Pending(t) /\ TaskOK(t)
        /\ UNCHANGED <<registered, generation, connectorOf, saved, linked, connectorVars, evseOf, ended, late>>
    BY StatusStays, ProfilesStay DEF Base, TypeOK, TasksOK, connectorVars, stationVars, Stopped20, Terminate,
      BecomesIdle, Pending
  <1>1. CASE Stopped20(t)
    <2>1. Replaced(t, {}) /\ Plain({})
      BY <1>0, <1>1, ReplaceReplaces DEF Stopped20, Plain
    <2>2. CalmVariables
      BY <1>0, <1>1, BaseStays DEF Stopped20, CalmVariables, connectorVars, stationVars
    <2> QED
      BY <1>0, <2>1, <2>2, CalmReplace
  <1>2. ASSUME t.evse = Whole \/ t.evse \in Connectors20,
               IF t.evse = Whole
               THEN life' = CallReset.life /\ tasks' = Replace(t, {}) (+) CallReset.spawned
               ELSE tasks' = Replace(t, {}) (+) ScheduleEvseReset(t.evse) /\ UNCHANGED life
        PROVE  \E ts : Calm(ts)
    <2>1. PICK ts : Plain(ts) /\ tasks' = Replace(t, {}) (+) SetToBag(ts)
      BY <1>2, CallResetSpawns, ScheduleSpawns
    <2>2. Replaced(t, ts)
      BY <1>0, <2>1, ReplaceSpawns
    <2>3. life' \in {"up", "stopping", "wedged", "down"} /\ registered' \in BOOLEAN
      BY <1>0, <1>2, CallResetSpawns DEF Base, TypeOK
    <2>4. CalmVariables
      BY <1>0, <2>3 DEF CalmVariables, connectorVars
    <2> QED
      BY <1>0, <2>1, <2>2, <2>4, CalmReplace
  <1>3. CASE Terminate(t)
    <2>1. t.evse = Whole \/ t.evse \in Connectors20
      BY <1>0, <1>3 DEF Terminate, TaskOK, StopTasks
    <2> QED
      BY <1>2, <1>3, <2>1 DEF Terminate
  <1>4. CASE BecomesIdle(t)
    <2>1. t.evse = Whole \/ t.evse \in Connectors20
      BY <1>0, <1>4 DEF BecomesIdle, TaskOK
    <2> QED
      BY <1>2, <1>4, <2>1 DEF BecomesIdle
  <1> QED
    BY <1>1, <1>3, <1>4

\* The timer of a reset of an EVSE, the answers to notifications, the sweep over the
\* connectors of a stop, and an initialisation that finds the connectors in the cache.
LEMMA CalmTasks ==
  ASSUME Base, NEW t \in BagToSet(tasks),
         Restore(t) \/ Notified20(t) \/ Down(t) \/ StopEnds(t) \/ Reinitialize(t)
  PROVE  \E ts : Calm(ts)
  <1>0. /\ IsABag(tasks) /\ TaskOK(t) /\ ~Pending(t) /\ Evses \subseteq Connectors20
        /\ status \in [Connectors20 -> Statuses20] /\ generation \in Nat
        /\ life \in {"up", "stopping", "wedged", "down"} /\ registered \in BOOLEAN /\ linked \in BOOLEAN
    BY RequestsAssumption DEF Base, TypeOK, TasksOK, Pending, Restore, Notified20, Down, StopEnds, Reinitialize,
      Statuses20, Connectors20
  <1>1. CASE Restore(t)
    <2> DEFINE ts == Restores(t.evse)
    <2>1. t.evse \in Connectors20
      BY <1>0, <1>1 DEF Restore, TaskOK
    <2>2. Plain(ts)
      BY <2>1, PlainTasks DEF Restores, Plain
    <2>3. Replaced(t, ts)
      BY <1>0, <1>1, ReplaceReplaces DEF Restore
    <2>4. CalmVariables
      BY <1>0, <1>1, StatusStays, ProfilesStay DEF Restore, CalmVariables, stationVars, connectorVars
    <2> QED
      BY <1>0, <2>2, <2>3, <2>4, CalmReplace
  <1>2. CASE Notified20(t)
    <2>1. t \in NotifyTasks
      BY <1>0, <1>2 DEF Notified20, TaskOK
    <2>2. t.evse \in Connectors20 /\ t.status \in {"Available", "Unavailable"}
      BY <2>1 DEF NotifyTasks
    <2>3. Replaced(t, {}) /\ Plain({})
      BY <1>0, <1>2, ReplaceReplaces DEF Notified20, Plain
    <2>5. StatusCalm /\ ProfilesCalm
      BY <1>0, <1>2, <2>2, ProfilesStay DEF Notified20, StatusCalm, Statuses20
    <2>6. CalmVariables
      BY <1>0, <1>2, <2>5 DEF Notified20, CalmVariables, stationVars
    <2> QED
      BY <1>0, <2>3, <2>6, CalmReplace
  <1>3. CASE Down(t)
    <2> DEFINE e == t.todo
               o == ConnectorStatus(connectorOf[e])
               u == [op |-> "down", todo |-> e + 1, generation |-> generation]
    <2>1. t \in DownTasks /\ e \in Connectors20 /\ generation \in Generations /\ e + 1 \in Nat
      <3>1. t \in DownTasks /\ e \in Evses
        BY <1>0, <1>3 DEF Down, TaskOK
      <3>2. e \in Nat
        BY <3>1, EvsesAreNat
      <3>3. \A n \in Nat : n + 1 \in Nat
        OBVIOUS
      <3>4. e + 1 \in Nat
        BY <3>2, <3>3, Zenon
      <3> QED
        BY <1>0, <3>1, <3>4 DEF Generations
    <2>2. o \in Connectors20
      BY <2>1, Places
    <2>3. u \in DownTasks /\ u.op = "down"
      BY <2>1 DEF DownTasks
    <2>4. Plain({u}) /\ Replaced(t, {u})
      BY <1>0, <1>3, <2>3, ReplaceReplaces DEF Down, Plain, TaskOK
    <2>5. StatusCalm /\ ProfilesCalm
      <3>1. CASE Current(t)
        <4>1. status' = [[status EXCEPT ![o] = "Unavailable"] EXCEPT ![e] = "none"] /\ UNCHANGED profiles
          BY <1>3, <3>1 DEF Down
        <4> HIDE DEF e, o
        <4> QED
          BY <1>0, <2>1, <2>2, <4>1, ProfilesStay DEF StatusCalm, Statuses20
      <3>2. CASE ~Current(t)
        BY <1>3, <3>2, StatusStays, ProfilesStay DEF Down
      <3> QED
        BY <3>1, <3>2
    <2>6. CalmVariables
      BY <1>0, <1>3, <2>5 DEF Down, CalmVariables, stationVars
    <2> QED
      BY <1>0, <2>4, <2>6, CalmReplace
  <1>4. CASE StopEnds(t)
    <2> DEFINE sleep == [op |-> "sleep"]
    <2>1. Replaced(t, {sleep}) /\ Plain({sleep})
      BY <1>0, <1>4, ReplaceReplaces, PlainTasks DEF StopEnds, Plain
    <2>2. CalmVariables
      BY <1>0, <1>4, StatusStays, ProfilesStay DEF StopEnds, CalmVariables, connectorVars
    <2> QED
      BY <1>0, <2>1, <2>2, CalmReplace
  <1>5. CASE Reinitialize(t)
    <2>1. Replaced(t, {}) /\ Plain({})
      BY <1>0, <1>5, ReplaceReplaces DEF Reinitialize, Plain
    <2>2. StatusCalm /\ ProfilesCalm
      BY <1>5, StatusStays DEF Reinitialize, ProfilesCalm
    <2>3. life' \in {"up", "stopping", "wedged", "down"}
      BY <1>0, <1>5 DEF Reinitialize, Started
    <2>4. CalmVariables
      BY <1>0, <1>5, <2>2, <2>3 DEF Reinitialize, CalmVariables
    <2> QED
      BY <1>0, <2>1, <2>4, CalmReplace
  <1> QED
    BY <1>1, <1>2, <1>3, <1>4, <1>5

-----------------------------------------------------------------------------
(* Stops on their way *)

\* Some of what a stop has found leads to a connector.
On(o, found) == \E w \in found : w.evse = o

\* The stops whose Ended event for the transaction of a connector is not answered.
Waits(o) == {t \in BagToSet(tasks) : t.op = "stop" /\ Current(t) /\ On(o, t.waits)}

\* Nothing else of it leads there.
Once(o, found) == \A v, w \in found : v.evse = o /\ w.evse = o => v = w

\* Unless two Ended events were sent for a transaction of a connector, one stop
\* at most waits for it, once, and it has a transaction, whose Ended was sent.
WaitingOn(o) ==
  \/ EndedTwice(o) # {}
  \/ /\ \A t, u \in Waits(o) : t = u
     /\ \A t \in Waits(o) : tasks[t] = 1 /\ Once(o, t.waits)
     /\ Waits(o) # {} => tx[o] # None /\ ended[tx[o]] > 0

Waiting == \A o \in Connectors20 : WaitingOn(o)

Frees(o) ==
  {t \in BagToSet(tasks) : t.op = "stop" /\ [evse |-> o, generation |-> generation] \in t.frees}

\* Until the connectors are replaced, one without transaction that no Occupied has
\* come to since has no TxProfile but one that names another transaction, and when it
\* is shown Occupied the stop that frees it is on its way.
ShownOn(o) ==
  generation = 0 /\ o \notin late /\ tx[o] = None =>
    /\ \A p \in profiles[o] : p.names
    /\ status[o] = "Occupied" => Frees(o) # {}

Shown == \A o \in Connectors20 : ShownOn(o)

Inv == Base /\ Waiting /\ Shown

\* A connector that loses its transaction to a step that replaces no connectors:
\* an Ended event of it was sent, or two of an earlier one were.
Cleared ==
  \A o \in Connectors20 :
    tx[o] # None /\ tx'[o] = None /\ generation' = generation =>
      ended[tx[o]] > 0 \/ EndedTwice(o) # {}

LEMMA TxStays == ASSUME UNCHANGED tx PROVE Cleared
  BY DEF Cleared

LEMMA CalmKeeps ==
  ASSUME Inv, NEW ts, Calm(ts)
  PROVE  Inv'
  <1> USE DEF Inv
  <1>0. /\ UNCHANGED <<generation, tx, evseOf, ended, late>>
        /\ BagToSet(tasks') \subseteq BagToSet(tasks) \union ts
        /\ \A u \in ts : u.op # "stop"
        /\ \A u \in BagToSet(tasks) : Pending(u) => u \in BagToSet(tasks') /\ tasks'[u] = tasks[u]
        /\ \A o \in Connectors20 : status'[o] = status[o] \/ status'[o] # "Occupied"
        /\ \A o \in Connectors20 : profiles'[o] \subseteq profiles[o]
    BY DEF Calm, Ordinary, Plain, StatusCalm, ProfilesCalm, StopsStay
  <1>1. Base'
    BY OrdinaryBase DEF Calm
  <1>2. ASSUME NEW o \in Connectors20 PROVE WaitingOn(o)'
    <2>1. EndedTwice(o)' = EndedTwice(o)
      BY <1>0 DEF EndedTwice, TransactionIds
    <2>2. \A t \in Waits(o)' : t \in Waits(o) /\ tasks'[t] = tasks[t]
      BY <1>0 DEF Waits, Current, Pending, On
    <2>3. WaitingOn(o)
      BY DEF Waiting
    <2> QED
      BY <1>0, <2>1, <2>2, <2>3 DEF WaitingOn
  <1>3. ASSUME NEW o \in Connectors20 PROVE ShownOn(o)'
    <2>1. Frees(o) \subseteq Frees(o)'
      BY <1>0 DEF Frees, Pending
    <2>2. ShownOn(o)
      BY DEF Shown
    <2> QED
      BY <1>0, <2>1, <2>2 DEF ShownOn
  <1> QED
    BY <1>1, <1>2, <1>3 DEF Waiting, Shown

-----------------------------------------------------------------------------
(* The start of a transaction *)

LEMMA BeginKeeps ==
  ASSUME Inv, NEW o \in Connectors20, tx[o] = None,
         NEW id, id = Len(evseOf) + 1, NEW ps \in SUBSET [transaction : {id}, names : BOOLEAN],
         NEW new, new = [op |-> "start", evse |-> o, id |-> id, generation |-> generation,
                         profile |-> ps],
         tx' = [tx EXCEPT ![o] = id], evseOf' = Append(evseOf, o), ended' = Append(ended, 0),
         UNCHANGED <<stationVars, status, profiles, late>>,
         tasks' = tasks (+) Spawn({new})
  PROVE  Inv'
  <1> USE DEF Inv
  <1>0. /\ evseOf \in Seq(Connectors20) /\ ended \in Seq(Nat) /\ Len(ended) = Len(evseOf)
        /\ tx \in [Connectors20 -> {None} \union TransactionIds]
        /\ saved \in [tx : [Connectors20 -> {None} \union TransactionIds],
                      status : [Connectors20 -> Statuses20]]
        /\ TransactionIds = 1..Len(evseOf) /\ Len(evseOf) \in Nat /\ id \in Nat /\ id # None
        /\ IsABag(tasks) /\ generation \in Nat /\ Owned /\ TasksOK
        /\ late \subseteq Connectors20
    <2>1. Len(evseOf) \in Nat /\ TransactionIds = 1..Len(evseOf)
      BY DEF Base, Counters, TransactionIds
    <2> QED
      BY <2>1, RequestsAssumption DEF Base, TypeOK, Counters, None, Statuses20
  <1>1. new.op # "stop"
    OBVIOUS
  <1>2. Added({new})
    BY <1>0, SpawnAdds
  <1>3. /\ TransactionIds' = TransactionIds \union {id}
        /\ evseOf' \in Seq(Connectors20) /\ ended' \in Seq(Nat) /\ Len(ended') = Len(evseOf')
        /\ \A i \in TransactionIds : evseOf'[i] = evseOf[i] /\ ended'[i] = ended[i]
        /\ evseOf'[id] = o /\ ended'[id] = 0
        /\ id \notin TransactionIds
    BY <1>0 DEF TransactionIds
  <1>4. ASSUME NEW p \in Connectors20
        PROVE  /\ tx'[p] = IF p = o THEN id ELSE tx[p]
               /\ tx[p] = None \/ tx[p] \in TransactionIds
               /\ saved.tx[p] = None \/ saved.tx[p] \in TransactionIds
    BY <1>0
  <1>5. Base'
    <2>1. TypeOK'
      <3>1. DOMAIN ended' = TransactionIds'
        BY <1>3 DEF TransactionIds
      <3>2. /\ tx' \in [Connectors20 -> {None} \union TransactionIds']
            /\ saved' \in [tx : [Connectors20 -> {None} \union TransactionIds'],
                          status : [Connectors20 -> Statuses20]]
        BY <1>0, <1>3 DEF stationVars
      <3>3. /\ profiles' \in [Connectors20 -> SUBSET [transaction : TransactionIds', names : BOOLEAN]]
            /\ late' \subseteq Connectors20
        BY <1>3 DEF Base, TypeOK
      <3>4. IsABag(tasks')
        BY <1>2 DEF Added
      <3> QED
        BY <3>1, <3>2, <3>3, <3>4 DEF Base, TypeOK, stationVars, Statuses20
    <2>2. Counters'
      BY <1>3 DEF Counters
    <2>3. TasksOK'
      <3>1. generation' = generation
        BY DEF stationVars
      <3>2. new \in StartTasks'
        <4>1. ps \subseteq TxProfileIds' /\ generation \in Generations' /\ id \in TransactionIds'
          BY <1>0, <1>3, <3>1 DEF TxProfileIds, Generations
        <4> QED
          BY <4>1, <3>1 DEF StartTasks
      <3>3. TaskOK(new)'
        BY <3>2 DEF TaskOK
      <3>4. \A u \in {new} : TaskOK(u)'
        BY <3>3
      <3>5. generation' \in Nat /\ generation <= generation' /\ TransactionIds \subseteq TransactionIds'
        BY <1>0, <1>3, <3>1
      <3>6. BagToSet(tasks') \subseteq BagToSet(tasks) \union {new}
        BY <1>2 DEF Added
      <3>7. PICK ts : ts = {new}
        OBVIOUS
      <3>8. (\A u \in ts : TaskOK(u)') /\ BagToSet(tasks') \subseteq BagToSet(tasks) \union ts
        BY <3>4, <3>6, <3>7
      <3>9. TasksOK
        BY <1>0
      <3> HIDE DEF Inv
      <3> QED
        BY <1>0, <1>3, <3>5, <3>8, <3>9, TasksStayOK
    <2>4. Numbering'
      BY DEF Base, Numbering, stationVars
    <2>5. ASSUME NEW p \in Connectors20
          PROVE  (tx'[p] # None => evseOf'[tx'[p]] = p) /\ (saved.tx[p] # None => evseOf'[saved.tx[p]] = p)
      <3>1. (tx[p] # None => evseOf[tx[p]] = p) /\ (saved.tx[p] # None => evseOf[saved.tx[p]] = p)
        BY <1>0 DEF Owned
      <3>2. saved.tx[p] # None => evseOf'[saved.tx[p]] = p
        BY <1>3, <1>4, <3>1
      <3>3. CASE p = o
        BY <1>3, <1>4, <3>2, <3>3
      <3>4. CASE p # o
        <4>1. tx'[p] = tx[p]
          BY <1>4, <3>4
        <4> QED
          BY <1>3, <1>4, <3>1, <3>2, <4>1
      <3> QED
        BY <3>3, <3>4
    <2> QED
      BY <2>1, <2>2, <2>3, <2>4, <2>5 DEF Base, Owned, stationVars
  <1>6. ASSUME NEW p \in Connectors20 PROVE WaitingOn(p)'
    <2>1. EndedTwice(p) \subseteq EndedTwice(p)'
      BY <1>3 DEF EndedTwice
    <2>2. \A t \in Waits(p)' : t \in Waits(p) /\ tasks'[t] = tasks[t]
      BY <1>1, <1>2 DEF Waits, Current, Added, stationVars
    <2>3. WaitingOn(p)
      BY DEF Waiting
    <2>4. p # o => tx'[p] = tx[p] /\ (tx[p] # None => ended'[tx[p]] = ended[tx[p]])
      BY <1>3, <1>4
    <2>5. p = o => tx[p] = None
      OBVIOUS
    <2> QED
      BY <2>1, <2>2, <2>3, <2>4, <2>5 DEF WaitingOn
  <1>7. ASSUME NEW p \in Connectors20 PROVE ShownOn(p)'
    <2>1. Frees(p) \subseteq Frees(p)'
      BY <1>2 DEF Frees, Added, stationVars
    <2>2. ShownOn(p)
      BY DEF Shown
    <2>3. p # o => tx'[p] = tx[p]
      BY <1>0
    <2>4. p = o => tx'[p] # None
      BY <1>0
    <2> QED
      BY <2>1, <2>2, <2>3, <2>4 DEF ShownOn, stationVars
  <1> QED
    BY <1>5, <1>6, <1>7 DEF Waiting, Shown

\* A request to start is refused, or starts a transaction on a free connector.
LEMMA StartKeeps ==
  ASSUME Inv, RequestStartTransaction
  PROVE  Inv' /\ Cleared
  <1>0. Base
    BY DEF Inv
  <1>1. PICK e \in Evses, token \in Tokens, profile \in {{}} \union {{p} : p \in Profiles} :
          \/ Startable(e, token, profile) /\ BeginTransaction(e, profile)
          \/ UNCHANGED <<stationVars, connectorVars, tasks, evseOf, ended, late>>
    BY DEF RequestStartTransaction
  <1>2. CASE UNCHANGED <<stationVars, connectorVars, tasks, evseOf, ended, late>>
    <2>1. \E ts : Calm(ts)
      BY <1>0, <1>2, CalmRest DEF stationVars, Base, TypeOK
    <2> QED
      BY <1>2, <2>1, CalmKeeps, TxStays DEF connectorVars
  <1>3. CASE Startable(e, token, profile) /\ BeginTransaction(e, profile)
    <2>1. PICK o : o = ConnectorStatus(connectorOf[e])
      OBVIOUS
    <2>2. PICK id, ps, new :
            /\ id = Len(evseOf) + 1 /\ ps = TxProfiles(profile, id)
            /\ new = [op |-> "start", evse |-> o, id |-> id, generation |-> generation,
                      profile |-> ps]
      OBVIOUS
    <2>3. o \in Connectors20
      BY <1>0, <2>1, Places DEF Connectors20
    <2>4. /\ tx' = [tx EXCEPT ![o] = id] /\ evseOf' = Append(evseOf, o) /\ ended' = Append(ended, 0)
          /\ UNCHANGED <<stationVars, status, profiles, late>>
          /\ tasks' = tasks (+) Spawn({new})
      BY <1>3, <2>1, <2>2, Zenon DEF BeginTransaction
    <2>5. tx[o] = None /\ ps \in SUBSET [transaction : {id}, names : BOOLEAN]
      <3>1. tx[o] = None
        BY <1>3, <2>1 DEF Startable
      <3>2. \A x \in ps : x \in [transaction : {id}, names : BOOLEAN]
        <4> SUFFICES ASSUME NEW x \in ps PROVE x \in [transaction : {id}, names : BOOLEAN]
          OBVIOUS
        <4>1. PICK p \in profile : x = [transaction |-> id, names |-> p.transactionId # {}]
          BY <2>2, Zenon DEF TxProfiles
        <4>2. PICK b \in BOOLEAN : b = (p.transactionId # {})
          OBVIOUS
        <4>3. x = [transaction |-> id, names |-> b]
          BY <4>1, <4>2, Zenon
        <4> QED
          BY <4>3
      <3> QED
        BY <3>1, <3>2
    <2>6. Inv'
      BY <2>2, <2>3, <2>4, <2>5, BeginKeeps
    <2>7. Cleared
      BY <1>0, <2>3, <2>4, <2>5 DEF Cleared, Base, TypeOK
    <2> QED
      BY <2>6, <2>7
  <1> QED
    BY <1>1, <1>2, <1>3

\* The status of a connector is set, to Occupied perhaps: then it has a transaction
\* or is late, and gets the profile of the transaction.
LEMMA ShowKeeps ==
  ASSUME Inv, NEW ts, Plain(ts), Ordinary(ts), StopsStay, UNCHANGED <<tx, ended>>,
         NEW o \in Connectors20,
         \A p \in Connectors20 \ {o} : status'[p] = status[p] /\ profiles'[p] \subseteq profiles[p],
         late \subseteq late',
         \/ o \in late' \/ tx[o] # None \/ generation # 0
         \/ status'[o] # "Occupied" /\ profiles'[o] \subseteq profiles[o]
         \/ status'[o] = status[o] /\ profiles'[o] \subseteq profiles[o]
  PROVE  Inv'
  <1>0. /\ UNCHANGED <<generation, tx, evseOf, ended>> /\ late \subseteq late'
        /\ BagToSet(tasks') \subseteq BagToSet(tasks) \union ts
        /\ \A u \in ts : u.op # "stop"
        /\ \A u \in BagToSet(tasks) : Pending(u) => u \in BagToSet(tasks') /\ tasks'[u] = tasks[u]
    BY DEF Ordinary, Plain, StopsStay
  <1>1. Base'
    BY OrdinaryBase DEF Inv
  <1>2. ASSUME NEW p \in Connectors20 PROVE WaitingOn(p)'
    <2>1. EndedTwice(p)' = EndedTwice(p)
      BY <1>0 DEF EndedTwice, TransactionIds
    <2>2. \A t \in Waits(p)' : t \in Waits(p) /\ tasks'[t] = tasks[t]
      BY <1>0 DEF Waits, Current, Pending, On
    <2>3. WaitingOn(p)
      BY DEF Inv, Waiting
    <2> QED
      BY <1>0, <2>1, <2>2, <2>3 DEF WaitingOn
  <1>3. ASSUME NEW p \in Connectors20 PROVE ShownOn(p)'
    <2>1. Frees(p) \subseteq Frees(p)'
      BY <1>0 DEF Frees, Pending
    <2>2. ShownOn(p)
      BY DEF Inv, Shown
    <2>3. CASE p # o
      <3>1. status'[p] = status[p] /\ profiles'[p] \subseteq profiles[p]
        BY <2>3
      <3> QED
        BY <1>0, <2>1, <2>2, <3>1 DEF ShownOn
    <2>4. CASE p = o
      BY <1>0, <2>1, <2>2, <2>4 DEF ShownOn
    <2> QED
      BY <2>3, <2>4
  <1> QED
    BY <1>1, <1>2, <1>3 DEF Inv, Waiting, Shown

\* A task that is no stop makes way for others that are none.
LEMMA StopsUntouched ==
  ASSUME NEW t, t.op # "stop", NEW ts, Plain(ts), Replaced(t, ts)
  PROVE  StopsStay
  BY DEF StopsStay, Pending, Replaced, Plain

\* The answer to the Occupied: shown on the connector the start was of, late when it
\* has no transaction.
LEMMA OccupiedKeeps ==
  ASSUME Inv, NEW t \in BagToSet(tasks), Occupied(t)
  PROVE  Inv'
  <1>0. /\ Base /\ IsABag(tasks) /\ TaskOK(t) /\ t.op = "start"
        /\ status \in [Connectors20 -> Statuses20]
        /\ profiles \in [Connectors20 -> SUBSET TxProfileIds] /\ late \subseteq Connectors20
        /\ generation \in Nat
    BY RequestsAssumption DEF Inv, Base, TypeOK, TasksOK, Occupied, Statuses20, TxProfileIds
  <1>1. /\ t.evse \in Connectors20 /\ t.profile \subseteq TxProfileIds
        /\ ~Current(t) => generation # 0
    BY <1>0 DEF TaskOK, StartTasks, Generations, Current
  <1>2. /\ UNCHANGED <<life, registered, generation, connectorOf, saved, linked, tx, evseOf, ended>>
        /\ tasks' = Replace(t, {})
        /\ status' = status \/ status' = [status EXCEPT ![t.evse] = "Occupied"]
        /\ profiles' = profiles \/ profiles' = [profiles EXCEPT ![t.evse] = @ \union t.profile]
        /\ late' = IF Current(t) /\ tx[t.evse] = None THEN late \union {t.evse} ELSE late
    BY DEF Occupied, stationVars
  <1>3. Replaced(t, {}) /\ Plain({})
    BY <1>0, <1>2, ReplaceReplaces DEF Plain
  <1>4. /\ status' \in [Connectors20 -> Statuses20] /\ profiles' \in [Connectors20 -> SUBSET TxProfileIds]
        /\ \A p \in Connectors20 \ {t.evse} : status'[p] = status[p] /\ profiles'[p] = profiles[p]
    BY <1>0, <1>1, <1>2 DEF Statuses20
  <1>5. late' \subseteq Connectors20 /\ late \subseteq late'
    BY <1>0, <1>1, <1>2
  <1>6. t.evse \in late' \/ tx[t.evse] # None \/ generation # 0
    BY <1>1, <1>2
  <1>7. Ordinary({})
    BY <1>0, <1>2, <1>3, <1>4, <1>5, BaseStays DEF Ordinary, Replaced
  <1>8. StopsStay
    BY <1>0, <1>3, StopsUntouched
  <1>9. PICK none : none = {}
    OBVIOUS
  <1>10. Plain(none) /\ Ordinary(none)
    BY <1>3, <1>7, <1>9
  <1> QED
    BY <1>1, <1>2, <1>4, <1>5, <1>6, <1>8, <1>10, ShowKeeps

\* The answer to a notification of the message sequence sets what was sent, late when
\* that was Occupied and there is no transaction by now.
LEMMA BootKeeps ==
  ASSUME Inv, NEW t \in BagToSet(tasks), Boot(t)
  PROVE  Inv'
  <1>0. /\ Base /\ IsABag(tasks) /\ TaskOK(t) /\ t.op = "boot"
        /\ status \in [Connectors20 -> Statuses20] /\ late \subseteq Connectors20
        /\ Evses \subseteq Nat
    BY EvsesAreNat DEF Inv, Base, TypeOK, TasksOK, Boot, Statuses20
  <1>1. t \in BootTasks
    BY <1>0 DEF TaskOK
  <1>2. t.todo \in Evses /\ t.todo \in Connectors20 /\ t.status \in Statuses20 /\ t.todo + 1 \in Nat
    <2>1. t.todo \in Evses /\ t.status \in Statuses20
      BY <1>1 DEF BootTasks
    <2>2. \A n \in Nat : n + 1 \in Nat
      OBVIOUS
    <2>3. t.todo \in Nat
      BY <1>0, <2>1
    <2>4. t.todo + 1 \in Nat
      BY <2>2, <2>3, Zenon
    <2> QED
      BY <2>1, <2>4 DEF Connectors20
  <1>3. PICK o : o = ConnectorStatus(connectorOf[t.todo])
    OBVIOUS
  <1>4. PICK ts : ts = Booting(t.todo + 1)
    OBVIOUS
  <1>5. o \in Connectors20
    BY <1>0, <1>2, <1>3, Places
  <1>6. /\ UNCHANGED <<life, registered, generation, connectorOf, saved, linked, tx, profiles, evseOf, ended>>
        /\ tasks' = Replace(t, ts)
        /\ status' = IF Current(t) THEN [status EXCEPT ![o] = t.status] ELSE status
        /\ late' = IF Current(t) /\ t.status = "Occupied" /\ tx[o] = None THEN late \union {o} ELSE late
    BY <1>3, <1>4 DEF Boot, stationVars
  <1>7. Replaced(t, ts) /\ Plain(ts)
    BY <1>0, <1>2, <1>4, <1>6, ReplaceReplaces, PlainTasks DEF Plain
  <1>8. /\ status' \in [Connectors20 -> Statuses20]
        /\ \A p \in Connectors20 \ {o} : status'[p] = status[p]
        /\ status'[o] # "Occupied" \/ status'[o] = status[o] \/ o \in late' \/ tx[o] # None
        /\ late' \subseteq Connectors20 /\ late \subseteq late'
    BY <1>0, <1>2, <1>5, <1>6
  <1>9. Ordinary(ts)
    BY <1>0, <1>6, <1>7, <1>8, BaseStays DEF Ordinary, Replaced, Plain
  <1>10. StopsStay
    BY <1>0, <1>7, StopsUntouched
  <1> QED
    BY <1>5, <1>6, <1>7, <1>8, <1>9, <1>10, ShowKeeps

-----------------------------------------------------------------------------
(* The stop of transactions *)

\* How many there are of a set that has one element, or two.
LEMMA AtLeast ==
  ASSUME NEW S, IsFiniteSet(S)
  PROVE  /\ Cardinality(S) \in Nat
         /\ S # {} => Cardinality(S) > 0
         /\ \A v, w \in S : v # w => Cardinality(S) > 1
  <1>1. Cardinality(S) \in Nat
    BY FS_CardinalityType
  <1>2. S # {} => Cardinality(S) # 0
    BY FS_EmptySet
  <1>3. ASSUME NEW v \in S, NEW w \in S, v # w PROVE Cardinality(S) > 1
    <2> DEFINE T == S \ {v}
    <2>1. IsFiniteSet(T) /\ Cardinality(T) = Cardinality(S) - 1
      BY FS_RemoveElement
    <2>2. T # {}
      BY <1>3
    <2> HIDE DEF T
    <2>3. Cardinality(T) \in Nat /\ Cardinality(T) # 0
      BY <2>1, <2>2, FS_CardinalityType, FS_EmptySet
    <2> QED
      BY <1>1, <2>1, <2>3
  <1> QED
    BY <1>1, <1>2, <1>3

\* Ended events are sent for the transactions of connectors that have one.
LEMMA StopBegins ==
  ASSUME Inv, NEW found \in SUBSET Stops20, IsFiniteSet(found), \A w \in found : tx[w.evse] # None,
         Counted(found),
         NEW new, new.op = "stop", new.waits = found, new.frees = {}, TaskOK(new), Current(new),
         tasks' = tasks (+) Spawn({new}),
         UNCHANGED <<life, registered, generation, connectorOf, saved, linked, tx, status, profiles, evseOf, late>>
  PROVE  Inv'
  <1>0. /\ Base /\ IsABag(tasks) /\ Owned
        /\ tx \in [Connectors20 -> {None} \union TransactionIds]
        /\ ended \in Seq(Nat) /\ DOMAIN ended = TransactionIds
    BY DEF Inv, Base, TypeOK, Counters
  <1>1. Added({new})
    BY <1>0, SpawnAdds
  <1>2. /\ DOMAIN ended' = TransactionIds
        /\ ended' \in Seq(Nat) /\ Len(ended') = Len(ended)
        /\ \A id \in TransactionIds : ended'[id] >= ended[id]
        /\ \A w \in found : ended'[tx[w.evse]] > ended[tx[w.evse]]
        /\ \A v, w \in found : v # w /\ v.evse = w.evse => ended'[tx[w.evse]] > 1
    <2>1. ASSUME NEW id \in TransactionIds
          PROVE  /\ Cardinality({w \in found : tx[w.evse] = id}) \in Nat
                 /\ (\E w \in found : tx[w.evse] = id) => Cardinality({w \in found : tx[w.evse] = id}) > 0
                 /\ \A v, w \in found : v # w /\ tx[v.evse] = id /\ tx[w.evse] = id =>
                      Cardinality({x \in found : tx[x.evse] = id}) > 1
      <3> DEFINE S == {w \in found : tx[w.evse] = id}
      <3>1. IsFiniteSet(S)
        <4>1. S \subseteq found
          OBVIOUS
        <4> QED
          BY <4>1, FS_Subset
      <3>2. /\ Cardinality(S) \in Nat
            /\ S # {} => Cardinality(S) > 0
            /\ \A v, w \in S : v # w => Cardinality(S) > 1
        BY <3>1, AtLeast
      <3> QED
        BY <3>2
    <2>2. ended' = [id \in TransactionIds |-> ended[id] + Cardinality({w \in found : tx[w.evse] = id})]
      BY <1>0 DEF Counted
    <2>3. /\ Len(ended) \in Nat /\ TransactionIds = 1..Len(ended)
          /\ \A id \in TransactionIds : ended[id] \in Nat
      BY <1>0
    <2>4. /\ \A id \in TransactionIds : ended'[id] \in Nat /\ ended'[id] >= ended[id]
          /\ \A id \in TransactionIds : (\E w \in found : tx[w.evse] = id) => ended'[id] > ended[id]
          /\ \A id \in TransactionIds : \A v, w \in found :
               v # w /\ tx[v.evse] = id /\ tx[w.evse] = id => ended'[id] > 1
      BY <2>1, <2>2, <2>3
    <2>5. ended' \in [1..Len(ended) -> Nat]
      BY <2>2, <2>3, <2>4
    <2>6. ended' \in Seq(Nat) /\ Len(ended') = Len(ended)
      BY <2>3, <2>5
    <2>7. \A w \in found : tx[w.evse] \in TransactionIds
      BY <1>0 DEF Stops20
    <2> QED
      BY <2>2, <2>4, <2>6, <2>7
  <1>3. Base'
    <2>1. Ordinary({new})
      BY <1>0, <1>1, <1>2, BaseStays DEF Ordinary, Added
    <2> QED
      BY <1>0, <2>1, OrdinaryBase
  <1>4. ASSUME NEW p \in Connectors20 PROVE WaitingOn(p)'
    <2>1. EndedTwice(p) \subseteq EndedTwice(p)'
      BY <1>0, <1>2 DEF EndedTwice, TransactionIds
    <2>2. WaitingOn(p)
      BY DEF Inv, Waiting
    <2>3. CASE EndedTwice(p) # {}
      BY <2>1, <2>3 DEF WaitingOn
    <2>4. CASE EndedTwice(p) = {} /\ ~On(p, found)
      <3>1. \A u \in Waits(p)' : u \in Waits(p) /\ tasks'[u] = tasks[u]
        BY <1>1, <2>4 DEF Waits, Current, Added, On
      <3>2. tx[p] \in TransactionIds => ended'[tx[p]] >= ended[tx[p]] /\ ended[tx[p]] \in Nat /\ ended'[tx[p]] \in Nat
        BY <1>0, <1>2
      <3>3. tx[p] # None => tx[p] \in TransactionIds
        BY <1>0
      <3>4. /\ \A t, u \in Waits(p) : t = u
            /\ \A t \in Waits(p) : tasks[t] = 1 /\ Once(p, t.waits)
            /\ Waits(p) # {} => tx[p] # None /\ ended[tx[p]] > 0
        BY <2>2, <2>4 DEF WaitingOn
      <3>5. \A t \in Waits(p)' : Once(p, t.waits)'
        BY <3>1, <3>4 DEF Once
      <3>6. Waits(p)' # {} => tx'[p] # None /\ ended'[tx'[p]] > 0
        BY <3>1, <3>2, <3>3, <3>4
      <3> QED
        BY <3>1, <3>4, <3>5, <3>6 DEF WaitingOn
    <2>5. CASE On(p, found) /\ ~Once(p, found)
      <3>1. tx[p] # None /\ ended'[tx[p]] > 1
        BY <1>2, <2>5 DEF Once
      <3>2. tx[p] \in TransactionIds /\ evseOf[tx[p]] = p
        BY <1>0, <3>1 DEF Owned
      <3>3. tx[p] \in EndedTwice(p)'
        BY <3>1, <3>2 DEF EndedTwice, TransactionIds
      <3> QED
        BY <3>3 DEF WaitingOn
    <2>6. CASE EndedTwice(p) = {} /\ On(p, found) /\ Once(p, found) /\ Waits(p) = {}
      <3>1. new \notin BagToSet(tasks)
        BY <2>6 DEF Waits
      <3>2. \A u \in Waits(p)' : u = new
        BY <1>1, <2>6 DEF Waits, Current, Added, On
      <3>3. tasks'[new] = 1
        BY <1>1, <3>1 DEF Added
      <3>4. tx[p] \in TransactionIds /\ tx[p] # None /\ ended'[tx[p]] > ended[tx[p]]
        BY <1>0, <1>2, <2>6 DEF On
      <3>5. ended'[tx[p]] > 0
        BY <1>0, <1>2, <3>4
      <3> QED
        BY <2>6, <3>2, <3>3, <3>4, <3>5 DEF WaitingOn, Once
    <2>7. CASE EndedTwice(p) = {} /\ On(p, found) /\ Waits(p) # {}
      <3>1. tx[p] # None /\ ended[tx[p]] > 0
        BY <2>2, <2>7 DEF WaitingOn
      <3>2. tx[p] \in TransactionIds /\ evseOf[tx[p]] = p
        BY <1>0, <3>1 DEF Owned
      <3>3. ended[tx[p]] \in Nat /\ ended'[tx[p]] \in Nat /\ ended'[tx[p]] > ended[tx[p]]
        BY <1>0, <1>2, <2>7, <3>2 DEF On
      <3>4. ended'[tx[p]] > 1
        BY <3>1, <3>3
      <3>5. tx[p] \in EndedTwice(p)'
        BY <3>2, <3>4 DEF EndedTwice, TransactionIds
      <3> QED
        BY <3>5 DEF WaitingOn
    <2> QED
      BY <2>3, <2>4, <2>5, <2>6, <2>7
  <1>5. ASSUME NEW p \in Connectors20 PROVE ShownOn(p)'
    <2>1. Frees(p) \subseteq Frees(p)'
      BY <1>1 DEF Frees, Added
    <2>2. ShownOn(p)
      BY DEF Inv, Shown
    <2> QED
      BY <2>1, <2>2 DEF ShownOn
  <1> QED
    BY <1>3, <1>4, <1>5 DEF Inv, Waiting, Shown

\* The targets and what a stop of theirs finds.
LEMMA FoundPlaces ==
  ASSUME Base, NEW es \in SUBSET Connectors20
  PROVE  /\ Found(es) \subseteq Stops20 /\ IsFiniteSet(Found(es))
         /\ \A w \in Found(es) : tx[w.evse] # None
  <1> DEFINE S == Stoppable(es)
             f == [e \in S |-> [of |-> e, evse |-> ConnectorStatus(connectorOf[e])]]
  <1>1. S \subseteq Connectors20 /\ \A e \in S : tx[ConnectorStatus(connectorOf[e])] # None
    BY DEF Stoppable
  <1>2. \A e \in S : f[e] \in Stops20
    BY <1>1, Places DEF Stops20
  <1>3. Found(es) = {f[e] : e \in S}
    BY DEF Found
  <1>4. IsFiniteSet(S)
    BY <1>1, EvsesAreNat, FS_Subset
  <1>5. \A e \in S : tx[f[e].evse] # None
    BY <1>1
  <1> HIDE DEF S
  <1>6. f \in Surjection(S, Found(es))
    BY <1>3 DEF Surjection
  <1>7. IsFiniteSet(Found(es))
    BY <1>4, <1>6, FS_Surjection
  <1> QED
    BY <1>2, <1>3, <1>5, <1>7

LEMMA StoppingOK ==
  ASSUME Base, NEW for \in {"request", "reset"}, NEW target \in {Whole} \union Connectors20,
         NEW found \in SUBSET Stops20,
         NEW new, new = Stopping20(for, target, found)
  PROVE  /\ new.op = "stop" /\ new.waits = found /\ new.frees = {}
         /\ TaskOK(new) /\ Current(new)
  <1>1. new = [op |-> "stop", for |-> for, evse |-> target, generation |-> generation,
               waits |-> found, frees |-> {}]
    BY DEF Stopping20
  <1>2. generation \in Generations
    BY RequestsAssumption DEF Base, TypeOK, Generations
  <1>3. new.op = "stop" /\ new.waits = found /\ new.frees = {} /\ Current(new)
    BY <1>1 DEF Current
  <1>4. new \in StopTasks
    BY <1>1, <1>2 DEF StopTasks
  <1> QED
    BY <1>3, <1>4 DEF TaskOK

LEMMA RequestStopKeeps ==
  ASSUME Inv, RequestStopTransaction
  PROVE  Inv' /\ Cleared
  <1>0. Base /\ tx' = tx
    BY DEF Inv, RequestStopTransaction, connectorVars
  <1>1. PICK id \in DOMAIN evseOf :
          /\ IF Found({e \in Connectors20 : tx[e] = id}) # {}
             THEN /\ Counted(Found({e \in Connectors20 : tx[e] = id}))
                  /\ tasks' = tasks (+) Spawn({Stopping20("request", 0, Found({e \in Connectors20 : tx[e] = id}))})
             ELSE UNCHANGED <<ended, tasks>>
          /\ UNCHANGED <<stationVars, connectorVars, evseOf, late>>
    BY DEF RequestStopTransaction
  <1>2. PICK es : es = {e \in Connectors20 : tx[e] = id}
    OBVIOUS
  <1>3. PICK found : found = Found(es)
    OBVIOUS
  <1>4. PICK new : new = Stopping20("request", 0, found)
    OBVIOUS
  <1>5. found \in SUBSET Stops20 /\ IsFiniteSet(found) /\ (\A w \in found : tx[w.evse] # None)
    BY <1>0, <1>2, <1>3, FoundPlaces
  <1>6. CASE found # {}
    <2>1. Counted(found) /\ tasks' = tasks (+) Spawn({new})
      BY <1>1, <1>2, <1>3, <1>4, <1>6
    <2>2. UNCHANGED <<life, registered, generation, connectorOf, saved, linked, tx, status, profiles, evseOf, late>>
      BY <1>1 DEF stationVars, connectorVars
    <2>3. /\ new.op = "stop" /\ new.waits = found /\ new.frees = {}
          /\ TaskOK(new) /\ Current(new)
      BY <1>0, <1>4, <1>5, StoppingOK DEF Connectors20
    <2>4. Inv'
      BY <1>5, <2>1, <2>2, <2>3, StopBegins
    <2> QED
      BY <1>0, <2>4, TxStays
  <1>7. CASE found = {}
    <2>1. UNCHANGED <<stationVars, connectorVars, ended, tasks, evseOf, late>>
      BY <1>1, <1>2, <1>3, <1>7
    <2>2. \E ts : Calm(ts)
      BY <1>0, <2>1, CalmRest DEF stationVars, Base, TypeOK
    <2> QED
      BY <1>0, <2>2, CalmKeeps, TxStays
  <1> QED
    BY <1>6, <1>7

\* An immediate Reset begins the stop of what runs, or the reset.
LEMMA ResetKeeps ==
  ASSUME Inv, ResetImmediate
  PROVE  Inv' /\ Cleared
  <1>0. Base /\ tx' = tx /\ IsABag(tasks)
    BY DEF Inv, ResetImmediate, connectorVars, Base, TypeOK
  <1>1. PICK target \in Immediates :
          /\ IF Busy(target)
             THEN /\ Counted(Found(HasTransaction(Terminated(target))))
                  /\ tasks' = tasks (+) Spawn({Stopping20("reset", target, Found(HasTransaction(Terminated(target))))})
                  /\ UNCHANGED life
             ELSE /\ IF target = Whole
                     THEN /\ life' = CallReset.life
                          /\ tasks' = (tasks (+) Spawn({Notification(e, "Unavailable") : e \in Connectors20}))
                                      (+) CallReset.spawned
                     ELSE tasks' = tasks (+) ScheduleEvseReset(target) /\ UNCHANGED life
                  /\ UNCHANGED ended
          /\ UNCHANGED <<registered, generation, connectorOf, saved, linked, connectorVars, evseOf, late>>
    BY DEF ResetImmediate
  <1>2. target \in {Whole} \union Connectors20
    BY RequestsAssumption
  <1>3. CASE Busy(target)
    <2>1. PICK es : es = HasTransaction(Terminated(target))
      OBVIOUS
    <2>2. PICK found : found = Found(es)
      OBVIOUS
    <2>3. PICK new : new = Stopping20("reset", target, found)
      OBVIOUS
    <2>4. es \in SUBSET Connectors20
      BY <1>2, <2>1 DEF HasTransaction, Terminated
    <2>5. found \in SUBSET Stops20 /\ IsFiniteSet(found) /\ (\A w \in found : tx[w.evse] # None)
      BY <1>0, <2>2, <2>4, FoundPlaces
    <2>6. Counted(found) /\ tasks' = tasks (+) Spawn({new})
      BY <1>1, <1>3, <2>1, <2>2, <2>3
    <2>7. UNCHANGED <<life, registered, generation, connectorOf, saved, linked, tx, status, profiles, evseOf, late>>
      BY <1>1, <1>3 DEF connectorVars
    <2>8. /\ new.op = "stop" /\ new.waits = found /\ new.frees = {}
          /\ TaskOK(new) /\ Current(new)
      BY <1>0, <1>2, <2>3, <2>5, StoppingOK
    <2>9. Inv'
      BY <2>5, <2>6, <2>7, <2>8, StopBegins
    <2> QED
      BY <1>0, <2>9, TxStays
  <1>4. CASE ~Busy(target) /\ target # Whole
    <2>1. \E ts : Calm(ts)
      BY <1>0, <1>1, <1>2, <1>4, CalmReset
    <2> QED
      BY <1>0, <2>1, CalmKeeps, TxStays
  <1>5. CASE ~Busy(target) /\ target = Whole
    <2>1. PICK ts : ts = {Notification(e, "Unavailable") : e \in Connectors20}
      OBVIOUS
    <2>2. PICK us : /\ CallReset.spawned = SetToBag(us) /\ Plain(us)
                    /\ \A u \in us : u.op # "notify"
      BY <1>0, CallResetSpawns
    <2>3. \A u \in ts : TaskOK(u) /\ u.op = "notify"
      BY <1>0, <2>1, PlainTasks
    <2>4. tasks' = (tasks (+) Spawn(ts)) (+) SetToBag(us)
      BY <1>1, <1>5, <2>1, <2>2
    <2>5. Added(ts \union us)
      BY <1>0, <2>2, <2>3, <2>4, SpawnsAdd
    <2>6. Plain(ts \union us)
      BY <2>2, <2>3 DEF Plain
    <2>7. life' \in {"up", "stopping", "wedged", "down"} /\ registered' \in BOOLEAN
      BY <1>0, <1>1, <1>5, CallResetSpawns DEF Base, TypeOK
    <2>8. CalmVariables
      BY <1>0, <1>1, <1>5, <2>7, BaseStays, StatusStays, ProfilesStay DEF CalmVariables, connectorVars
    <2>9. Calm(ts \union us)
      BY <1>0, <2>5, <2>6, <2>8, CalmAdd
    <2> QED
      BY <1>0, <2>9, CalmKeeps, TxStays
  <1> QED
    BY <1>3, <1>4, <1>5

-----------------------------------------------------------------------------
(* The answers a stop waits for *)

\* When a stop goes on with fewer answers to come, it is still the only one.
LEMMA StopGoesOn ==
  ASSUME NEW p, NEW t \in BagToSet(tasks), t.op = "stop",
         NEW u, u.op = "stop", u.generation = t.generation, u.waits \subseteq t.waits, u # t,
         Replaced(t, {u}), generation' = generation,
         \A v, w \in Waits(p) : v = w, \A v \in Waits(p) : tasks[v] = 1 /\ Once(p, v.waits)
  PROVE  /\ \A v, w \in Waits(p)' : v = w
         /\ \A v \in Waits(p)' : tasks'[v] = 1 /\ Once(p, v.waits)
         /\ Waits(p)' # {} => Waits(p) # {}
         /\ Waits(p)' # {} /\ Current(t) /\ On(p, t.waits) => On(p, u.waits)
  <1>0. On(p, u.waits) => On(p, t.waits)
    BY DEF On
  <1>1. ASSUME Current(t), On(p, t.waits)
        PROVE  /\ On(p, u.waits) => u \notin BagToSet(tasks)
               /\ \A v \in Waits(p)' : v = u /\ On(p, u.waits)
               /\ Once(p, u.waits)
    <2>1. t \in Waits(p) /\ tasks[t] = 1 /\ t \notin BagToSet(tasks') /\ Once(p, t.waits)
      BY <1>1 DEF Waits, Replaced
    <2>2. On(p, u.waits) => u \notin BagToSet(tasks)
      <3>1. u \in BagToSet(tasks) /\ On(p, u.waits) => u \in Waits(p)
        BY <1>1 DEF Waits, Current
      <3> QED
        BY <2>1, <3>1
    <2>3. ASSUME NEW v \in Waits(p)' PROVE v = u /\ On(p, u.waits)
      <3>1. v \in BagToSet(tasks') /\ v.op = "stop" /\ v.generation = generation /\ On(p, v.waits)
        BY <2>3 DEF Waits, Current, On
      <3>2. v # u => v \in Waits(p)
        BY <3>1 DEF Replaced, Waits, Current
      <3> QED
        BY <2>1, <3>1, <3>2
    <2>4. Once(p, u.waits)
      BY <2>1 DEF Once
    <2> QED
      BY <2>1, <2>2, <2>3, <2>4
  <1>2. CASE Current(t) /\ On(p, t.waits)
    <2>1. On(p, u.waits) => tasks'[u] = 1
      BY <1>1, <1>2 DEF Replaced
    <2>2. t \in Waits(p)
      BY <1>2 DEF Waits
    <2> QED
      BY <1>1, <1>2, <2>1, <2>2
  <1>3. CASE ~(Current(t) /\ On(p, t.waits))
    <2>1. ASSUME NEW v \in Waits(p)' PROVE v \in Waits(p) /\ tasks'[v] = tasks[v]
      <3>1. v \in BagToSet(tasks') /\ v.op = "stop" /\ v.generation = generation /\ On(p, v.waits)
        BY <2>1 DEF Waits, Current, On
      <3>2. v # t /\ v # u
        BY <1>0, <1>3, <3>1 DEF Current
      <3> QED
        BY <3>1, <3>2 DEF Replaced, Waits, Current
    <2> QED
      BY <1>3, <2>1
  <1> QED
    BY <1>2, <1>3

\* The stop that frees a connector goes on to free it, unless it is done with it.
LEMMA FreeingGoesOn ==
  ASSUME NEW p, NEW t \in BagToSet(tasks), NEW u, u.op = "stop",
         Replaced(t, {u}), generation' = generation,
         [evse |-> p, generation |-> generation] \in t.frees =>
           [evse |-> p, generation |-> generation] \in u.frees
  PROVE  Frees(p) # {} => Frees(p)' # {}
  <1>1. ASSUME NEW v \in Frees(p) PROVE Frees(p)' # {}
    <2>1. v \in BagToSet(tasks) /\ v.op = "stop" /\ [evse |-> p, generation |-> generation] \in v.frees
      BY <1>1 DEF Frees
    <2>2. u \in BagToSet(tasks') /\ (v # t => v \in BagToSet(tasks'))
      BY <2>1 DEF Replaced
    <2>3. CASE v = t
      <3>1. u \in Frees(p)'
        BY <2>1, <2>2, <2>3 DEF Frees
      <3> QED
        BY <3>1
    <2>4. CASE v # t
      <3>1. v \in Frees(p)'
        BY <2>1, <2>2, <2>4 DEF Frees
      <3> QED
        BY <3>1
    <2> QED
      BY <2>3, <2>4
  <1> QED
    BY <1>1

\* The Ended event of a connector is answered: it has no transaction any more, and
\* the stop goes on to free it.
LEMMA EndedKeeps ==
  ASSUME Inv, NEW t \in BagToSet(tasks), EndedAnswered(t)
  PROVE  Inv' /\ Cleared
  <1>0. /\ Base /\ IsABag(tasks) /\ TaskOK(t) /\ t.op = "stop"
        /\ profiles \in [Connectors20 -> SUBSET TxProfileIds]
        /\ tx \in [Connectors20 -> {None} \union TransactionIds]
        /\ late \subseteq Connectors20
    BY DEF Inv, Base, TypeOK, TasksOK, EndedAnswered, TxProfileIds
  <1>1. PICK w \in t.waits :
          /\ IF Current(t)
             THEN /\ tx' = [tx EXCEPT ![w.evse] = None]
                  /\ profiles' = [profiles EXCEPT ![w.evse] = Kept(w.evse)]
                  /\ late' = late \ {w.evse}
             ELSE UNCHANGED <<tx, profiles, late>>
          /\ tasks' = Replace(t, {[t EXCEPT !.waits = @ \ {w}, !.frees = @ \union Freed(w.evse)]})
    BY DEF EndedAnswered
  <1>2. PICK o : o = w.evse
    OBVIOUS
  <1>3. PICK u : u = [t EXCEPT !.waits = @ \ {w}, !.frees = @ \union Freed(o)]
    OBVIOUS
  <1>4. t \in StopTasks /\ o \in Connectors20
    BY <1>0, <1>2 DEF TaskOK, StopTasks, Stops20
  <1>5. /\ Freed(o) \subseteq Places20
        /\ generation = 0 => [evse |-> o, generation |-> generation] \in Freed(o)
    BY <1>0, <1>4, FreedPlaces
  <1>6. /\ u \in StopTasks /\ u.op = "stop" /\ u.generation = t.generation
        /\ u.waits = t.waits \ {w} /\ u.frees = t.frees \union Freed(o) /\ u # t
    BY <1>3, <1>4, <1>5 DEF StopTasks
  <1>7. TaskOK(u)
    BY <1>6 DEF TaskOK
  <1>8. Replaced(t, {u})
    BY <1>0, <1>1, <1>2, <1>3, ReplaceReplaces
  <1>9. UNCHANGED <<life, registered, generation, connectorOf, saved, linked, status, evseOf, ended>>
    BY DEF EndedAnswered, stationVars
  <1>10. /\ Current(t) => /\ tx' = [tx EXCEPT ![o] = None] /\ late' = late \ {o}
                          /\ profiles' = [profiles EXCEPT ![o] = Kept(o)]
         /\ ~Current(t) => UNCHANGED <<tx, profiles, late>>
         /\ Kept(o) \subseteq profiles[o] /\ \A p \in Kept(o) : p.names
    BY <1>1, <1>2 DEF Kept
  <1>11. Base'
    <2>1. /\ tx' \in [Connectors20 -> {None} \union TransactionIds]
          /\ \A p \in Connectors20 : tx'[p] \in {tx[p], None}
          /\ profiles' \in [Connectors20 -> SUBSET TxProfileIds]
          /\ late' \subseteq Connectors20
      BY <1>0, <1>4, <1>10
    <2>2. Ordinary({u})
      BY <1>0, <1>7, <1>8, <1>9, <2>1, BaseStays DEF Ordinary, Replaced
    <2> QED
      BY <1>0, <2>2, OrdinaryBase
  <1>12. ASSUME NEW p \in Connectors20 PROVE WaitingOn(p)'
    <2>1. EndedTwice(p)' = EndedTwice(p)
      BY <1>9 DEF EndedTwice, TransactionIds
    <2>2. CASE EndedTwice(p) # {}
      BY <2>1, <2>2 DEF WaitingOn
    <2>3. CASE EndedTwice(p) = {}
      <3>1. /\ \A v, x \in Waits(p) : v = x
            /\ \A v \in Waits(p) : tasks[v] = 1 /\ Once(p, v.waits)
            /\ Waits(p) # {} => tx[p] # None /\ ended[tx[p]] > 0
        BY <2>3 DEF Inv, Waiting, WaitingOn
      <3>2. /\ \A v, x \in Waits(p)' : v = x
            /\ \A v \in Waits(p)' : tasks'[v] = 1 /\ Once(p, v.waits)
            /\ Waits(p)' # {} => Waits(p) # {}
            /\ Waits(p)' # {} /\ Current(t) /\ On(p, t.waits) => On(p, u.waits)
        BY <1>0, <1>6, <1>8, <1>9, <3>1, StopGoesOn
      <3>3. Waits(p)' # {} => tx'[p] = tx[p]
        <4>1. CASE p = o /\ Current(t)
          <5>1. On(p, t.waits) /\ t \in Waits(p)
            BY <1>0, <1>2, <4>1 DEF On, Waits
          <5>2. ~On(p, u.waits)
            BY <1>2, <1>6, <3>1, <4>1, <5>1 DEF On, Once
          <5> QED
            BY <3>2, <4>1, <5>1, <5>2
        <4>2. CASE p # o \/ ~Current(t)
          BY <1>0, <1>4, <1>10, <4>2
        <4> QED
          BY <4>1, <4>2
      <3>4. Waits(p)' # {} => tx[p] # None /\ ended[tx[p]] > 0
        BY <3>1, <3>2
      <3>5. \A v \in Waits(p)' : Once(p, v.waits)'
        BY <3>2 DEF Once
      <3> QED
        BY <1>9, <3>2, <3>3, <3>4, <3>5 DEF WaitingOn
    <2> QED
      BY <2>2, <2>3
  <1>13. ASSUME NEW p \in Connectors20 PROVE ShownOn(p)'
    <2>1. Frees(p) # {} => Frees(p)' # {}
      BY <1>6, <1>8, <1>9, FreeingGoesOn
    <2>2. CASE p = o /\ generation = 0
      <3>1. u \in Frees(p)'
        BY <1>5, <1>6, <1>8, <1>9, <2>2 DEF Frees, Replaced
      <3>2. Current(t)
        BY <1>4, <2>2 DEF Current, StopTasks, Generations
      <3>3. \A q \in profiles'[p] : q.names
        BY <1>0, <1>4, <1>10, <2>2, <3>2
      <3> QED
        BY <3>1, <3>3 DEF ShownOn
    <2>3. CASE p # o
      <3>1. tx'[p] = tx[p] /\ profiles'[p] = profiles[p] /\ (p \in late <=> p \in late')
        BY <1>0, <1>4, <1>10, <2>3
      <3>2. ShownOn(p)
        BY DEF Inv, Shown
      <3> QED
        BY <1>9, <2>1, <3>1, <3>2 DEF ShownOn
    <2>4. CASE generation # 0
      BY <1>9, <2>4 DEF ShownOn
    <2> QED
      BY <2>2, <2>3, <2>4
  <1>14. Cleared
    <2> SUFFICES ASSUME NEW p \in Connectors20, tx[p] # None, tx'[p] = None
                 PROVE  ended[tx[p]] > 0 \/ EndedTwice(p) # {}
      BY DEF Cleared
    <2>1. p = o /\ Current(t)
      BY <1>0, <1>4, <1>10
    <2>2. t \in Waits(p)
      BY <1>0, <1>2, <2>1 DEF Waits, On
    <2> QED
      BY <2>2 DEF Inv, Waiting, WaitingOn
  <1> QED
    BY <1>11, <1>12, <1>13, <1>14 DEF Inv, Waiting, Shown

\* The Available of a connector is answered.
LEMMA AvailableKeeps ==
  ASSUME Inv, NEW t \in BagToSet(tasks), AvailableAnswered(t)
  PROVE  Inv'
  <1>0. /\ Base /\ IsABag(tasks) /\ TaskOK(t) /\ t.op = "stop"
        /\ status \in [Connectors20 -> Statuses20]
    BY DEF Inv, Base, TypeOK, TasksOK, AvailableAnswered, Statuses20
  <1>1. PICK f \in t.frees :
          /\ status' = IF Current(f) THEN [status EXCEPT ![f.evse] = "Available"] ELSE status
          /\ tasks' = Replace(t, {[t EXCEPT !.frees = @ \ {f}]})
    BY DEF AvailableAnswered
  <1>2. PICK u : u = [t EXCEPT !.frees = @ \ {f}]
    OBVIOUS
  <1>3. PICK o : o = f.evse
    OBVIOUS
  <1>4. t \in StopTasks /\ f \in Places20 /\ o \in Connectors20
    BY <1>0, <1>3 DEF TaskOK, StopTasks, Places20
  <1>5. /\ u \in StopTasks /\ u.op = "stop" /\ u.generation = t.generation
        /\ u.waits = t.waits /\ u.frees = t.frees \ {f} /\ u # t
    BY <1>2, <1>4 DEF StopTasks
  <1>6. TaskOK(u)
    BY <1>5 DEF TaskOK
  <1>7. Replaced(t, {u})
    BY <1>0, <1>1, <1>2, ReplaceReplaces
  <1>8. UNCHANGED <<life, registered, generation, connectorOf, saved, linked, tx, profiles, evseOf, ended, late>>
    BY DEF AvailableAnswered, stationVars
  <1>9. Base'
    <2>1. status' \in [Connectors20 -> Statuses20]
      BY <1>0, <1>1, <1>4 DEF Statuses20
    <2>2. Ordinary({u})
      BY <1>0, <1>6, <1>7, <1>8, <2>1, BaseStays DEF Ordinary, Replaced
    <2> QED
      BY <1>0, <2>2, OrdinaryBase
  <1>10. ASSUME NEW p \in Connectors20 PROVE WaitingOn(p)'
    <2>1. EndedTwice(p)' = EndedTwice(p)
      BY <1>8 DEF EndedTwice, TransactionIds
    <2>2. CASE EndedTwice(p) # {}
      BY <2>1, <2>2 DEF WaitingOn
    <2>3. CASE EndedTwice(p) = {}
      <3>1. /\ \A v, x \in Waits(p) : v = x
            /\ \A v \in Waits(p) : tasks[v] = 1 /\ Once(p, v.waits)
            /\ Waits(p) # {} => tx[p] # None /\ ended[tx[p]] > 0
        BY <2>3 DEF Inv, Waiting, WaitingOn
      <3>2. /\ \A v, x \in Waits(p)' : v = x
            /\ \A v \in Waits(p)' : tasks'[v] = 1 /\ Once(p, v.waits)
            /\ Waits(p)' # {} => Waits(p) # {}
        BY <1>0, <1>5, <1>7, <1>8, <3>1, StopGoesOn
      <3>3. Waits(p)' # {} => tx[p] # None /\ ended[tx[p]] > 0
        BY <3>1, <3>2
      <3>4. \A v \in Waits(p)' : Once(p, v.waits)'
        BY <3>2 DEF Once
      <3> QED
        BY <1>8, <3>2, <3>3, <3>4 DEF WaitingOn
    <2> QED
      BY <2>2, <2>3
  <1>11. ASSUME NEW p \in Connectors20 PROVE ShownOn(p)'
    <2>1. ShownOn(p)
      BY DEF Inv, Shown
    <2>2. CASE p = o /\ Current(f)
      <3>1. status'[p] # "Occupied"
        BY <1>0, <1>1, <1>3, <1>4, <2>2
      <3> QED
        BY <1>8, <2>1, <3>1 DEF ShownOn
    <2>3. CASE ~(p = o /\ Current(f))
      <3>1. f # [evse |-> p, generation |-> generation]
        BY <1>3, <2>3 DEF Current
      <3>2. Frees(p) # {} => Frees(p)' # {}
        BY <1>5, <1>7, <1>8, <3>1, FreeingGoesOn
      <3>3. status'[p] = status[p]
        BY <1>0, <1>1, <1>3, <1>4, <2>3
      <3> QED
        BY <1>8, <2>1, <3>2, <3>3 DEF ShownOn
    <2> QED
      BY <2>2, <2>3
  <1> QED
    BY <1>9, <1>10, <1>11 DEF Inv, Waiting, Shown

-----------------------------------------------------------------------------
(* The initialisation of the station *)

\* The connectors are replaced by those of the file, and what is suspended has the
\* old ones.
LEMMA InitializeKeeps ==
  ASSUME Inv, NEW t \in BagToSet(tasks), Initialize(t)
  PROVE  Inv'
  <1>0. Base /\ IsABag(tasks) /\ TasksOK /\ generation \in Nat
    BY RequestsAssumption DEF Inv, Base, TypeOK
  <1>1. /\ generation' = generation + 1 /\ generation < MaxGeneration
        /\ connectorOf' = [e \in Connectors20 |-> 0] /\ tx' = saved.tx
        /\ status' = saved.status /\ profiles' = [e \in Connectors20 |-> {}] /\ linked' = TRUE
        /\ life' \in {"up", "stopping", "wedged", "down"}
        /\ tasks' = Replace(t, {})
        /\ UNCHANGED <<registered, saved, evseOf, ended, late>>
    BY <1>0 DEF Initialize, Started, ConnectorsFromFile, Base, TypeOK
  <1>2. Replaced(t, {})
    BY <1>0, <1>1, ReplaceReplaces
  <1>3. TransactionIds' = TransactionIds
    BY <1>1 DEF TransactionIds
  <1>4. Base'
    <2>1. TypeOK'
      <3>1. generation' \in 0..MaxGeneration
        BY <1>0, <1>1, RequestsAssumption DEF Base, TypeOK
      <3>2. /\ tx' \in [Connectors20 -> {None} \union TransactionIds']
            /\ saved' \in [tx : [Connectors20 -> {None} \union TransactionIds'], status : [Connectors20 -> Statuses20]]
            /\ late' \subseteq Connectors20 /\ DOMAIN ended' = TransactionIds'
            /\ registered' \in BOOLEAN
        BY <1>0, <1>1, <1>3 DEF Base, TypeOK, Statuses20
      <3>3. /\ connectorOf' \in [Connectors20 -> Connectors20]
            /\ status' \in [Connectors20 -> {"none", "Available", "Occupied", "Unavailable"}]
            /\ profiles' \in [Connectors20 -> SUBSET [transaction : TransactionIds', names : BOOLEAN]]
        BY <1>0, <1>1 DEF Connectors20, Base, TypeOK
      <3> QED
        BY <1>1, <1>2, <3>1, <3>2, <3>3 DEF TypeOK, Replaced, Statuses20
    <2>2. Counters'
      BY <1>0, <1>1 DEF Base, Counters
    <2>3. TasksOK'
      <3>1. PICK ts : ts = {}
        OBVIOUS
      <3>2. /\ generation' \in Nat /\ generation <= generation' /\ TransactionIds \subseteq TransactionIds'
            /\ \A v \in ts : TaskOK(v)'
            /\ BagToSet(tasks') \subseteq BagToSet(tasks) \union ts
        BY <1>0, <1>1, <1>2, <1>3, <3>1 DEF Replaced
      <3> QED
        BY <1>0, <3>2, TasksStayOK
    <2>4. Numbering'
      BY <1>0, <1>1 DEF Numbering
    <2>5. Owned'
      BY <1>0, <1>1 DEF Base, Owned
    <2> QED
      BY <2>1, <2>2, <2>3, <2>4, <2>5 DEF Base
  <1>5. ASSUME NEW p \in Connectors20 PROVE WaitingOn(p)'
    <2>1. ASSUME NEW v \in Waits(p)' PROVE FALSE
      <3>1. v \in BagToSet(tasks) /\ v.op = "stop" /\ v.generation = generation + 1
        BY <1>1, <1>2, <2>1 DEF Waits, Current, Replaced
      <3>2. v.generation \in 0..generation
        BY <1>0, <3>1 DEF TasksOK, TaskOK, StopTasks, Generations
      <3> QED
        BY <1>0, <3>1, <3>2
    <2> QED
      BY <2>1 DEF WaitingOn
  <1>6. ASSUME NEW p \in Connectors20 PROVE ShownOn(p)'
    BY <1>0, <1>1 DEF ShownOn
  <1> QED
    BY <1>4, <1>5, <1>6 DEF Inv, Waiting, Shown

-----------------------------------------------------------------------------
(* The invariant, and what it says *)

LEMMA InitHolds ==
  ASSUME Init
  PROVE  Inv
  <1> USE DEF Init
  <1>1. /\ Connectors20 \subseteq Nat /\ generation \in 0..MaxGeneration
        /\ BagToSet(tasks) = {} /\ IsABag(tasks)
    BY EvsesAreNat, RequestsAssumption DEF Connectors20, BagToSet, EmptyBag, SetToBag, IsABag
  <1>2. TypeOK
    BY <1>1 DEF TypeOK, TransactionIds, EvsesStatus
  <1>3. Base
    BY <1>1, <1>2 DEF Base, Counters, TasksOK, Numbering, Owned, EvsesStatus
  <1>4. ASSUME NEW o \in Connectors20 PROVE WaitingOn(o) /\ ShownOn(o)
    BY <1>1, <1>4 DEF WaitingOn, Waits, ShownOn
  <1> QED
    BY <1>3, <1>4 DEF Inv, Waiting, Shown

LEMMA InvStep ==
  ASSUME Inv, [Next]_vars
  PROVE  Inv' /\ Cleared
  <1>0. Base
    BY DEF Inv
  <1>1. ASSUME UNCHANGED <<life, registered, generation, connectorOf, connectorVars, tasks, evseOf, ended, late>>,
               saved' \in {saved, EvsesStatus}, linked' \in BOOLEAN
        PROVE  Inv' /\ Cleared
    <2>1. \E ts : Calm(ts)
      BY <1>0, <1>1, CalmRest
    <2> QED
      BY <1>1, <2>1, CalmKeeps, TxStays DEF connectorVars
  <1>2. CASE UNCHANGED vars
    BY <1>0, <1>1, <1>2 DEF vars, stationVars, Base, TypeOK
  <1>3. CASE Reports
    BY <1>0, <1>1, <1>3 DEF Reports, stationVars, Base, TypeOK
  <1>4. CASE Save
    BY <1>1, <1>4 DEF Save
  <1>5. CASE RequestStartTransaction
    BY <1>5, StartKeeps
  <1>6. CASE RequestStopTransaction
    BY <1>6, RequestStopKeeps
  <1>7. CASE ResetImmediate
    BY <1>7, ResetKeeps
  <1>8. ASSUME NEW ts, Calm(ts) PROVE Inv' /\ Cleared
    BY <1>8, CalmKeeps, TxStays DEF Calm
  <1>9. CASE ResetOnIdle
    BY <1>0, <1>8, <1>9, CalmResetOnIdle
  <1>10. CASE Register
    BY <1>0, <1>8, <1>10, CalmRegister
  <1>11. ASSUME NEW t \in BagToSet(tasks), Answered(t) \/ Elapsed(t)
         PROVE  Inv' /\ Cleared
    <2>1. CASE Occupied(t)
      BY <2>1, OccupiedKeeps, TxStays DEF Occupied
    <2>2. CASE EndedAnswered(t)
      BY <2>2, EndedKeeps
    <2>3. CASE AvailableAnswered(t)
      BY <2>3, AvailableKeeps, TxStays DEF AvailableAnswered
    <2>4. CASE Stopped20(t) \/ Terminate(t) \/ BecomesIdle(t)
      BY <1>0, <1>8, <2>4, CalmStopped
    <2>5. CASE Restore(t) \/ Notified20(t) \/ Down(t) \/ StopEnds(t) \/ Reinitialize(t)
      BY <1>0, <1>8, <2>5, CalmTasks
    <2>7. CASE Boot(t)
      BY <2>7, BootKeeps, TxStays DEF Boot
    <2>6. CASE Initialize(t)
      <3>1. generation' # generation
        BY <1>0, <2>6, RequestsAssumption DEF Initialize, Base, TypeOK
      <3> QED
        BY <2>6, <3>1, InitializeKeeps DEF Cleared
    <2> QED
      BY <1>11, <2>1, <2>2, <2>3, <2>4, <2>5, <2>6, <2>7 DEF Answered, Elapsed
  <1> QED
    BY <1>2, <1>3, <1>4, <1>5, <1>6, <1>7, <1>9, <1>10, <1>11 DEF Next, Transacting

LEMMA Invariance == Spec => []Inv
  <1>1. Init => Inv
    BY InitHolds
  <1>2. Inv /\ [Next]_vars => Inv'
    BY InvStep
  <1> QED
    BY <1>1, <1>2, PTL DEF Spec

\* The variables of the transactions and resets keep the shape the handlers of
\* OCPP20IncomingRequestService rely on.
THEOREM Typing == Spec => []TypeOK
  <1>1. Inv => TypeOK
    BY DEF Inv, Base
  <1> QED
    BY <1>1, Invariance, PTL

\* Until a reset has read the connectors back from the file: when nothing is in flight
\* that sets a connector without transaction, and no Occupied has come to it since it
\* lost its last one, it is not shown Occupied and keeps no TxProfile but one that
\* names another transaction.  What startTransaction sets, resetConnectorStatus and the
\* StatusNotification after it undo, whatever requests and resets overlap.
THEOREM ConnectorsSettle == Spec => []SettledConnector
  <1>1. Inv => SettledConnector
    <2> SUFFICES ASSUME Inv, generation = 0, NEW o \in Connectors20 \ late, tx[o] = None, Settled(o)
                 PROVE  status[o] # "Occupied" /\ \A p \in profiles[o] : p.names
      BY DEF SettledConnector
    <2>1. Frees(o) = {}
      BY DEF Settled, Frees, Current
    <2> QED
      BY <2>1 DEF Inv, Shown, ShownOn
  <1> QED
    BY <1>1, Invariance, PTL

\* No step but a replacement of the connectors takes a transaction from a connector
\* of which requestStopTransaction has sent no Ended event, unless two requests
\* stopped an earlier one.
THEOREM EndedBeforeCleared == Spec => ClearedAfterEnded
  <1>1. Inv /\ [Next]_vars =>
          [\A o \in Connectors20 :
             tx[o] # None /\ tx'[o] = None /\ generation' = generation =>
               ended[tx[o]] > 0 \/ EndedTwice(o) # {}]_vars
    BY InvStep DEF Cleared
  <1> QED
    BY <1>1, Invariance, PTL DEF Spec, ClearedAfterEnded

-----------------------------------------------------------------------------
(* The reports *)

ReportFields == {"n", "station", "id", "base", "asked", "alone", "stage", "data", "left"}

\* A report is of a station and a base of the simulator, asked for at a version the
\* station has reached.
ReportOK(t) ==
  /\ DOMAIN t = ReportFields
  /\ t.id \in RequestIds /\ t.station \in Stations /\ t.base \in ReportBases
  /\ t.asked \in Nat /\ t.asked <= version[t.station]

\* What the report is built from is what was asked for.
Suits(data, t) == data.station = t.station /\ data.base = t.base /\ data.version >= t.asked

\* A report whose requestId is its own: no other one has it, no answer with it
\* failed, and what is cached for it, and then taken from the cache, suits it.
Alone(t) ==
  t.alone =>
    /\ t.id \notin unanswered /\ \A u \in reports : u.id = t.id => u = t
    /\ t.stage = "answer" => Suits(reportDataCache[t.id], t)
    /\ t.stage = "notify" => Suits(t.data, t)

\* What is cached belongs to a report that is not complete, or to a failed answer.
Cache ==
  /\ DOMAIN reportDataCache = RequestIds /\ reportDataCache = [id \in RequestIds |-> reportDataCache[id]]
  /\ \A id \in RequestIds :
       reportDataCache[id] # NoReport => id \in unanswered \/ \E t \in reports : t.id = id

ReportsInv ==
  /\ version \in [Stations -> Nat]
  /\ \A t \in reports : ReportOK(t) /\ Alone(t)
  /\ Cache

LEMMA ChangeKeeps ==
  ASSUME ReportsInv, NEW s \in Stations, Change(s)
  PROVE  ReportsInv'
  <1>1. /\ version' = [version EXCEPT ![s] = @ + 1] /\ version \in [Stations -> Nat]
        /\ UNCHANGED <<reportDataCache, reports, unanswered>>
    BY DEF ReportsInv, Change
  <1>2. version' \in [Stations -> Nat] /\ \A r \in Stations : version'[r] >= version[r]
    BY <1>1
  <1>3. ASSUME NEW t \in reports PROVE ReportOK(t)' /\ Alone(t)'
    <2>1. ReportOK(t) /\ Alone(t)
      BY DEF ReportsInv
    <2>2. ReportOK(t)'
      BY <1>1, <1>2, <2>1 DEF ReportOK
    <2>3. Alone(t)'
      BY <1>1, <2>1 DEF Alone, Suits
    <2> QED
      BY <2>2, <2>3
  <1>4. Cache'
    BY <1>1 DEF ReportsInv, Cache
  <1> QED
    BY <1>1, <1>2, <1>3, <1>4 DEF ReportsInv

\* A request with a requestId that another report has, or a failed answer, makes
\* none of them alone; one with a fresh requestId builds what was asked for.
LEMMA GetKeeps ==
  ASSUME ReportsInv, NEW s \in Stations, GetBaseReport(s)
  PROVE  ReportsInv'
  <1>1. PICK id \in RequestIds, base \in Bases :
          /\ IF base \in ReportBases /\ HasContent(id, base)
             THEN LET shared == id \in unanswered \/ \E t \in reports : t.id = id
                      t == [n |-> requests, station |-> s, id |-> id, base |-> base, asked |-> version[s],
                            alone |-> ~shared, stage |-> "answer", data |-> NoReport, left |-> 0]
                  IN  /\ reportDataCache' = [reportDataCache EXCEPT ![id] = Cached(id, s, base)]
                      /\ reports' = {IF u.id = id THEN [u EXCEPT !.alone = FALSE] ELSE u : u \in reports}
                                    \union {t}
             ELSE UNCHANGED <<reportDataCache, reports>>
          /\ UNCHANGED <<version, unanswered>>
    BY DEF GetBaseReport
  <1>2. CASE ~(base \in ReportBases /\ HasContent(id, base))
    BY <1>1, <1>2 DEF ReportsInv, ReportOK, Alone, Cache
  <1>3. CASE base \in ReportBases /\ HasContent(id, base)
    <2>1. PICK shared : shared = (id \in unanswered \/ \E t \in reports : t.id = id)
      OBVIOUS
    <2>2. PICK new : new = [n |-> requests, station |-> s, id |-> id, base |-> base, asked |-> version[s],
                            alone |-> ~shared, stage |-> "answer", data |-> NoReport, left |-> 0]
      OBVIOUS
    <2>3. /\ reportDataCache' = [reportDataCache EXCEPT ![id] = Cached(id, s, base)]
          /\ reports' = {IF u.id = id THEN [u EXCEPT !.alone = FALSE] ELSE u : u \in reports} \union {new}
          /\ UNCHANGED <<version, unanswered>>
      BY <1>1, <1>3, <2>1, <2>2
    <2>4. /\ new.id = id /\ new.station = s /\ new.base = base /\ new.asked = version[s]
          /\ new.alone = ~shared /\ new.stage = "answer" /\ DOMAIN new = ReportFields
      BY <2>2 DEF ReportFields
    <2>5. version \in [Stations -> Nat] /\ version[s] \in Nat
      BY DEF ReportsInv
    <2>6. /\ DOMAIN reportDataCache' = RequestIds
          /\ reportDataCache'[id] = Cached(id, s, base)
          /\ \A i \in RequestIds \ {id} : reportDataCache'[i] = reportDataCache[i]
          /\ reportDataCache' = [i \in RequestIds |-> reportDataCache'[i]]
      BY <2>3 DEF ReportsInv, Cache
    <2>7. ReportOK(new)' /\ Alone(new)'
      <3>1. ReportOK(new)'
        BY <1>3, <2>3, <2>4, <2>5 DEF ReportOK
      <3>2. ASSUME ~shared
            PROVE  /\ id \notin unanswered /\ \A u \in reports : u.id # id
                   /\ Suits(reportDataCache'[id], new)
        <4>1. id \notin unanswered /\ \A u \in reports : u.id # id
          BY <2>1, <3>2
        <4>2. Cached(id, s, base) = Built(s, base)
          BY <4>1 DEF ReportsInv, Cache, Cached
        <4> QED
          BY <2>4, <2>5, <2>6, <4>1, <4>2 DEF Built, Suits
      <3>3. Alone(new)'
        <4> SUFFICES ASSUME ~shared PROVE Alone(new)'
          BY <2>4 DEF Alone
        <4>1. \A u \in reports' : u.id = id => u = new
          BY <2>3, <3>2
        <4>2. Suits(reportDataCache'[new.id], new)
          BY <2>4, <3>2
        <4> QED
          BY <2>3, <2>4, <3>2, <4>1, <4>2 DEF Alone, Suits
      <3> QED
        BY <3>1, <3>3
    <2>8. ASSUME NEW u \in reports, NEW v, v = IF u.id = id THEN [u EXCEPT !.alone = FALSE] ELSE u
          PROVE  ReportOK(v)' /\ Alone(v)' /\ v.id = u.id
      <3>1. ReportOK(u) /\ Alone(u)
        BY DEF ReportsInv
      <3>2. CASE u.id = id
        <4>1. /\ DOMAIN v = ReportFields /\ v.id = u.id /\ v.station = u.station /\ v.base = u.base
              /\ v.asked = u.asked /\ v.alone = FALSE
          BY <2>8, <3>1, <3>2 DEF ReportOK, ReportFields
        <4> QED
          BY <2>3, <3>1, <4>1 DEF ReportOK, Alone
      <3>3. CASE u.id # id
        <4>1. v = u
          BY <2>8, <3>3
        <4>2. ReportOK(u)'
          BY <2>3, <3>1 DEF ReportOK
        <4>3. reportDataCache'[u.id] = reportDataCache[u.id]
          BY <2>6, <3>1, <3>3 DEF ReportOK
        <4>4. ASSUME NEW w \in reports', w.id = u.id PROVE w \in reports
          <5>1. w # new
            BY <2>4, <3>3, <4>4
          <5>2. PICK x \in reports : w = IF x.id = id THEN [x EXCEPT !.alone = FALSE] ELSE x
            BY <2>3, <5>1
          <5>3. x.id # id
            <6>1. ReportOK(x)
              BY DEF ReportsInv
            <6>2. x.id = id => w.id = id
              BY <5>2, <6>1 DEF ReportOK, ReportFields
            <6> QED
              BY <3>3, <4>4, <6>2
          <5> QED
            BY <5>2, <5>3
        <4>5. Alone(u)'
          BY <2>3, <3>1, <4>3, <4>4 DEF Alone, Suits
        <4> QED
          BY <4>1, <4>2, <4>5
      <3> QED
        BY <3>2, <3>3
    <2>9. \A v \in reports' : ReportOK(v)' /\ Alone(v)'
      BY <2>3, <2>7, <2>8
    <2>10. Cache'
      <3>1. ASSUME NEW i \in RequestIds, reportDataCache'[i] # NoReport
            PROVE  i \in unanswered \/ \E t \in reports' : t.id = i
        <4>1. CASE i = id
          BY <2>3, <2>4, <4>1
        <4>2. CASE i # id
          <5>1. i \in unanswered \/ \E t \in reports : t.id = i
            BY <2>6, <3>1, <4>2 DEF ReportsInv, Cache
          <5>2. ASSUME NEW t \in reports, t.id = i PROVE t \in reports'
            BY <2>3, <4>2, <5>2
          <5> QED
            BY <5>1, <5>2
        <4> QED
          BY <4>1, <4>2
      <3> QED
        BY <2>3, <2>6, <3>1 DEF Cache
    <2> QED
      BY <2>3, <2>5, <2>9, <2>10 DEF ReportsInv
  <1> QED
    BY <1>2, <1>3

\* A report goes on to its messages, from one to the next, or ends.
LEMMA ReportingKeeps ==
  ASSUME ReportsInv, Reporting
  PROVE  ReportsInv'
  <1>1. PICK t \in reports : AnswerSent(t) \/ AnswerFails(t) \/ Notified(t)
    BY DEF Reporting
  <1>2. ReportOK(t) /\ Alone(t) /\ Cache /\ version \in [Stations -> Nat]
    BY DEF ReportsInv
  <1>3. ASSUME NEW u, ReportOK(u), u.id = t.id, u.alone = t.alone,
               u.alone => /\ u.stage = "answer" => Suits(reportDataCache[u.id], u)
                          /\ u.stage = "notify" => Suits(u.data, u),
               reports' = (reports \ {t}) \union {u},
               UNCHANGED <<version, reportDataCache, unanswered>>
        PROVE  ReportsInv'
    <2>1. ASSUME NEW v \in reports' PROVE ReportOK(v)' /\ Alone(v)'
      <3>1. CASE v = u
        <4>1. ReportOK(u)'
          BY <1>3 DEF ReportOK
        <4>2. u.alone => u.id \notin unanswered /\ \A w \in reports' : w.id = u.id => w = u
          BY <1>2, <1>3 DEF Alone
        <4> QED
          BY <1>3, <3>1, <4>1, <4>2 DEF Alone, Suits
      <3>2. CASE v # u
        <4>1. v \in reports /\ v # t
          BY <1>3, <3>2
        <4>2. ReportOK(v) /\ Alone(v)
          BY <4>1 DEF ReportsInv
        <4>3. v.alone => v.id # t.id
          BY <4>1, <4>2 DEF Alone
        <4> QED
          BY <1>3, <4>2, <4>3 DEF ReportOK, Alone, Suits
      <3> QED
        BY <3>1, <3>2
    <2>2. Cache'
      BY <1>2, <1>3 DEF Cache
    <2> QED
      BY <1>2, <1>3, <2>1, <2>2 DEF ReportsInv
  <1>4. ASSUME reports' = reports \ {t}, UNCHANGED version,
               \/ reportDataCache' = reportDataCache /\ unanswered' = unanswered \union {t.id}
               \/ unanswered' = unanswered /\ reportDataCache' = [reportDataCache EXCEPT ![t.id] = NoReport]
        PROVE  ReportsInv'
    <2>1. /\ DOMAIN reportDataCache' = RequestIds
          /\ reportDataCache' = [i \in RequestIds |-> reportDataCache'[i]]
          /\ \A i \in RequestIds \ {t.id} : reportDataCache'[i] = reportDataCache[i]
          /\ t.id \in unanswered' \/ reportDataCache'[t.id] = NoReport
          /\ \A i \in unanswered' : i \in unanswered \/ i = t.id
          /\ \A i \in unanswered : i \in unanswered'
      BY <1>2, <1>4 DEF Cache, ReportOK
    <2>2. ASSUME NEW v \in reports' PROVE ReportOK(v)' /\ Alone(v)'
      <3>1. v \in reports /\ v # t
        BY <1>4
      <3>2. ReportOK(v) /\ Alone(v)
        BY <3>1 DEF ReportsInv
      <3>3. v.alone => v.id # t.id
        BY <3>1, <3>2 DEF Alone
      <3>4. ReportOK(v)'
        BY <1>4, <3>2 DEF ReportOK
      <3>5. v.alone => reportDataCache'[v.id] = reportDataCache[v.id] /\ v.id \notin unanswered'
        BY <2>1, <3>2, <3>3 DEF ReportOK, Alone
      <3> QED
        BY <1>4, <3>2, <3>4, <3>5 DEF Alone, Suits
    <2>3. Cache'
      <3>1. ASSUME NEW i \in RequestIds, reportDataCache'[i] # NoReport
            PROVE  i \in unanswered' \/ \E v \in reports' : v.id = i
        <4>1. CASE i = t.id
          BY <2>1, <3>1, <4>1
        <4>2. CASE i # t.id
          <5>1. i \in unanswered \/ \E v \in reports : v.id = i
            BY <1>2, <2>1, <3>1, <4>2 DEF Cache
          <5> QED
            BY <1>4, <2>1, <4>2, <5>1
        <4> QED
          BY <4>1, <4>2
      <3> QED
        BY <2>1, <3>1 DEF Cache
    <2> QED
      BY <1>2, <1>4, <2>2, <2>3 DEF ReportsInv
  <1>5. CASE AnswerSent(t)
    <2>1. PICK u : u = [t EXCEPT !.stage = "notify", !.data = Cached(t.id, t.station, t.base),
                        !.left = Messages(Cached(t.id, t.station, t.base))]
      OBVIOUS
    <2>2. /\ DOMAIN u = ReportFields /\ u.id = t.id /\ u.station = t.station /\ u.base = t.base
          /\ u.asked = t.asked /\ u.alone = t.alone /\ u.stage = "notify"
          /\ u.data = Cached(t.id, t.station, t.base)
      BY <1>2, <2>1 DEF ReportOK, ReportFields
    <2>3. ReportOK(u)
      BY <1>2, <2>2 DEF ReportOK
    <2>4. t.alone => Suits(Cached(t.id, t.station, t.base), t)
      <3>1. version[t.station] >= t.asked
        BY <1>2 DEF ReportOK
      <3>2. Suits(Built(t.station, t.base), t)
        BY <3>1 DEF Suits, Built
      <3>3. t.alone => Suits(reportDataCache[t.id], t)
        BY <1>2, <1>5 DEF Alone, AnswerSent
      <3> QED
        BY <3>2, <3>3 DEF Cached
    <2>5. u.alone => Suits(u.data, u)
      BY <2>2, <2>4 DEF Suits
    <2>6. /\ reports' = (reports \ {t}) \union {u}
          /\ UNCHANGED <<version, reportDataCache, unanswered>>
      BY <1>5, <2>1 DEF AnswerSent
    <2> QED
      BY <1>3, <2>2, <2>3, <2>5, <2>6
  <1>6. CASE AnswerFails(t)
    BY <1>4, <1>6 DEF AnswerFails
  <1>7. CASE Notified(t) /\ t.left > 1
    <2>1. PICK u : u = [t EXCEPT !.left = @ - 1]
      OBVIOUS
    <2>2. /\ DOMAIN u = ReportFields /\ u.id = t.id /\ u.station = t.station /\ u.base = t.base
          /\ u.asked = t.asked /\ u.alone = t.alone /\ u.stage = t.stage /\ u.data = t.data
      BY <1>2, <2>1 DEF ReportOK, ReportFields
    <2>3. ReportOK(u)
      BY <1>2, <2>2 DEF ReportOK
    <2>4. u.alone => Suits(u.data, u) /\ u.stage = "notify"
      BY <1>2, <1>7, <2>2 DEF Alone, Notified, Suits
    <2>5. /\ reports' = (reports \ {t}) \union {u}
          /\ UNCHANGED <<version, reportDataCache, unanswered>>
      BY <1>7, <2>1 DEF Notified
    <2> QED
      BY <1>3, <2>2, <2>3, <2>4, <2>5
  <1>8. CASE Notified(t) /\ ~(t.left > 1)
    BY <1>4, <1>8 DEF Notified
  <1> QED
    BY <1>1, <1>5, <1>6, <1>7, <1>8

\* Every station of the worker is asked for reports, and the one that is reset
\* saves its configuration.
LEMMA ReportsStep ==
  ASSUME ReportsInv, [Next]_vars
  PROVE  ReportsInv'
  <1>1. CASE UNCHANGED reportVars
    BY <1>1 DEF reportVars, ReportsInv, ReportOK, Alone, Cache
  <1>2. CASE Reports
    BY <1>2, ReportingKeeps, GetKeeps DEF Reports
  <1>3. CASE Save
    BY <1>3, RequestsAssumption, ChangeKeeps DEF Save
  <1>4. CASE Transacting /\ ~Save
    <2>1. UNCHANGED reportVars
      BY <1>4 DEF Transacting, RequestStartTransaction, RequestStopTransaction, ResetImmediate, ResetOnIdle,
        Register, Answered, Elapsed, Occupied, EndedAnswered, AvailableAnswered, Stopped20, Terminate,
        Notified20, Down, StopEnds, Boot, Restore, BecomesIdle, Initialize, Reinitialize, NewRequest
    <2> QED
      BY <1>1, <2>1
  <1> QED
    BY <1>1, <1>2, <1>3, <1>4 DEF Next, vars

\* A report is built from the station and the base that were asked for, at the time
\* of the request or later, while its requestId is used by no other report of the
\* worker: handleRequestGetBaseReport and the event handler that sends the
\* NotifyReport messages meet in a cache the stations share.
THEOREM ReportsAreCurrent == Spec => []ReportIsCurrent
  <1>1. Init => ReportsInv
    BY DEF Init, ReportInit, ReportsInv, Cache
  <1>2. ReportsInv /\ [Next]_vars => ReportsInv'
    BY ReportsStep
  <1>3. ReportsInv => ReportIsCurrent
    BY DEF ReportsInv, Alone, Suits, ReportIsCurrent
  <1> QED
    BY <1>1, <1>2, <1>3, PTL DEF Spec
=============================================================================
