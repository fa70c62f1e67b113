----------------------- MODULE ServerLifecycleProofs -----------------------
(***************************************************************************)
(* What holds of ServerLifecycle for every set of models and every bound:  *)
(* the types, the ownership of the exit channel, that a failure is kept,   *)
(* that Normal mode serves one model, that the models shown as loaded have *)
(* a server and are listed by name, that each server is used as its        *)
(* contract allows, and that the notice of a death stays until it is read. *)
(***************************************************************************)
EXTENDS ServerLifecycle, FiniteSetTheorems, SequenceTheorems, TLAPS

\* The exit channel belongs to the server that is being spawned, unless that
\* spawn request started no task.
ListensToSpawned ==
    spawnTask # None => exitRx \in {None, spawnTask} \/ proc[exitRx] = "none"

\* No process has a number that no spawn request got yet.
NotYetSpawned == \A g \in Server : g > spawns => proc[g] = "none"

\* Events are drained before the handlers behind the drain run, so keys find
\* the channel empty.
QueueDrained ==
    pc \notin {"logs", "sync", "completion", "exit", "drain"} => queue = << >>

\* A spawn request is asked for last, after the handle was given up.
SpawnIsLast ==
    \A i \in 1..Len(queue) :
        queue[i].kind = "Spawn" =>
            i = Len(queue) /\ handle = None /\ spawns < MaxSpawn

\* The handlers that use a pending request find one.
HandlerHasWork ==
    /\ pc = "unload" => pendUnload # NoModel
    /\ pc = "kill" => pendKill # None
    /\ pendLoad # NoModel => loads < MaxLoads

\* The inductive invariant of the types, the queue and the exit channel, in parts.
QueueInv == QueueDrained /\ SpawnIsLast

ListenInv == ListensToItsServer /\ ListensToSpawned /\ NotYetSpawned

IInv == TypeOK /\ QueueInv /\ HandlerHasWork /\ ListenInv

-----------------------------------------------------------------------------
\* Where GoOn can lead, and what it guarantees there.
LEMMA GoOnTo ==
    ASSUME NEW first \in 1..10, GoOn(first)
    PROVE  /\ pc' \in {"logs", "sync", "completion", "exit", "drain", "spawned", "load",
                       "unload", "kill", "key"}
           /\ pc' = "unload" => pendUnload' # NoModel
           /\ pc' = "kill" => pendKill' # None
           /\ first <= 5 => QueueDrained'
<1>1. PICK j \in first..Len(Handlers) :
          /\ HasWork'[Handlers[j]]
          /\ \A k \in first..(j - 1) : ~HasWork'[Handlers[k]]
          /\ pc' = Handlers[j]
  BY DEF GoOn
<1>2. Len(Handlers) = 10 /\ j \in 1..10
  BY <1>1 DEF Handlers
<1>3. \/ j = 1 /\ pc' = "logs"
      \/ j = 2 /\ pc' = "sync"
      \/ j = 3 /\ pc' = "completion"
      \/ j = 4 /\ pc' = "exit"
      \/ j = 5 /\ pc' = "drain"
      \/ j = 6 /\ pc' = "spawned"
      \/ j = 7 /\ pc' = "load"
      \/ j = 8 /\ pc' = "unload"
      \/ j = 9 /\ pc' = "kill"
      \/ j = 10 /\ pc' = "key"
  BY <1>1, <1>2 DEF Handlers
<1>7. HasWork'[pc']
  BY <1>1
<1>4. pc' = "unload" => pendUnload' # NoModel
  <2>1. HasWork'["unload"] = (confirm = NoModel /\ pendUnload # NoModel)'
    BY DEF HasWork
  <2> QED
    BY <1>7, <2>1
<1>5. pc' = "kill" => pendKill' # None
  <2>1. HasWork'["kill"] = (pendKill' # None)
    BY DEF HasWork
  <2> QED
    BY <1>7, <2>1
<1>6. first <= 5 => QueueDrained'
  <2> SUFFICES ASSUME first <= 5, j > 5 PROVE queue' = << >>
    BY <1>3 DEF QueueDrained
  <2>1. ~HasWork'[Handlers[5]]
    BY <1>1, <1>2
  <2>2. Handlers[5] = "drain"
    BY DEF Handlers
  <2>3. HasWork'["drain"] = (queue' # << >>)
    BY DEF HasWork
  <2> QED
    BY <2>1, <2>2, <2>3
<1> QED
  BY <1>3, <1>4, <1>5, <1>6

-----------------------------------------------------------------------------
\* The types in the beginning.
LEMMA TypeInit == Init => TypeOK
<1> SUFFICES ASSUME Init PROVE TypeOK
  OBVIOUS
<1>1. spawns \in 0..MaxSpawn /\ loads \in 0..MaxLoads
  BY BoundAssumption DEF Init
<1>2. queue \in Seq(Event)
  BY DEF Init
<1>3. proc \in [Server -> {"none", "spawning", "failed", "starting", "ready", "dead", "gone"}]
  BY DEF Init
<1>4. mstate \in [Models -> {"Available", "Loading", "Loaded", "Benchmarking", "Failed"}]
  BY DEF Init
<1> QED
  BY <1>1, <1>2, <1>3, <1>4 DEF Init, TypeOK, MaybeServer, MaybeModel, None, Status

\* The steps of processes and tasks keep the types.
LEMMA TypeProcStep ==
    ASSUME TypeOK, NEW g \in Server, ProcStep(g)
    PROVE  TypeOK'
<1> USE BoundAssumption DEF TypeOK, EnvUnchanged, taskVars, handleVars, pendVars, modelVars,
        routerVars, feedVars
<1>1. CASE SpawnSucceeds(g) \/ SpawnFails(g)
  BY <1>1 DEF SpawnSucceeds, SpawnFails
<1>2. CASE BecomesReady(g)
  BY <1>2 DEF BecomesReady, Status
<1>3. CASE LogsError(g)
  BY <1>3 DEF LogsError, procVars
<1>4. CASE Dies(g) \/ IsKilled(g)
  BY <1>4 DEF Dies, IsKilled
<1>5. CASE Announces(g)
  BY <1>5 DEF Announces
<1> QED
  BY <1>1, <1>2, <1>3, <1>4, <1>5 DEF ProcStep

\* The types, by the tasks beside the loop.
LEMMA TypeTaskStep ==
    ASSUME TypeOK, TaskStep
    PROVE  TypeOK'
<1> USE BoundAssumption DEF TypeOK, EnvUnchanged, procVars, taskVars, handleVars, pendVars,
        modelVars, routerVars, feedVars
<1>1. CASE PollSucceeds
  BY <1>1 DEF PollSucceeds
<1>2. CASE SyncPoll
  BY <1>2 DEF SyncPoll
<1>3. CASE RouterStep
  BY <1>3 DEF RouterStep, Status
<1>4. ASSUME NEW g \in MaybeServer, NEW m \in Models, LoadRequest(g, m)
      PROVE  TypeOK'
  <2>1. rstatus' \in [Models -> Status] /\ loadErr' \in SUBSET Models
    BY <1>4 DEF LoadRequest, Status
  <2>2. lines' \subseteq {"listening", "error"}
    BY <1>4 DEF LoadRequest
  <2> QED
    BY <1>4, <2>1, <2>2 DEF LoadRequest
<1>5. ASSUME NEW g \in Server, NEW m \in Models, UnloadRequest(g, m)
      PROVE  TypeOK'
  BY <1>5 DEF UnloadRequest, Status
<1> QED
  BY <1>1, <1>2, <1>3, <1>4, <1>5 DEF TaskStep

\* The ticks keep the types.
LEMMA TypeTick ==
    ASSUME TypeOK, Tick
    PROVE  TypeOK'
<1> USE BoundAssumption DEF TypeOK, procVars, taskVars, handleVars, pendVars, routerVars
<1>1. CASE TickServerLogs
  <2>1. pc' \in {"sync", "completion", "exit", "drain", "spawned", "load", "unload", "kill",
                "key", "logs"}
    BY <1>1, GoOnTo DEF TickServerLogs
  <2>2. mstate' \in [Models -> {"Available", "Loading", "Loaded", "Benchmarking", "Failed"}]
        /\ names' \in SUBSET Models /\ poll' \in {"none", "polling", "done"}
    BY <1>1 DEF TickServerLogs, FailLoads, FailLoadsOf
  <2>3. phases' \in SUBSET {"ServerListening", "Complete"} /\ lines' = {}
    BY <1>1 DEF TickServerLogs
  <2> QED
    BY <1>1, <2>1, <2>2, <2>3 DEF TickServerLogs
<1>2. CASE TickSync
  <2>1. pc' \in {"sync", "completion", "exit", "drain", "spawned", "load", "unload", "kill",
                "key", "logs"}
    BY <1>2, GoOnTo DEF TickSync
  <2>2. [m \in Models |-> Synced(m)]
          \in [Models -> {"Available", "Loading", "Loaded", "Benchmarking", "Failed"}]
    BY DEF Synced
  <2>4. mstate' \in [Models -> {"Available", "Loading", "Loaded", "Benchmarking", "Failed"}]
    BY <1>2, <2>2 DEF TickSync, FailLoadsOf, modelVars
  <2>3. names' \in SUBSET Models
    BY <1>2 DEF TickSync, FailLoadsOf, SyncedNames
  <2>5. poll' \in {"none", "polling", "done"}
    BY <1>2 DEF TickSync, FailLoadsOf
  <2>6. phases' \in SUBSET {"ServerListening", "Complete"} /\ snap' = << >>
    BY <1>2 DEF TickSync
  <2> QED
    BY <1>2, <2>1, <2>3, <2>4, <2>5, <2>6 DEF TickSync
<1>3. CASE TickSyncThrottled
  BY <1>3, GoOnTo DEF TickSyncThrottled, modelVars, feedVars
<1>4. CASE TickLoadingCompletion
  <2>1. pc' \in {"sync", "completion", "exit", "drain", "spawned", "load", "unload", "kill",
                "key", "logs"}
    BY <1>4, GoOnTo DEF TickLoadingCompletion
  <2>2. CompletedLoad \subseteq Models
    BY ModelsAssumption DEF CompletedLoad
  <2>3. mstate' \in [Models -> {"Available", "Loading", "Loaded", "Benchmarking", "Failed"}]
        /\ names' \in SUBSET Models
    <3>1. CASE poll # "done" \/ handle = None
      BY <1>4, <3>1 DEF TickLoadingCompletion, FinishLoading
    <3>2. CASE poll = "done" /\ handle # None /\ CompletedLoad = {}
      BY <1>4, <3>2 DEF TickLoadingCompletion, FinishLoading
    <3>3. CASE poll = "done" /\ handle # None /\ CompletedLoad # {}
      <4> DEFINE rest == [m \in Models |-> IF Loading(m) THEN "Available" ELSE mstate[m]]
      <4>1. PICK t \in CompletedLoad :
                mstate' = [rest EXCEPT ![t] = "Loaded"] /\ names' = names \cup {t}
        BY <1>4, <3>3 DEF TickLoadingCompletion, FinishLoading
      <4>2. rest \in [Models -> {"Available", "Loading", "Loaded", "Benchmarking", "Failed"}]
        OBVIOUS
      <4> HIDE DEF rest
      <4> QED
        BY <4>1, <4>2, <2>2
    <3> QED
      BY <3>1, <3>2, <3>3
  <2>4. /\ phases' \in SUBSET {"ServerListening", "Complete"}
        /\ poll' \in {"none", "polling", "done"}
        /\ snap' \in {snap, << >>}
    BY <1>4 DEF TickLoadingCompletion, FinishLoading
  <2> QED
    BY <1>4, <2>1, <2>3, <2>4 DEF TickLoadingCompletion
<1>5. CASE TickServerExit
  <2>1. pc' \in {"sync", "completion", "exit", "drain", "spawned", "load", "unload", "kill",
                "key", "logs"}
    BY <1>5, GoOnTo DEF TickServerExit
  <2>2. mstate' \in [Models -> {"Available", "Loading", "Loaded", "Benchmarking", "Failed"}]
    BY <1>5 DEF TickServerExit, AfterExit
  <2>3. None \in MaybeServer
    BY DEF MaybeServer
  <2> QED
    BY <1>5, <2>1, <2>2, <2>3 DEF TickServerExit
<1> QED
  BY <1>1, <1>2, <1>3, <1>4, <1>5 DEF Tick

\* The events, API operations and kills of the loop keep the types.
LEMMA TypeOperation ==
    ASSUME TypeOK, QueueInv, HandlerHasWork,
           \/ DrainQueue \/ SpawnPending \/ TickSpawnResult
           \/ TryExecuteApiLoad \/ TryExecuteApiUnload
           \/ ProcessPendingKill \/ FinishPendingKill \/ NoKey \/ Exit
    PROVE  TypeOK'
<1> USE BoundAssumption DEF TypeOK, procVars, taskVars, handleVars, pendVars, modelVars,
        routerVars, feedVars
<1> DEFINE Place == {"logs", "sync", "completion", "exit", "drain", "spawned", "load",
                     "unload", "kill", "key"}
           States == {"Available", "Loading", "Loaded", "Benchmarking", "Failed"}
<1>n. None \in MaybeServer /\ NoModel \in MaybeModel
  BY DEF MaybeServer, MaybeModel
<1>1. CASE DrainQueue
  <2>1. pc' \in Place
    BY <1>1, GoOnTo DEF DrainQueue
  <2>2. queue # << >> /\ queue' = Tail(queue) /\ queue' \in Seq(Event)
    BY <1>1 DEF DrainQueue
  <2>3. 1 \in 1..Len(queue) /\ Head(queue) = queue[1] /\ Head(queue) \in Event
    BY <2>2
  <2>4. CASE Head(queue).kind = "Spawn"
    <3>1. spawns < MaxSpawn
      BY <2>3, <2>4 DEF QueueInv, SpawnIsLast
    <3>2. spawns + 1 \in Server
      BY <3>1 DEF Server
    <3>3. Head(queue).model \in MaybeModel
      BY <2>3, <2>4 DEF Event
    <3>4. ProcessPendingSpawn(Head(queue).model) /\ UNCHANGED <<loads, pendKill>>
      BY <1>1, <2>4 DEF DrainQueue
    <3>5. mstate' \in [Models -> States]
      BY <3>4 DEF ProcessPendingSpawn
    <3>6. /\ spawns' \in 0..MaxSpawn /\ exitRx' \in MaybeServer
          /\ exitMsg' \in SUBSET Server /\ loadErr' = {} /\ lines' = {}
      BY <3>4, <3>2 DEF ProcessPendingSpawn, Server, MaybeServer
    <3>7. /\ proc' \in [Server -> {"none", "spawning", "failed", "starting", "ready",
                                    "dead", "gone"}]
          /\ model' \in [Server -> MaybeModel]
          /\ spawnTask' \in MaybeServer
      BY <3>4, <3>2, <3>3 DEF ProcessPendingSpawn, MaybeServer
    <3> QED
      BY <1>1, <2>1, <2>2, <3>4, <3>5, <3>6, <3>7 DEF DrainQueue
  <2>5. CASE Head(queue).kind = "KillHandle"
    <3>1. Head(queue).server \in Server
      BY <2>3, <2>5 DEF Event
    <3>2. pendKill' \in MaybeServer
      BY <1>1, <2>5, <3>1 DEF DrainQueue, MaybeServer
    <3> QED
      BY <1>1, <2>1, <2>2, <2>5, <3>2 DEF DrainQueue
  <2> QED
    BY <1>1, <2>4, <2>5 DEF DrainQueue
<1>2. CASE SpawnPending
  BY <1>2, GoOnTo DEF SpawnPending
<1>3. CASE TickSpawnResult
  <2>1. pc' \in Place
    BY <1>3, GoOnTo DEF TickSpawnResult
  <2>2. CASE proc[spawnTask] = "failed"
    <3>1. mstate' \in [Models -> States] /\ names' \in SUBSET Models /\ poll' = "none"
      BY <1>3, <2>2 DEF TickSpawnResult, FailLoads, FailLoadsOf
    <3> QED
      BY <1>3, <1>n, <2>1, <2>2, <3>1 DEF TickSpawnResult
  <2>3. CASE proc[spawnTask] # "failed"
    BY <1>3, <1>n, <2>1, <2>3 DEF TickSpawnResult
  <2> QED
    BY <2>2, <2>3
<1>4. CASE TryExecuteApiLoad
  <2>1. pc' \in Place
    BY <1>4, GoOnTo DEF TryExecuteApiLoad
  <2>2. mstate' \in [Models -> States] /\ names' \in SUBSET Models
    BY <1>4 DEF TryExecuteApiLoad
  <2>3. phases' \in SUBSET {"ServerListening", "Complete"} /\ poll' \in {"none", "polling", "done"}
    BY <1>4 DEF TryExecuteApiLoad
  <2>4. loads' \in 0..MaxLoads
    BY <1>4 DEF TryExecuteApiLoad, HandlerHasWork
  <2>5. pendLoad' \in MaybeModel /\ snap' \in {snap, << >>} /\ loadErr' = {}
    BY <1>4, <1>n DEF TryExecuteApiLoad
  <2>6. loading' \in SUBSET (MaybeServer \X Models)
    <3>1. spawns \in MaybeServer
      BY DEF MaybeServer, Server, None
    <3>2. pendLoad # NoModel => pendLoad \in Models
      BY DEF MaybeModel
    <3> QED
      BY <1>4, <3>1, <3>2 DEF TryExecuteApiLoad
  <2> QED
    BY <1>4, <2>1, <2>2, <2>3, <2>4, <2>5, <2>6 DEF TryExecuteApiLoad
<1>5. CASE TryExecuteApiUnload
  <2>1. pc' \in Place
    BY <1>5, GoOnTo DEF TryExecuteApiUnload
  <2>2. pendUnload \in Models
    BY <1>5 DEF TryExecuteApiUnload, HandlerHasWork, MaybeModel
  <2>3. CASE handle = None
    BY <1>5, <1>n, <2>1, <2>3 DEF TryExecuteApiUnload
  <2>4. CASE handle # None
    <3>1. handle \in Server
      BY <2>4 DEF MaybeServer
    <3>2. pendKill' \in MaybeServer /\ unloading' \in SUBSET (Server \X Models)
      BY <1>5, <2>2, <2>4, <3>1 DEF TryExecuteApiUnload
    <3>3. mstate' \in [Models -> States] /\ names' \in SUBSET Models
      BY <1>5, <2>2, <2>4 DEF TryExecuteApiUnload
    <3> QED
      BY <1>5, <1>n, <2>1, <3>2, <3>3 DEF TryExecuteApiUnload
  <2> QED
    BY <2>3, <2>4
<1>6. CASE ProcessPendingKill
  <2>1. pendKill \in Server
    BY <1>6 DEF ProcessPendingKill, HandlerHasWork, MaybeServer
  <2> QED
    BY <1>6, <1>n, <2>1 DEF ProcessPendingKill, Ask
<1>7. CASE FinishPendingKill
  <2>1. proc' \in [Server -> {"none", "spawning", "failed", "starting", "ready", "dead", "gone"}]
    BY <1>7 DEF FinishPendingKill, Ensured
  <2>2. mstate' \in [Models -> States]
    BY <1>7 DEF FinishPendingKill, AfterKill
  <2> QED
    BY <1>7, <1>n, <2>1, <2>2 DEF FinishPendingKill
<1>8. CASE NoKey
  BY <1>8, GoOnTo DEF NoKey, NextTurn, KeyUnchanged
<1>9. CASE Exit
  BY <1>9 DEF Exit
<1> QED
  BY <1>1, <1>2, <1>3, <1>4, <1>5, <1>6, <1>7, <1>8, <1>9

\* At a key no spawn request waits, so the bound counts the past ones.
LEMMA AskedAtKey ==
    ASSUME TypeOK, queue = << >>
    PROVE  SpawnsAsked = spawns
<1>1. {i \in DOMAIN queue : queue[i].kind = "Spawn"} = {}
  OBVIOUS
<1>2. Cardinality({i \in DOMAIN queue : queue[i].kind = "Spawn"}) = 0
  BY <1>1, FS_EmptySet
<1> QED
  BY <1>2, BoundAssumption DEF SpawnsAsked, TypeOK

\* What a key of the models panel leaves in the event channel: a kill request,
\* a spawn request or first the one and then the other.
LEMMA LoadKeyQueue ==
    ASSUME TypeOK, QueueInv, NEW m \in Models, LoadKey(m)
    PROVE  /\ queue' \in Seq(Event)
           /\ handle' \in {handle, None}
           /\ SpawnIsLast'
<1>1. queue = << >>
  BY DEF LoadKey, QueueInv, QueueDrained
<1>2. PICK healthy \in IF Answering = {} THEN {FALSE} ELSE BOOLEAN :
        LET giveUp == handle # None /\ (~healthy \/ (mode = "Normal" /\ ~AnotherLoaded))
            kills == IF giveUp THEN Append(queue, KillEvent) ELSE queue
        IN /\ handle' = TakeHandle(giveUp)
           /\ \/ queue' = kills
              \/ /\ giveUp \/ handle = None
                 /\ SpawnsAsked < MaxSpawn
                 /\ queue' = Append(kills, SpawnEvent(IF mode = "Router" THEN NoModel ELSE m))
              \/ ~giveUp /\ queue' = queue
  BY DEF LoadKey
<1> DEFINE giveUp == handle # None /\ (~healthy \/ (mode = "Normal" /\ ~AnotherLoaded))
           who == IF mode = "Router" THEN NoModel ELSE m
<1>3. handle' = (IF giveUp THEN None ELSE handle) /\ spawns' = spawns
  BY <1>2 DEF TakeHandle, LoadKey, KeyUnchanged, taskVars
<1>4. \/ queue' = << >>
      \/ giveUp /\ queue' = <<KillEvent>>
      \/ giveUp /\ queue' = <<KillEvent, SpawnEvent(who)>> /\ spawns < MaxSpawn
      \/ handle = None /\ queue' = <<SpawnEvent(who)>> /\ spawns < MaxSpawn
  <2>1. SpawnsAsked = spawns
    BY <1>1, AskedAtKey
  <2>2. Append(queue, KillEvent) = <<KillEvent>>
    BY <1>1
  <2>3. Append(queue, SpawnEvent(who)) = <<SpawnEvent(who)>>
    BY <1>1
  <2>4. Append(<<KillEvent>>, SpawnEvent(who)) = <<KillEvent, SpawnEvent(who)>>
    <3>1. \A k, e : Append(<<k>>, e) = <<k, e>>
      <4> TAKE k, e
      <4>1. <<k>> \in Seq({k, e}) /\ <<k, e>> \in Seq({k, e})
        OBVIOUS
      <4>2. /\ Append(<<k>>, e) \in Seq({k, e})
            /\ Len(Append(<<k>>, e)) = 2
            /\ Append(<<k>>, e)[1] = k
            /\ Append(<<k>>, e)[2] = e
        BY <4>1
      <4>3. Len(<<k, e>>) = 2 /\ <<k, e>>[1] = k /\ <<k, e>>[2] = e
        OBVIOUS
      <4> DEFINE s == Append(<<k>>, e)
                 t == <<k, e>>
      <4>4. s \in Seq({k, e}) /\ t \in Seq({k, e}) /\ Len(s) = Len(t)
        BY <4>1, <4>2, <4>3
      <4>5. \A i \in 1..Len(s) : s[i] = t[i]
        BY <4>2, <4>3
      <4> HIDE DEF s, t
      <4>6. s = t
        BY <4>4, <4>5, SeqEqual
      <4> QED
        BY <4>6 DEF s, t
    <3> QED
      BY <3>1
  <2> QED
    BY <1>1, <1>2, <2>1, <2>2, <2>3, <2>4
<1>5. SpawnEvent(who) \in Event /\ SpawnEvent(who).kind = "Spawn"
  BY DEF SpawnEvent, Event, MaybeModel
<1>6. /\ giveUp => KillEvent \in Event
      /\ KillEvent.kind = "KillHandle"
  BY DEF KillEvent, Event, TypeOK, MaybeServer
<1> HIDE DEF giveUp, who
<1>7. queue' \in Seq(Event)
  <2>1. \A k \in Event : <<k>> \in Seq(Event)
    OBVIOUS
  <2>2. \A k, e \in Event : <<k, e>> \in Seq(Event)
    OBVIOUS
  <2>3. << >> \in Seq(Event)
    OBVIOUS
  <2> QED
    BY <1>4, <1>5, <1>6, <2>1, <2>2, <2>3, Zenon
<1>8. SpawnIsLast'
  <2>1. CASE queue' = << >>
    BY <2>1 DEF SpawnIsLast
  <2>2. CASE queue' = <<KillEvent>>
    BY <2>2, <1>6 DEF SpawnIsLast
  <2>3. CASE giveUp /\ queue' = <<KillEvent, SpawnEvent(who)>> /\ spawns < MaxSpawn
    BY <2>3, <1>3, <1>5, <1>6 DEF SpawnIsLast
  <2>4. CASE handle = None /\ queue' = <<SpawnEvent(who)>> /\ spawns < MaxSpawn
    BY <2>4, <1>3, <1>5 DEF SpawnIsLast
  <2> QED
    BY <1>4, <2>1, <2>2, <2>3, <2>4
<1> QED
  BY <1>3, <1>7, <1>8

\* The types, by the keys.
LEMMA TypeKey ==
    ASSUME TypeOK, QueueInv, Key
    PROVE  TypeOK'
<1> USE DEF TypeOK, KeyUnchanged, procVars, taskVars, modelVars, routerVars, feedVars
<1> DEFINE Place == {"logs", "sync", "completion", "exit", "drain", "spawned", "load",
                     "unload", "kill", "key"}
<1>n. None \in MaybeServer /\ NoModel \in MaybeModel /\ Models \subseteq MaybeModel
  BY DEF MaybeServer, MaybeModel
<1>g. ASSUME NextTurn PROVE pc' \in Place
  BY <1>g, GoOnTo DEF NextTurn
<1>1. ASSUME NEW m \in Models, LoadKey(m) PROVE TypeOK'
  <2>1. queue' \in Seq(Event) /\ handle' \in MaybeServer
    BY <1>1, <1>n, LoadKeyQueue
  <2>2. pendLoad' \in MaybeModel /\ phases' \in SUBSET {"ServerListening", "Complete"}
    BY <1>1, <1>n DEF LoadKey
  <2> QED
    BY <1>1, <1>g, <2>1, <2>2 DEF LoadKey
<1>2. ASSUME NEW m \in Models, UnloadKey(m) \/ ClearFailureKey(m) \/ SelectKey(m)
      PROVE  TypeOK'
  BY <1>2, <1>g, <1>n DEF UnloadKey, ClearFailureKey, SelectKey
<1>3. CASE ConfirmYes \/ ConfirmNo \/ ConfirmReplaced
  BY <1>3, <1>g, <1>n DEF ConfirmYes, ConfirmNo, ConfirmReplaced
<1>4. CASE KillKey
  <2>1. KillEvent \in Event
    BY <1>4 DEF KillKey, KillEvent, Event, MaybeServer
  <2> QED
    BY <1>4, <1>g, <1>n, <2>1 DEF KillKey
<1>5. CASE QuitKey
  <2>1. killed' \in SUBSET Server
    BY <1>5 DEF QuitKey, Ask, MaybeServer
  <2> QED
    BY <1>5, <1>n, <2>1 DEF QuitKey
<1> QED
  BY <1>1, <1>2, <1>3, <1>4, <1>5 DEF Key

\* The types, by every step.
LEMMA TypeStep ==
    ASSUME TypeOK, QueueInv, HandlerHasWork, [Next]_vars
    PROVE  TypeOK'
<1>1. CASE UNCHANGED vars
  BY <1>1 DEF TypeOK, vars, procVars, taskVars, handleVars, pendVars, modelVars,
              routerVars, feedVars
<1> QED
  BY <1>1, TypeProcStep, TypeTaskStep, TypeTick, TypeOperation, TypeKey DEF Next, LoopStep

-----------------------------------------------------------------------------
\* Processes and tasks leave the loop and its requests alone.
LEMMA EnvKeepsLoop ==
    ASSUME TaskStep \/ UNCHANGED vars \/ \E g \in Server : ProcStep(g)
    PROVE  UNCHANGED <<pc, queue, handle, exitRx, spawns, spawnTask, loads, pendLoad,
                       pendUnload, pendKill>>
<1> USE DEF EnvUnchanged, taskVars, handleVars, pendVars
<1>1. CASE TaskStep
  BY <1>1 DEF TaskStep, PollSucceeds, SyncPoll, RouterStep, LoadRequest, UnloadRequest
<1>2. CASE UNCHANGED vars
  BY <1>2 DEF vars
<1>3. ASSUME NEW g \in Server, ProcStep(g)
      PROVE  UNCHANGED <<pc, queue, handle, exitRx, spawns, spawnTask, loads, pendLoad,
                         pendUnload, pendKill>>
  BY <1>3 DEF ProcStep, SpawnSucceeds, SpawnFails, BecomesReady, Dies, IsKilled, Announces,
              LogsError
<1> QED
  BY <1>1, <1>2, <1>3

\* The ticks leave the requests alone and at most give the handle up.
LEMMA TickKeepsRequests ==
    ASSUME Tick
    PROVE  /\ UNCHANGED <<queue, exitRx, spawns, spawnTask, loads, pendLoad, pendUnload,
                          pendKill, proc>>
           /\ handle' \in {handle, None}
           /\ \E first \in 1..5 : GoOn(first)
<1>1. \/ TickServerLogs /\ GoOn(2)
      \/ TickSync /\ GoOn(3)
      \/ TickSyncThrottled /\ GoOn(3)
      \/ TickLoadingCompletion /\ GoOn(4)
      \/ TickServerExit /\ GoOn(5)
  BY DEF Tick, TickServerLogs, TickSync, TickSyncThrottled, TickLoadingCompletion,
         TickServerExit
<1>2. \E first \in 1..5 : GoOn(first)
  BY <1>1
<1>3. UNCHANGED <<spawns, spawnTask, loads, queue, pendLoad, pendUnload, pendKill>>
  BY DEF Tick, TickServerLogs, TickSync, TickSyncThrottled, TickLoadingCompletion,
         TickServerExit, taskVars, pendVars
<1>4. UNCHANGED <<exitRx, proc>> /\ handle' \in {handle, None}
  BY DEF Tick, TickServerLogs, TickSync, TickSyncThrottled, TickLoadingCompletion,
         TickServerExit, procVars, handleVars
<1> QED
  BY <1>2, <1>3, <1>4

\* Keys leave the past spawn requests alone and at most give the handle up.
LEMMA KeyKeepsSpawns ==
    ASSUME Key, TypeOK, QueueInv
    PROVE  /\ UNCHANGED <<spawns, spawnTask, loads, pendKill, proc>>
           /\ handle' \in {handle, None}
           /\ exitRx' \in {exitRx, None}
           /\ pc' \in {"exiting", "exited"} \/ NextTurn
<1> USE DEF KeyUnchanged, procVars, taskVars, modelVars
<1>1. ASSUME NEW m \in Models, LoadKey(m)
      PROVE  /\ UNCHANGED <<spawns, spawnTask, loads, pendKill, proc, exitRx>>
             /\ handle' \in {handle, None}
             /\ NextTurn
  BY <1>1, LoadKeyQueue DEF LoadKey
<1>2. ASSUME NEW m \in Models, UnloadKey(m) \/ ClearFailureKey(m) \/ SelectKey(m)
      PROVE  /\ UNCHANGED <<spawns, spawnTask, loads, pendKill, proc, exitRx, handle>>
             /\ NextTurn
  BY <1>2 DEF UnloadKey, ClearFailureKey, SelectKey
<1>3. CASE ConfirmYes \/ ConfirmNo \/ ConfirmReplaced \/ KillKey
  BY <1>3 DEF ConfirmYes, ConfirmNo, ConfirmReplaced, KillKey
<1>4. CASE QuitKey
  BY <1>4 DEF QuitKey
<1> QED
  BY <1>1, <1>2, <1>3, <1>4 DEF Key

\* A new turn begins with the events drained, and at a handler that has its request.
LEMMA TurnDrains ==
    ASSUME NextTurn
    PROVE  QueueDrained' /\ (pc' = "unload" => pendUnload' # NoModel)
                         /\ (pc' = "kill" => pendKill' # None)
<1>1. PICK first \in {1, 5} : GoOn(first)
  BY DEF NextTurn
<1> QED
  BY <1>1, GoOnTo

\* The event channel is empty behind the drain, and a spawn request is last in it.
LEMMA QueueStep ==
    ASSUME TypeOK, QueueInv, [Next]_vars
    PROVE  QueueInv'
<1> USE DEF QueueInv
<1>1. CASE TaskStep \/ UNCHANGED vars \/ \E g \in Server : ProcStep(g)
  BY <1>1, EnvKeepsLoop DEF QueueDrained, SpawnIsLast
<1>2. CASE Tick
  <2>1. QueueDrained'
    BY <1>2, TickKeepsRequests, GoOnTo
  <2>2. SpawnIsLast'
    BY <1>2, TickKeepsRequests DEF SpawnIsLast
  <2> QED
    BY <2>1, <2>2
<1>3. CASE DrainQueue
  <2>1. QueueDrained'
    BY <1>3, GoOnTo DEF DrainQueue
  <2>2. /\ queue # << >> /\ queue \in Seq(Event) /\ queue' = Tail(queue)
        /\ handle' = handle
    BY <1>3 DEF DrainQueue, TypeOK
  <2>3. Len(queue') = Len(queue) - 1
        /\ \A i \in 1..Len(queue') : queue'[i] = queue[i + 1] /\ i + 1 \in 1..Len(queue)
    BY <2>2
  <2>4. CASE Head(queue).kind = "Spawn"
    <3>1. Len(queue) = 1
      <4>1. 1 \in 1..Len(queue) /\ Head(queue) = queue[1]
        BY <2>2
      <4> QED
        BY <2>4, <4>1 DEF SpawnIsLast
    <3> QED
      BY <2>1, <2>3, <3>1 DEF SpawnIsLast
  <2>5. CASE Head(queue).kind # "Spawn"
    <3>1. spawns' = spawns
      BY <1>3, <2>5 DEF DrainQueue, taskVars
    <3>2. Len(queue') \in Nat /\ Len(queue) \in Nat
      BY <2>2
    <3>3. SpawnIsLast'
      <4> SUFFICES ASSUME NEW i \in 1..Len(queue'), queue'[i].kind = "Spawn"
                   PROVE  i = Len(queue') /\ handle' = None /\ spawns' < MaxSpawn
        BY DEF SpawnIsLast
      <4>1. i + 1 \in 1..Len(queue) /\ queue[i + 1].kind = "Spawn"
        BY <2>3
      <4>2. i + 1 = Len(queue) /\ handle = None /\ spawns < MaxSpawn
        BY <4>1 DEF SpawnIsLast
      <4> QED
        BY <4>2, <2>2, <2>3, <3>1, <3>2
    <3> QED
      BY <2>1, <3>3
  <2> QED
    BY <2>4, <2>5
<1>4. CASE SpawnPending \/ TickSpawnResult \/ TryExecuteApiLoad \/ TryExecuteApiUnload
           \/ ProcessPendingKill \/ FinishPendingKill \/ Exit
  <2>1. queue = << >> /\ queue' = queue
    BY <1>4 DEF SpawnPending, TickSpawnResult, TryExecuteApiLoad, TryExecuteApiUnload,
       ProcessPendingKill, FinishPendingKill, Exit, QueueDrained, pendVars
  <2> QED
    BY <2>1 DEF QueueDrained, SpawnIsLast
<1>5. CASE NoKey
  BY <1>5, TurnDrains DEF NoKey, KeyUnchanged, taskVars, SpawnIsLast
<1>6. CASE Key
  <2>1. QueueDrained'
    <3>1. CASE NextTurn
      BY <3>1, TurnDrains
    <3>2. CASE pc' \in {"exiting", "exited"}
      BY <1>6, <3>2, TurnDrains DEF Key, LoadKey, UnloadKey, ClearFailureKey, SelectKey,
         ConfirmYes, ConfirmNo, ConfirmReplaced, KillKey, QuitKey, QueueDrained
    <3> QED
      BY <1>6, <3>1, <3>2, KeyKeepsSpawns
  <2>2. SpawnIsLast'
    <3>1. ASSUME NEW m \in Models, LoadKey(m) PROVE SpawnIsLast'
      BY <3>1, LoadKeyQueue
    <3>2. CASE KillKey
      <4>1. queue' = <<KillEvent>>
        BY <3>2 DEF KillKey, QueueDrained
      <4> QED
        BY <4>1 DEF SpawnIsLast, KillEvent
    <3>3. ASSUME queue' = << >> PROVE SpawnIsLast'
      BY <3>3 DEF SpawnIsLast
    <3> QED
      BY <1>6, <3>1, <3>2, <3>3 DEF Key, UnloadKey, ClearFailureKey, SelectKey,
         ConfirmYes, ConfirmNo, ConfirmReplaced, QuitKey, QueueDrained
  <2> QED
    BY <2>1, <2>2
<1> QED
  BY <1>1, <1>2, <1>3, <1>4, <1>5, <1>6 DEF Next, LoopStep

\* A handler that was not passed over still has its work when it runs.
LEMMA HandlerStep ==
    ASSUME TypeOK, QueueInv, HandlerHasWork, [Next]_vars
    PROVE  HandlerHasWork'
<1> USE DEF HandlerHasWork
<1>1. CASE TaskStep \/ UNCHANGED vars \/ \E g \in Server : ProcStep(g)
  BY <1>1, EnvKeepsLoop
<1>2. CASE Tick
  BY <1>2, TickKeepsRequests, GoOnTo
<1>3. CASE DrainQueue \/ SpawnPending \/ TickSpawnResult
  <2>1. UNCHANGED <<loads, pendLoad>>
    BY <1>3 DEF DrainQueue, SpawnPending, TickSpawnResult, taskVars, pendVars
  <2>3. GoOn(5) \/ GoOn(7)
    BY <1>3 DEF DrainQueue, SpawnPending, TickSpawnResult
  <2>2. PICK first \in 1..10 : GoOn(first)
    BY <2>3
  <2> QED
    BY <2>1, <2>2, GoOnTo
<1>4. CASE TryExecuteApiLoad
  <2>1. pendLoad' # NoModel => pendLoad' = pendLoad /\ loads' = loads
    BY <1>4 DEF TryExecuteApiLoad
  <2>2. GoOn(8)
    BY <1>4 DEF TryExecuteApiLoad
  <2> QED
    BY <2>1, <2>2, GoOnTo
<1>5. CASE TryExecuteApiUnload
  <2>1. UNCHANGED <<loads, pendLoad>> /\ GoOn(9)
    BY <1>5 DEF TryExecuteApiUnload, taskVars
  <2> QED
    BY <2>1, GoOnTo
<1>6. CASE ProcessPendingKill \/ FinishPendingKill \/ Exit
  <2>1. UNCHANGED <<loads, pendLoad>> /\ pc' \in {"killing", "key", "exited"}
    BY <1>6 DEF ProcessPendingKill, FinishPendingKill, Exit, taskVars, pendVars
  <2> QED
    BY <2>1
<1>7. CASE NoKey
  BY <1>7, TurnDrains DEF NoKey, KeyUnchanged, taskVars
<1>8. CASE Key
  <2>1. pendLoad' # NoModel => loads' < MaxLoads
    <3>1. ASSUME NEW m \in Models, LoadKey(m), pendLoad' # NoModel
          PROVE  loads' < MaxLoads
      BY <3>1 DEF LoadKey, KeyUnchanged, taskVars
    <3> QED
      BY <1>8, <3>1 DEF Key, UnloadKey, ClearFailureKey, SelectKey, ConfirmYes, ConfirmNo,
         ConfirmReplaced, KillKey, QuitKey, KeyUnchanged, taskVars
  <2>2. pc' = "unload" => pendUnload' # NoModel
    BY <1>8, TurnDrains, KeyKeepsSpawns
  <2>3. pc' = "kill" => pendKill' # None
    BY <1>8, TurnDrains, KeyKeepsSpawns
  <2> QED
    BY <2>1, <2>2, <2>3
<1> QED
  BY <1>1, <1>2, <1>3, <1>4, <1>5, <1>6, <1>7, <1>8 DEF Next, LoopStep

-----------------------------------------------------------------------------
\* Only a spawn request takes a process out of "none", and only its own.
LEMMA EnvKeepsNone ==
    ASSUME TypeOK, TaskStep \/ UNCHANGED vars \/ \E g \in Server : ProcStep(g)
    PROVE  \A h \in Server : proc[h] = "none" => proc'[h] = "none"
<1> USE DEF TypeOK
<1>1. CASE TaskStep
  BY <1>1 DEF TaskStep, PollSucceeds, SyncPoll, RouterStep, LoadRequest, UnloadRequest,
              procVars
<1>2. CASE UNCHANGED vars
  BY <1>2 DEF vars, procVars
<1>3. ASSUME NEW g \in Server, ProcStep(g), NEW h \in Server, proc[h] = "none"
      PROVE  proc'[h] = "none"
  BY <1>3 DEF ProcStep, SpawnSucceeds, SpawnFails, BecomesReady, Dies, IsKilled, Announces,
              LogsError, procVars, Alive
<1> QED
  BY <1>1, <1>2, <1>3

\* The exit channel, by every step.
LEMMA ListenStep ==
    ASSUME IInv, [Next]_vars
    PROVE  ListenInv'
<1> USE DEF IInv, ListenInv
<1>t. exitRx \in Server \cup {None} /\ handle \in Server \cup {None}
      /\ spawnTask \in Server \cup {None}
  BY DEF TypeOK, MaybeServer
<1>e. ASSUME UNCHANGED <<spawns, spawnTask>>, handle' \in {handle, None},
             exitRx' \in {exitRx, None},
             \A h \in Server : proc[h] = "none" => proc'[h] = "none"
      PROVE  ListenInv'
  BY <1>e, <1>t DEF ListensToItsServer, ListensToSpawned, NotYetSpawned
<1>1. CASE TaskStep \/ UNCHANGED vars \/ \E g \in Server : ProcStep(g)
  BY <1>1, <1>e, EnvKeepsLoop, EnvKeepsNone
<1>2. CASE Tick
  BY <1>2, <1>e, TickKeepsRequests
<1>3. CASE DrainQueue
  <2>1. queue # << >> /\ queue \in Seq(Event) /\ handle' = handle
    BY <1>3 DEF DrainQueue, TypeOK
  <2>2. CASE Head(queue).kind # "Spawn"
    <3>1. UNCHANGED <<spawns, spawnTask, exitRx, proc>>
      BY <1>3, <2>2 DEF DrainQueue, taskVars
    <3> QED
      BY <1>e, <2>1, <3>1
  <2>3. CASE Head(queue).kind = "Spawn"
    <3>1. 1 \in 1..Len(queue) /\ Head(queue) = queue[1]
      BY <2>1
    <3>2. handle = None /\ spawns < MaxSpawn
      BY <2>3, <3>1 DEF QueueInv, SpawnIsLast
    <3> DEFINE g == spawns + 1
    <3>3. g \in Server /\ g # None /\ spawns \in Nat /\ g > spawns
      BY <3>2, BoundAssumption DEF TypeOK, Server, None
    <3>4. proc[g] = "none"
      BY <3>3 DEF NotYetSpawned
    <3>5. /\ spawns' = g /\ exitRx' = g
          /\ \/ proc' = [proc EXCEPT ![g] = "spawning"] /\ spawnTask' = g
             \/ UNCHANGED <<proc, spawnTask>>
      BY <1>3, <2>3 DEF DrainQueue, ProcessPendingSpawn
    <3>6. ListensToItsServer'
      BY <2>1, <3>2 DEF ListensToItsServer
    <3>7. ListensToSpawned'
      BY <3>4, <3>5 DEF ListensToSpawned
    <3>8. NotYetSpawned'
      <4> SUFFICES ASSUME NEW h \in Server, h > spawns' PROVE proc'[h] = "none"
        BY DEF NotYetSpawned
      <4>1. h > spawns /\ h # g
        BY <3>3, <3>5 DEF Server
      <4> QED
        BY <3>5, <4>1 DEF NotYetSpawned, TypeOK
    <3> QED
      BY <3>6, <3>7, <3>8
  <2> QED
    BY <2>2, <2>3
<1>4. CASE TickSpawnResult
  <2>1. UNCHANGED <<proc, exitRx, spawns>> /\ spawnTask' = None /\ handle' \in {None, spawnTask}
    BY <1>4 DEF TickSpawnResult, procVars
  <2> QED
    BY <2>1 DEF ListensToItsServer, ListensToSpawned, NotYetSpawned
<1>5. CASE SpawnPending \/ TryExecuteApiLoad \/ TryExecuteApiUnload \/ ProcessPendingKill
           \/ Exit \/ NoKey
  <2>1. UNCHANGED <<spawns, spawnTask, proc>>
    BY <1>5 DEF SpawnPending, TryExecuteApiLoad, TryExecuteApiUnload, ProcessPendingKill,
       Exit, NoKey, KeyUnchanged, procVars, taskVars
  <2>2. handle' = handle /\ exitRx' \in {exitRx, None}
    BY <1>5 DEF SpawnPending, TryExecuteApiLoad, TryExecuteApiUnload, ProcessPendingKill,
       Exit, NoKey, KeyUnchanged, handleVars
  <2> QED
    BY <1>e, <2>1, <2>2
<1>6. CASE FinishPendingKill
  <2>1. UNCHANGED <<spawns, spawnTask, exitRx>> /\ handle' = None
    BY <1>6 DEF FinishPendingKill, taskVars
  <2>2. \A h \in Server : proc[h] = "none" => proc'[h] = "none"
    BY <1>6 DEF FinishPendingKill, Ensured, Alive, TypeOK
  <2> QED
    BY <1>e, <2>1, <2>2
<1>7. CASE Key
  BY <1>7, <1>e, KeyKeepsSpawns
<1> QED
  BY <1>1, <1>2, <1>3, <1>4, <1>5, <1>6, <1>7 DEF Next, LoopStep

-----------------------------------------------------------------------------
\* The invariant that carries the theorems below.
LEMMA IInvCorrect == Spec => []IInv
<1>1. Init => IInv
  <2> SUFFICES ASSUME Init PROVE IInv
    OBVIOUS
  <2>1. TypeOK
    BY TypeInit
  <2>2. QueueInv
    BY DEF Init, QueueInv, QueueDrained, SpawnIsLast
  <2>3. HandlerHasWork
    BY DEF Init, HandlerHasWork
  <2>4. ListenInv
    BY DEF Init, ListenInv, ListensToItsServer, ListensToSpawned, NotYetSpawned
  <2> QED
    BY <2>1, <2>2, <2>3, <2>4 DEF IInv
<1>2. IInv /\ [Next]_vars => IInv'
  BY TypeStep, QueueStep, HandlerStep, ListenStep DEF IInv
<1> QED
  BY <1>1, <1>2, PTL DEF Spec

\* Every field of the app, every process and every task is always of its kind,
\* for all numbers of models, servers and loads: in particular no handler uses
\* a request, handle or model that is not there, and no request is counted
\* beyond its bound.
THEOREM TypeCorrect == Spec => []TypeOK
  BY IInvCorrect, PTL DEF IInv

\* server_exit_rx is that of the server the app has a handle of, or nobody's,
\* whatever was spawned, killed, replaced or crashed before.
THEOREM ExitChannelIsOwn == Spec => []ListensToItsServer
  BY IInvCorrect, PTL DEF IInv, ListenInv

-----------------------------------------------------------------------------
\* The card of a failed model is reset by the user or by an unload, and by no
\* tick, kill, crash or spawn.
LEMMA FailedStep ==
    ASSUME TypeOK, [Next]_vars, NEW m \in Models, mstate[m] = "Failed",
           mstate'[m] = "Available"
    PROVE  pc \in {"key", "unload"}
<1> USE DEF TypeOK
<1>1. CASE TaskStep \/ UNCHANGED vars \/ \E g \in Server : ProcStep(g)
  <2>1. mstate' = mstate
    <3>1. ASSUME NEW g \in Server, ProcStep(g) PROVE mstate' = mstate
      BY <3>1 DEF ProcStep, SpawnSucceeds, SpawnFails, BecomesReady, Dies, IsKilled,
                  Announces, LogsError, EnvUnchanged, modelVars
    <3>2. CASE TaskStep
      BY <3>2 DEF TaskStep, PollSucceeds, SyncPoll, RouterStep, LoadRequest, UnloadRequest,
                  EnvUnchanged, modelVars
    <3>3. CASE UNCHANGED vars
      BY <3>3 DEF vars, modelVars
    <3> QED
      BY <1>1, <3>1, <3>2, <3>3
  <2> QED
    BY <2>1
<1>2. CASE TickServerLogs
  BY <1>2 DEF TickServerLogs, FailLoads, FailLoadsOf
<1>3. CASE TickSync \/ TickSyncThrottled
  BY <1>3 DEF TickSync, TickSyncThrottled, FailLoadsOf, Synced, modelVars
<1>4. CASE TickLoadingCompletion
  <2>1. CASE poll # "done" \/ handle = None
    BY <1>4, <2>1 DEF TickLoadingCompletion, FinishLoading
  <2>2. CASE poll = "done" /\ handle # None /\ CompletedLoad = {}
    BY <1>4, <2>2 DEF TickLoadingCompletion, FinishLoading, Loading
  <2>3. CASE poll = "done" /\ handle # None /\ CompletedLoad # {}
    <3> DEFINE rest == [x \in Models |-> IF Loading(x) THEN "Available" ELSE mstate[x]]
    <3>1. PICK t \in CompletedLoad : mstate' = [rest EXCEPT ![t] = "Loaded"]
      BY <1>4, <2>3 DEF TickLoadingCompletion, FinishLoading
    <3>2. rest[m] = "Failed"
      BY DEF Loading
    <3>3. mstate'[m] \in {rest[m], "Loaded"}
      BY <3>1
    <3> QED
      BY <3>2, <3>3
  <2> QED
    BY <2>1, <2>2, <2>3
<1>5. CASE TickServerExit
  BY <1>5 DEF TickServerExit, AfterExit
<1>6. CASE DrainQueue
  BY <1>6 DEF DrainQueue, ProcessPendingSpawn
<1>7. CASE SpawnPending \/ ProcessPendingKill \/ Exit
  BY <1>7 DEF SpawnPending, ProcessPendingKill, Exit, modelVars
<1>8. CASE TickSpawnResult
  BY <1>8 DEF TickSpawnResult, FailLoads, FailLoadsOf
<1>9. CASE TryExecuteApiLoad
  BY <1>9 DEF TryExecuteApiLoad
<1>10. CASE FinishPendingKill
  BY <1>10 DEF FinishPendingKill, AfterKill
<1>11. CASE TryExecuteApiUnload \/ NoKey \/ Key
  BY <1>11 DEF TryExecuteApiUnload, NoKey, Key, LoadKey, UnloadKey, ClearFailureKey, SelectKey,
     ConfirmYes, ConfirmNo, ConfirmReplaced, KillKey, QuitKey
<1> QED
  BY <1>1, <1>2, <1>3, <1>4, <1>5, <1>6, <1>7, <1>8, <1>9, <1>10, <1>11
     DEF Next, LoopStep, Tick

\* What made a load fail stays visible until the user acts on it.
THEOREM FailureIsKept == Spec => FailedIsKept
<1>1. TypeOK /\ [Next]_vars =>
        [\A m \in Models : mstate[m] = "Failed" /\ mstate'[m] = "Available"
                           => pc \in {"key", "unload"}]_vars
  BY FailedStep
<1> QED
  BY <1>1, TypeCorrect, PTL DEF Spec, FailedIsKept

-----------------------------------------------------------------------------
(* The models.  With one server to a model, as in Normal and in Bench mode,   *)
(* what is loaded depends on the order of spawns and kills only; a router     *)
(* keeps its models as long as it is not replaced.                            *)

\* No router is replaced: in Router mode one server is asked for.
RouterStays == mode = "Router" => spawns <= 1

\* An event of this kind waits.
AskedIn(events, kind) == \E i \in DOMAIN events : events[i].kind = kind
Asked(kind) == AskedIn(queue, kind)

\* While a server is being spawned the app has no handle.
GivenUp == spawnTask # None => handle = None

\* A handle, a spawn task and a kill request are those of some spawn request.
Counted == handle # None \/ spawnTask # None \/ KillUnderWay => spawns >= 1

\* Nobody kills the first server while it is being spawned.
FirstIsNotKilled == spawns <= 1 /\ spawnTask # None => ~KillUnderWay

\* The handlers that read the router's list, look at a spawn task or await the end
\* of a server have one.
WaitsForOne ==
    /\ pc = "sync" => snap # << >>
    /\ pc = "spawned" => spawnTask # None
    /\ pc = "killing" => pendKill # None

\* Only routers are asked for their models and told to load one.
OnlyRoutersLoad == mode # "Router" => snap = << >> /\ pendLoad = NoModel

\* A benchmark answers no request and loads nothing.
BenchLoadsNothing ==
    mode = "Bench" =>
        /\ Answering = {}
        /\ \A m \in Models : mstate[m] \notin {"Loading", "Loaded"}

\* In Normal mode a model loads only when none is loaded.
OneAtATime ==
    mode = "Normal" =>
        \A x, y \in Models :
            mstate[x] = "Loaded" => ~Loading(y) /\ (mstate[y] = "Loaded" => x = y)

\* Outside a router nothing is loaded while a server is asked for or spawned.
NoneWhileSpawning ==
    mode # "Router" /\ (spawnTask # None \/ Asked("Spawn")) =>
        \A m \in Models : mstate[m] # "Loaded"

\* With IInv, the inductive invariant of the models, in parts.
RequestInv == GivenUp /\ Counted /\ FirstIsNotKilled /\ WaitsForOne
LoadInv == OnlyRoutersLoad /\ BenchLoadsNothing /\ OneAtATime /\ NoneWhileSpawning
ShownInv == RouterStays => NamesAgree /\ LoadedHasServer

MInv == RequestInv /\ LoadInv /\ ShownInv

-----------------------------------------------------------------------------
\* The loop goes on to a handler only when it has work.
LEMMA GoOnWaits ==
    ASSUME NEW first \in 1..10, GoOn(first)
    PROVE  /\ pc' = "sync" => snap' # << >>
           /\ pc' = "spawned" => spawnTask' # None
           /\ pc' # "killing"
<1>1. PICK j \in first..Len(Handlers) : HasWork'[Handlers[j]] /\ pc' = Handlers[j]
  BY DEF GoOn
<1>2. j \in 1..10
  BY <1>1 DEF Handlers
<1>3. pc' # "killing"
  BY <1>1, <1>2 DEF Handlers
<1>4. HasWork'["sync"] = (snap' # << >>)
  BY DEF HasWork
<1>5. HasWork'["spawned"] = (spawnTask' # None)
  BY DEF HasWork
<1> QED
  BY <1>1, <1>3, <1>4, <1>5

\* A new turn begins at a handler that has work.
LEMMA TurnWaits ==
    ASSUME NextTurn
    PROVE  /\ pc' = "sync" => snap' # << >>
           /\ pc' = "spawned" => spawnTask' # None
           /\ pc' # "killing"
<1>1. PICK first \in {1, 5} : GoOn(first)
  BY DEF NextTurn
<1> QED
  BY <1>1, GoOnWaits

\* Taking an event from the channel takes no other.
LEMMA TakeEvent ==
    ASSUME TypeOK, queue # << >>, queue' = Tail(queue), NEW kind
    PROVE  /\ Asked(kind)' => Asked(kind)
           /\ Asked(kind) => Head(queue).kind = kind \/ Asked(kind)'
           /\ Head(queue).kind = kind => Asked(kind)
           /\ Head(queue) \in Event
<1>1. queue \in Seq(Event) /\ Len(queue) \in Nat /\ Len(queue) >= 1
  BY DEF TypeOK
<1>2. Len(queue') = Len(queue) - 1 /\ queue' \in Seq(Event)
      /\ \A i \in 1..Len(queue') : queue'[i] = queue[i + 1] /\ i + 1 \in 1..Len(queue)
  BY <1>1
<1>3. Head(queue) = queue[1] /\ 1 \in DOMAIN queue /\ Head(queue) \in Event
  BY <1>1
<1>4. Asked(kind)' => Asked(kind)
  BY <1>1, <1>2 DEF Asked, AskedIn
<1>5. ASSUME NEW i \in DOMAIN queue, queue[i].kind = kind, i # 1 PROVE Asked(kind)'
  <2>1. i - 1 \in 1..Len(queue') /\ (i - 1) + 1 = i
    BY <1>1, <1>2, <1>5
  <2>2. queue'[i - 1] = queue[i]
    BY <1>2, <2>1
  <2> QED
    BY <1>2, <1>5, <2>1, <2>2 DEF Asked, AskedIn
<1>6. Asked(kind) => Head(queue).kind = kind \/ Asked(kind)'
  BY <1>3, <1>5 DEF Asked, AskedIn
<1> QED
  BY <1>3, <1>4, <1>6 DEF Asked, AskedIn

\* A spawn request at the head is the last event: no kill is behind it.
LEMMA SpawnIsAlone ==
    ASSUME TypeOK, QueueInv, queue # << >>, queue' = Tail(queue), Head(queue).kind = "Spawn"
    PROVE  queue' = << >> /\ handle = None /\ ~Asked("KillHandle")
<1>1. queue \in Seq(Event) /\ Len(queue) \in Nat /\ 1 \in 1..Len(queue) /\ Head(queue) = queue[1]
  BY DEF TypeOK
<1>2. Len(queue) = 1 /\ handle = None
  BY <1>1 DEF QueueInv, SpawnIsLast
<1>3. queue' = << >>
  BY <1>1, <1>2
<1>4. ~Asked("KillHandle")
  BY <1>1, <1>2 DEF Asked, AskedIn
<1> QED
  BY <1>2, <1>3, <1>4

\* One more event in the channel.
LEMMA OneMore ==
    ASSUME NEW q \in Seq(Event), NEW e \in Event, NEW kind
    PROVE  AskedIn(Append(q, e), kind) <=> AskedIn(q, kind) \/ e.kind = kind
<1>1. /\ Len(q) \in Nat /\ Len(Append(q, e)) = Len(q) + 1 /\ Append(q, e) \in Seq(Event)
      /\ \A i \in 1..Len(q) : Append(q, e)[i] = q[i]
      /\ Append(q, e)[Len(q) + 1] = e
  OBVIOUS
<1>2. DOMAIN Append(q, e) = 1..(Len(q) + 1) /\ DOMAIN q = 1..Len(q)
  BY <1>1
<1> QED
  BY <1>1, <1>2 DEF AskedIn

\* What a load key asks for: a kill of the server it gives up, and a spawn only when
\* no server is left and, in Normal mode, no model is loaded.
LEMMA LoadKeyAsks ==
    ASSUME TypeOK, QueueInv, BenchLoadsNothing, NEW m \in Models, LoadKey(m)
    PROVE  /\ handle' \in {handle, None}
           /\ Asked("Spawn")' => handle' = None /\ ~AnotherLoaded
           /\ Asked("KillHandle")' => handle # None
           /\ handle' # handle => Asked("KillHandle")'
           /\ mode # "Router" => pendLoad' = pendLoad
<1>1. queue = << >> /\ queue \in Seq(Event) /\ mode \in {"Normal", "Router", "Bench"}
  BY ModesAssumption DEF LoadKey, QueueInv, QueueDrained, TypeOK
<1>2. ~Asked("Spawn") /\ ~Asked("KillHandle")
  BY <1>1 DEF Asked, AskedIn
<1>3. PICK healthy \in IF Answering = {} THEN {FALSE} ELSE BOOLEAN :
        LET giveUp == handle # None /\ (~healthy \/ (mode = "Normal" /\ ~AnotherLoaded))
            kills == IF giveUp THEN Append(queue, KillEvent) ELSE queue
        IN /\ handle' = TakeHandle(giveUp)
           /\ \/ AnotherLoaded /\ queue' = kills /\ UNCHANGED pendLoad
              \/ /\ ~AnotherLoaded /\ (giveUp \/ handle = None)
                 /\ queue' = Append(kills, SpawnEvent(IF mode = "Router" THEN NoModel ELSE m))
                 /\ pendLoad' = IF mode = "Router" THEN m ELSE pendLoad
              \/ /\ ~AnotherLoaded /\ ~giveUp /\ handle # None
                 /\ UNCHANGED queue
  BY DEF LoadKey
<1> DEFINE giveUp == handle # None /\ (~healthy \/ (mode = "Normal" /\ ~AnotherLoaded))
           who == IF mode = "Router" THEN NoModel ELSE m
           kills == IF giveUp THEN Append(queue, KillEvent) ELSE queue
<1>4. handle' = IF giveUp THEN None ELSE handle
  BY <1>3 DEF TakeHandle
<1>5. SpawnEvent(who) \in Event /\ SpawnEvent(who).kind = "Spawn"
  BY DEF SpawnEvent, Event, MaybeModel
<1>6. (giveUp => KillEvent \in Event) /\ KillEvent.kind = "KillHandle"
  BY DEF KillEvent, Event, TypeOK, MaybeServer
<1>7. mode # "Router" /\ ~AnotherLoaded /\ handle # None => giveUp
  BY <1>1, <1>3 DEF BenchLoadsNothing
<1>8. /\ kills \in Seq(Event) /\ ~AskedIn(kills, "Spawn")
      /\ AskedIn(kills, "KillHandle") <=> giveUp
  <2>1. CASE giveUp
    <3>1. kills = Append(queue, KillEvent) /\ KillEvent \in Event
      BY <1>6, <2>1
    <3>2. kills \in Seq(Event)
      BY <1>1, <3>1
    <3> HIDE DEF giveUp, kills
    <3> QED
      BY <1>1, <1>2, <1>6, <2>1, <3>1, <3>2, OneMore DEF Asked
  <2>2. CASE ~giveUp
    BY <1>1, <1>2, <2>2 DEF Asked
  <2> QED
    BY <2>1, <2>2
<1>9. \/ /\ AnotherLoaded /\ queue' = kills /\ UNCHANGED pendLoad
      \/ /\ ~AnotherLoaded /\ (giveUp \/ handle = None)
         /\ queue' = Append(kills, SpawnEvent(who))
         /\ pendLoad' = IF mode = "Router" THEN m ELSE pendLoad
      \/ ~AnotherLoaded /\ ~giveUp /\ handle # None /\ queue' = queue
  BY <1>3
<1>10. giveUp => handle # None
  OBVIOUS
<1> HIDE DEF giveUp, who, kills
<1>11. CASE AnotherLoaded /\ queue' = kills /\ UNCHANGED pendLoad
  BY <1>4, <1>8, <1>10, <1>11 DEF Asked
<1>12. CASE /\ ~AnotherLoaded /\ (giveUp \/ handle = None)
            /\ queue' = Append(kills, SpawnEvent(who))
            /\ pendLoad' = IF mode = "Router" THEN m ELSE pendLoad
  <2>1. AskedIn(queue', "KillHandle") <=> giveUp
    BY <1>5, <1>8, <1>12, OneMore
  <2> QED
    BY <1>4, <1>10, <1>12, <2>1 DEF Asked
<1>13. CASE ~AnotherLoaded /\ ~giveUp /\ handle # None /\ queue' = queue
  BY <1>2, <1>4, <1>7, <1>13 DEF Asked
<1> QED
  BY <1>9, <1>11, <1>12, <1>13

-----------------------------------------------------------------------------
\* Processes and tasks do not touch the models, and give the loop a list at most.
LEMMA EnvKeepsModels ==
    ASSUME TaskStep \/ UNCHANGED vars \/ \E g \in Server : ProcStep(g)
    PROVE  /\ UNCHANGED <<mode, mstate, names>>
           /\ snap' # snap => snap = << >> /\ mode = "Router"
<1> USE DEF EnvUnchanged, modelVars, feedVars
<1>1. CASE TaskStep
  BY <1>1 DEF TaskStep, PollSucceeds, SyncPoll, RouterStep, LoadRequest, UnloadRequest
<1>2. CASE UNCHANGED vars
  BY <1>2 DEF vars
<1>3. ASSUME NEW g \in Server, ProcStep(g)
      PROVE  UNCHANGED <<mode, mstate, names, snap>>
  BY <1>3 DEF ProcStep, SpawnSucceeds, SpawnFails, BecomesReady, Dies, IsKilled, Announces,
              LogsError
<1> QED
  BY <1>1, <1>2, <1>3

\* Where the loop goes after a step of its own.
LEMMA LoopGoesOn ==
    ASSUME LoopStep \/ Key
    PROVE  \/ /\ pc' = "sync" => snap' # << >>
              /\ pc' = "spawned" => spawnTask' # None
              /\ pc' # "killing"
           \/ ProcessPendingKill
<1>1. CASE Tick
  BY <1>1, TickKeepsRequests, GoOnWaits
<1>2. CASE DrainQueue \/ SpawnPending \/ TickSpawnResult \/ TryExecuteApiLoad
           \/ TryExecuteApiUnload
  <2>1. GoOn(5) \/ GoOn(7) \/ GoOn(8) \/ GoOn(9)
    BY <1>2 DEF DrainQueue, SpawnPending, TickSpawnResult, TryExecuteApiLoad,
                TryExecuteApiUnload
  <2>2. PICK first \in 1..10 : GoOn(first)
    BY <2>1
  <2> QED
    BY <2>2, GoOnWaits
<1>3. CASE FinishPendingKill \/ Exit
  BY <1>3 DEF FinishPendingKill, Exit
<1>4. CASE NoKey
  BY <1>4, TurnWaits DEF NoKey
<1>5. CASE Key
  <2>1. NextTurn \/ pc' \in {"exiting", "exited"}
    BY <1>5 DEF Key, LoadKey, UnloadKey, ClearFailureKey, SelectKey, ConfirmYes, ConfirmNo,
       ConfirmReplaced, KillKey, QuitKey
  <2> QED
    BY <2>1, TurnWaits
<1> QED
  BY <1>1, <1>2, <1>3, <1>4, <1>5 DEF LoopStep

\* Kill requests and spawns come in the order of their servers.
LEMMA RequestStep ==
    ASSUME IInv, RequestInv, LoadInv, [Next]_vars
    PROVE  RequestInv'
<1> USE DEF IInv, RequestInv
<1>w. WaitsForOne'
  <2>1. CASE TaskStep \/ UNCHANGED vars \/ \E g \in Server : ProcStep(g)
    BY <2>1, EnvKeepsLoop, EnvKeepsModels DEF WaitsForOne
  <2>2. CASE ProcessPendingKill
    BY <2>2 DEF ProcessPendingKill, WaitsForOne, HandlerHasWork
  <2>3. CASE (LoopStep \/ Key) /\ ~ProcessPendingKill
    BY <2>3, LoopGoesOn DEF WaitsForOne
  <2> QED
    BY <2>1, <2>2, <2>3 DEF Next
<1>t. /\ handle \in Server \cup {None} /\ pendKill \in Server \cup {None}
      /\ spawnTask \in Server \cup {None} /\ spawns \in Nat
  BY BoundAssumption DEF TypeOK, MaybeServer
<1>k. KillUnderWay <=> pendKill # None \/ Asked("KillHandle")
  BY DEF KillUnderWay, Asked, AskedIn
<1>l. KillUnderWay' <=> pendKill' # None \/ Asked("KillHandle")'
  BY DEF KillUnderWay, Asked, AskedIn
<1>e. ASSUME UNCHANGED <<spawns, spawnTask>>, handle' \in {handle, None},
             KillUnderWay' => KillUnderWay \/ handle # None
      PROVE  RequestInv'
  BY <1>e, <1>w, <1>t DEF GivenUp, Counted, FirstIsNotKilled
<1>1. CASE TaskStep \/ UNCHANGED vars \/ \E g \in Server : ProcStep(g)
  BY <1>1, <1>e, <1>k, <1>l, EnvKeepsLoop DEF Asked
<1>2. CASE Tick
  BY <1>2, <1>e, <1>k, <1>l, TickKeepsRequests DEF Asked
<1>3. CASE DrainQueue
  <2>1. queue # << >> /\ queue' = Tail(queue) /\ handle' = handle
    BY <1>3 DEF DrainQueue
  <2>2. CASE Head(queue).kind = "Spawn"
    <3>1. queue' = << >> /\ handle = None /\ ~Asked("KillHandle")
      BY <2>1, <2>2, SpawnIsAlone
    <3>2. ~Asked("KillHandle")'
      BY <3>1 DEF Asked, AskedIn
    <3>3. spawns' = spawns + 1 /\ pendKill' = pendKill
      BY <1>3, <2>2 DEF DrainQueue, ProcessPendingSpawn
    <3> QED
      BY <1>w, <1>t, <1>k, <1>l, <2>1, <3>1, <3>2, <3>3
         DEF GivenUp, Counted, FirstIsNotKilled
  <2>3. CASE Head(queue).kind # "Spawn"
    <3>1. UNCHANGED <<spawns, spawnTask>> /\ Head(queue).kind = "KillHandle"
      BY <1>3, <2>3 DEF DrainQueue, taskVars
    <3>2. KillUnderWay
      BY <1>k, <2>1, <3>1, TakeEvent
    <3> QED
      BY <1>e, <2>1, <3>1, <3>2
  <2> QED
    BY <2>2, <2>3
<1>4. CASE TickSpawnResult
  <2>1. /\ UNCHANGED <<spawns, queue, pendKill>> /\ spawnTask # None /\ spawnTask' = None
    BY <1>4 DEF TickSpawnResult, WaitsForOne, pendVars
  <2> QED
    BY <1>w, <1>t, <1>k, <1>l, <2>1 DEF GivenUp, Counted, FirstIsNotKilled, Asked
<1>5. CASE SpawnPending \/ TryExecuteApiLoad \/ ProcessPendingKill \/ Exit \/ NoKey
  <2>1. UNCHANGED <<spawns, spawnTask, pendKill, queue, handle>>
    BY <1>5 DEF SpawnPending, TryExecuteApiLoad, ProcessPendingKill, Exit, NoKey,
       KeyUnchanged, taskVars, pendVars, handleVars
  <2> QED
    BY <1>e, <1>k, <1>l, <2>1 DEF Asked
<1>6. CASE TryExecuteApiUnload
  <2>1. /\ UNCHANGED <<spawns, spawnTask, queue, handle>>
        /\ pendKill' # pendKill => handle # None
    BY <1>6 DEF TryExecuteApiUnload, taskVars, handleVars
  <2> QED
    BY <1>e, <1>k, <1>l, <2>1 DEF Asked
<1>7. CASE FinishPendingKill
  <2>1. UNCHANGED <<spawns, spawnTask, queue>> /\ handle' = None /\ pendKill' = None
    BY <1>7 DEF FinishPendingKill, taskVars
  <2> QED
    BY <1>e, <1>k, <1>l, <2>1 DEF Asked
<1>8. CASE Key
  <2>1. UNCHANGED <<spawns, spawnTask, pendKill>> /\ handle' \in {handle, None}
    BY <1>8, KeyKeepsSpawns
  <2>2. Asked("KillHandle")' => Asked("KillHandle") \/ handle # None
    <3>1. ASSUME NEW m \in Models, LoadKey(m)
          PROVE  Asked("KillHandle")' => handle # None
      BY <3>1, LoadKeyAsks DEF LoadInv
    <3>2. CASE KillKey
      BY <3>2 DEF KillKey
    <3>3. ASSUME queue' = queue PROVE Asked("KillHandle")' => Asked("KillHandle")
      BY <3>3 DEF Asked
    <3> QED
      BY <1>8, <3>1, <3>2, <3>3 DEF Key, UnloadKey, ClearFailureKey, SelectKey, ConfirmYes,
         ConfirmNo, ConfirmReplaced, QuitKey
  <2> QED
    BY <1>e, <1>k, <1>l, <2>1, <2>2
<1> QED
  BY <1>1, <1>2, <1>3, <1>4, <1>5, <1>6, <1>7, <1>8 DEF Next, LoopStep

\* The mode is chosen at the start, and spawn requests are only counted up.
LEMMA ModeStays ==
    ASSUME [Next]_vars PROVE mode' = mode
<1> USE DEF KeyUnchanged
<1>1. CASE TaskStep \/ UNCHANGED vars \/ \E g \in Server : ProcStep(g)
  BY <1>1, EnvKeepsModels
<1>2. CASE Tick
  BY <1>2 DEF Tick, TickServerLogs, TickSync, TickSyncThrottled, TickLoadingCompletion,
     TickServerExit
<1>3. CASE LoopStep /\ ~Tick
  BY <1>3 DEF LoopStep, DrainQueue, SpawnPending, TickSpawnResult, TryExecuteApiLoad,
     TryExecuteApiUnload, ProcessPendingKill, FinishPendingKill, NoKey, Exit
<1>4. CASE Key
  BY <1>4 DEF Key, LoadKey, UnloadKey, ClearFailureKey, SelectKey, ConfirmYes, ConfirmNo,
     ConfirmReplaced, KillKey, QuitKey
<1> QED
  BY <1>1, <1>2, <1>3, <1>4 DEF Next

\* In Bench mode no server ever answers.
LEMMA NobodyAnswers ==
    ASSUME TypeOK, [Next]_vars, mode = "Bench", Answering = {}
    PROVE  Answering' = {}
<1> SUFFICES ASSUME NEW h \in Server, proc[h] # "ready" PROVE proc'[h] # "ready"
  BY DEF Answering
<1> USE DEF TypeOK, procVars
<1>1. CASE TaskStep \/ UNCHANGED vars
  BY <1>1 DEF TaskStep, PollSucceeds, SyncPoll, RouterStep, LoadRequest, UnloadRequest, vars
<1>2. ASSUME NEW g \in Server, ProcStep(g) PROVE proc'[h] # "ready"
  BY <1>2 DEF ProcStep, SpawnSucceeds, SpawnFails, BecomesReady, Dies, IsKilled, Announces,
              LogsError
<1>3. CASE Tick \/ Key
  BY <1>3, TickKeepsRequests DEF Key, LoadKey, UnloadKey, ClearFailureKey, SelectKey,
     ConfirmYes, ConfirmNo, ConfirmReplaced, KillKey, QuitKey, KeyUnchanged
<1>4. CASE DrainQueue
  BY <1>4 DEF DrainQueue, ProcessPendingSpawn
<1>5. CASE FinishPendingKill
  BY <1>5 DEF FinishPendingKill, Ensured
<1>6. CASE SpawnPending \/ TickSpawnResult \/ TryExecuteApiLoad \/ TryExecuteApiUnload
           \/ ProcessPendingKill \/ NoKey \/ Exit
  BY <1>6 DEF SpawnPending, TickSpawnResult, TryExecuteApiLoad, TryExecuteApiUnload,
     ProcessPendingKill, NoKey, Exit, KeyUnchanged
<1> QED
  BY <1>1, <1>2, <1>3, <1>4, <1>5, <1>6 DEF Next, LoopStep

\* The end of a load: every other loading model is available again.
LEMMA CompletionEnds ==
    ASSUME TypeOK, TickLoadingCompletion, mstate' # mstate
    PROVE  /\ handle # None
           /\ \A m \in Models : ~Loading(m)'
           /\ \A m \in Models : mstate[m] = "Loaded" => mstate'[m] = "Loaded"
           /\ \A x, y \in Models : /\ mstate'[x] = "Loaded" /\ mstate'[y] = "Loaded" /\ x # y
                                   => mstate[x] = "Loaded" \/ mstate[y] = "Loaded"
           /\ \A m \in Models : mstate'[m] = "Loaded" => mstate[m] \in {"Loaded", "Loading"}
           /\ \A m \in Models :
                 m \in names' <=> m \in names \/ (mstate'[m] = "Loaded" /\ Loading(m))
<1>1. poll = "done" /\ handle # None /\ FinishLoading
  BY DEF TickLoadingCompletion, FinishLoading
<1> DEFINE rest == [m \in Models |-> IF Loading(m) THEN "Available" ELSE mstate[m]]
<1>2. CASE CompletedLoad = {}
  <2>1. mstate' = rest /\ names' = names
    BY <1>1, <1>2 DEF FinishLoading
  <2> QED
    BY <1>1, <2>1 DEF Loading
<1>3. CASE CompletedLoad # {}
  <2>1. PICK t \in CompletedLoad :
            mstate' = [rest EXCEPT ![t] = "Loaded"] /\ names' = names \cup {t}
    BY <1>1, <1>3 DEF FinishLoading
  <2>2. t \in Models /\ Loading(t)
    BY <2>1, ModelsAssumption DEF CompletedLoad
  <2>3. \A m \in Models : mstate'[m] = IF m = t THEN "Loaded"
                                       ELSE IF Loading(m) THEN "Available" ELSE mstate[m]
    BY <2>1, <2>2
  <2> QED
    BY <1>1, <2>1, <2>2, <2>3 DEF Loading
<1> QED
  BY <1>2, <1>3

\* Only requests to load, completed loads and routers bring a model into memory.
LEMMA LoadStep ==
    ASSUME IInv, RequestInv, LoadInv, [Next]_vars
    PROVE  LoadInv'
<1> USE DEF IInv, LoadInv
<1>m. mode' = mode /\ mode \in {"Normal", "Router", "Bench"}
  BY ModeStays, ModesAssumption DEF TypeOK
<1>0. CASE mode = "Router"
  BY <1>0, <1>m DEF OnlyRoutersLoad, BenchLoadsNothing, OneAtATime, NoneWhileSpawning
<1> SUFFICES ASSUME mode # "Router" PROVE LoadInv'
  BY <1>0
<1>s. snap = << >> /\ pendLoad = NoModel
  BY DEF OnlyRoutersLoad
<1>e. ASSUME snap' = << >>, pendLoad' = NoModel,
             \A m \in Models : mstate'[m] \in {"Loading", "Loaded"} => mstate'[m] = mstate[m],
             spawnTask' # None \/ Asked("Spawn")' =>
                 spawnTask # None \/ Asked("Spawn") \/ \A m \in Models : mstate[m] # "Loaded"
      PROVE  LoadInv'
  <2>1. OnlyRoutersLoad'
    BY <1>e DEF OnlyRoutersLoad
  <2>2. BenchLoadsNothing'
    BY <1>e, <1>m, NobodyAnswers DEF BenchLoadsNothing
  <2>3. OneAtATime'
    BY <1>e, <1>m DEF OneAtATime, Loading
  <2>4. NoneWhileSpawning'
    BY <1>e, <1>m DEF NoneWhileSpawning
  <2> QED
    BY <2>1, <2>2, <2>3, <2>4
<1>1. CASE TaskStep \/ UNCHANGED vars \/ \E g \in Server : ProcStep(g)
  BY <1>1, <1>e, <1>s, EnvKeepsLoop, EnvKeepsModels DEF Asked
<1>2. CASE Tick
  <2>1. UNCHANGED <<queue, spawnTask, pendLoad>>
    BY <1>2, TickKeepsRequests
  <2>2. CASE TickServerLogs
    BY <1>e, <1>s, <2>1, <2>2 DEF TickServerLogs, FailLoads, FailLoadsOf, feedVars, Asked
  <2>3. CASE TickSync \/ TickSyncThrottled
    BY <1>s, <2>3 DEF TickSync, TickSyncThrottled, RequestInv, WaitsForOne
  <2>4. CASE TickLoadingCompletion
    <3>1. snap' = << >>
      BY <1>s, <2>4 DEF TickLoadingCompletion, FinishLoading
    <3>2. CASE mstate' = mstate
      BY <1>e, <1>s, <2>1, <3>1, <3>2 DEF Asked
    <3>3. CASE mstate' # mstate
      <4>0. \E m \in Models : Loading(m)
        <5>1. mstate' \in [Models -> {"Available", "Loading", "Loaded", "Benchmarking", "Failed"}]
          BY TypeStep DEF TypeOK
        <5>2. PICK m \in Models : mstate'[m] # mstate[m]
          BY <3>3, <5>1 DEF TypeOK
        <5>3. (\E x \in Models : Loading(x)) \/ (\A x \in Models : mstate'[x] = mstate[x])
          BY <2>4 DEF TickLoadingCompletion, FinishLoading, CompletedLoad, TypeOK
        <5> QED
          BY <5>2, <5>3
      <4>1. OnlyRoutersLoad'
        BY <1>s, <2>1, <3>1 DEF OnlyRoutersLoad
      <4>2. BenchLoadsNothing' /\ mode = "Normal"
        BY <1>m, <4>0 DEF BenchLoadsNothing, Loading
      <4>3. OneAtATime'
        BY <1>m, <2>4, <3>3, <4>0, <4>2, CompletionEnds DEF OneAtATime, Loading
      <4>4. NoneWhileSpawning'
        <5>1. handle # None
          BY <2>4, <3>3, CompletionEnds
        <5>2. spawnTask = None
          BY <5>1 DEF RequestInv, GivenUp
        <5>3. ~Asked("Spawn")
          BY <5>1 DEF Asked, AskedIn, QueueInv, SpawnIsLast, TypeOK
        <5> QED
          BY <2>1, <5>2, <5>3 DEF NoneWhileSpawning, Asked
      <4> QED
        BY <4>1, <4>2, <4>3, <4>4
    <3> QED
      BY <3>2, <3>3
  <2>5. CASE TickServerExit
    BY <1>e, <1>s, <2>1, <2>5 DEF TickServerExit, AfterExit, Asked
  <2> QED
    BY <1>2, <2>2, <2>3, <2>4, <2>5 DEF Tick
<1>3. CASE DrainQueue
  <2>1. queue # << >> /\ queue' = Tail(queue) /\ UNCHANGED <<snap, pendLoad>>
    BY <1>3 DEF DrainQueue
  <2>2. CASE Head(queue).kind = "Spawn"
    <3>1. \A m \in Models : mstate[m] # "Loaded"
      BY <2>1, <2>2, TakeEvent DEF NoneWhileSpawning
    <3>2. PICK x : mstate' = [m \in Models |->
                    IF m # x THEN mstate[m]
                    ELSE IF mode = "Bench" THEN "Benchmarking" ELSE "Loading"]
      BY <1>3, <2>2 DEF DrainQueue, ProcessPendingSpawn
    <3>3. \A m \in Models : mstate'[m] # "Loaded"
      BY <3>1, <3>2
    <3> QED
      BY <1>m, <1>s, <2>1, <3>2, <3>3, NobodyAnswers
         DEF OnlyRoutersLoad, BenchLoadsNothing, OneAtATime, NoneWhileSpawning
  <2>3. CASE Head(queue).kind # "Spawn"
    <3>1. UNCHANGED <<spawnTask, mstate>>
      BY <1>3, <2>3 DEF DrainQueue, taskVars
    <3> QED
      BY <1>e, <1>s, <2>1, <3>1, TakeEvent
  <2> QED
    BY <2>2, <2>3
<1>4. CASE TickSpawnResult
  <2>1. snap' = << >> /\ spawnTask' = None /\ UNCHANGED <<queue, pendLoad>>
    BY <1>4, <1>s DEF TickSpawnResult, pendVars
  <2>2. \A m \in Models : mstate'[m] \in {"Loading", "Loaded"} => mstate'[m] = mstate[m]
    BY <1>4 DEF TickSpawnResult, FailLoads, FailLoadsOf
  <2> QED
    BY <1>e, <1>s, <2>1, <2>2 DEF Asked
<1>5. CASE TryExecuteApiLoad
  <2>1. snap' = << >> /\ pendLoad' = NoModel /\ UNCHANGED <<queue, spawnTask>>
    BY <1>5, <1>s DEF TryExecuteApiLoad
  <2>2. \A m \in Models : mstate'[m] \in {"Loading", "Loaded"} => mstate'[m] = mstate[m]
    BY <1>5, <1>s DEF TryExecuteApiLoad
  <2> QED
    BY <1>e, <2>1, <2>2 DEF Asked
<1>6. CASE TryExecuteApiUnload
  <2>1. UNCHANGED <<queue, spawnTask, pendLoad, snap>>
    BY <1>6 DEF TryExecuteApiUnload, taskVars, feedVars
  <2>2. \A m \in Models : mstate'[m] \in {mstate[m], "Available"}
    BY <1>6 DEF TryExecuteApiUnload, TypeOK
  <2> QED
    BY <1>e, <1>s, <2>1, <2>2 DEF Asked
<1>7. CASE FinishPendingKill
  <2>1. UNCHANGED <<queue, spawnTask, pendLoad>> /\ snap' = << >>
    BY <1>7 DEF FinishPendingKill, taskVars
  <2>2. \A m \in Models : mstate'[m] \in {mstate[m], "Available"}
    BY <1>7 DEF FinishPendingKill, AfterKill
  <2> QED
    BY <1>e, <1>s, <2>1, <2>2 DEF Asked
<1>8. CASE SpawnPending \/ ProcessPendingKill \/ NoKey \/ Exit
  <2>1. UNCHANGED <<queue, spawnTask, pendLoad, snap, mstate>>
    BY <1>8 DEF SpawnPending, ProcessPendingKill, NoKey, Exit, KeyUnchanged, taskVars,
       pendVars, feedVars, modelVars
  <2> QED
    BY <1>e, <1>s, <2>1 DEF Asked
<1>9. CASE Key
  <2>1. UNCHANGED <<spawnTask, snap>>
    BY <1>9 DEF Key, LoadKey, UnloadKey, ClearFailureKey, SelectKey, ConfirmYes, ConfirmNo,
       ConfirmReplaced, KillKey, QuitKey, KeyUnchanged, taskVars, feedVars
  <2>2. pendLoad' = pendLoad
    BY <1>9, LoadKeyAsks DEF Key, UnloadKey, ClearFailureKey, SelectKey, ConfirmYes, ConfirmNo,
       ConfirmReplaced, KillKey, QuitKey
  <2>3. \A m \in Models : mstate'[m] \in {mstate[m], "Available"}
    BY <1>9 DEF Key, LoadKey, UnloadKey, ClearFailureKey, SelectKey, ConfirmYes, ConfirmNo,
       ConfirmReplaced, KillKey, QuitKey, modelVars, TypeOK
  <2>4. Asked("Spawn")' => Asked("Spawn") \/ \A m \in Models : mstate[m] # "Loaded"
    <3>1. ASSUME NEW m \in Models, LoadKey(m), Asked("Spawn")'
          PROVE  \A x \in Models : mstate[x] # "Loaded"
      BY <3>1, <1>m, LoadKeyAsks DEF AnotherLoaded, BenchLoadsNothing
    <3>2. CASE KillKey
      <4>1. queue = << >>
        BY <3>2 DEF KillKey, QueueInv, QueueDrained
      <4>2. queue' = <<KillEvent>> /\ KillEvent.kind # "Spawn"
        BY <3>2, <4>1 DEF KillKey, KillEvent
      <4> QED
        BY <4>2 DEF Asked, AskedIn
    <3>3. ASSUME queue' = queue PROVE Asked("Spawn")' => Asked("Spawn")
      BY <3>3 DEF Asked
    <3> QED
      BY <1>9, <3>1, <3>2, <3>3 DEF Key, UnloadKey, ClearFailureKey, SelectKey, ConfirmYes,
         ConfirmNo, ConfirmReplaced, QuitKey
  <2> QED
    BY <1>e, <1>s, <2>1, <2>2, <2>3, <2>4
<1> QED
  BY <1>1, <1>2, <1>3, <1>4, <1>5, <1>6, <1>7, <1>8, <1>9 DEF Next, LoopStep

\* What is shown as loaded stays known by name, and keeps a server or a kill to come.
LEMMA ShownStep ==
    ASSUME IInv, RequestInv, LoadInv, ShownInv, [Next]_vars
    PROVE  ShownInv'
<1> USE DEF IInv
<1>m. mode' = mode /\ mode \in {"Normal", "Router", "Bench"}
  BY ModeStays, ModesAssumption DEF TypeOK
<1>r. RouterStays' => RouterStays
  <2>1. CASE TaskStep \/ UNCHANGED vars \/ \E g \in Server : ProcStep(g)
    BY <1>m, <2>1, EnvKeepsLoop DEF RouterStays
  <2>2. CASE Tick \/ Key
    BY <1>m, <2>2, TickKeepsRequests, KeyKeepsSpawns DEF RouterStays
  <2>3. CASE DrainQueue
    <3>1. spawns' \in {spawns, spawns + 1}
      BY <2>3 DEF DrainQueue, ProcessPendingSpawn, taskVars
    <3>2. spawns \in Nat
      BY BoundAssumption DEF TypeOK
    <3> QED
      BY <1>m, <3>1, <3>2 DEF RouterStays
  <2>4. CASE LoopStep /\ ~Tick /\ ~DrainQueue
    BY <1>m, <2>4 DEF RouterStays, LoopStep, SpawnPending, TickSpawnResult, TryExecuteApiLoad,
       TryExecuteApiUnload, ProcessPendingKill, FinishPendingKill, NoKey, Exit, KeyUnchanged,
       taskVars
  <2> QED
    BY <2>1, <2>2, <2>3, <2>4 DEF Next
<1> SUFFICES ASSUME RouterStays, RouterStays' PROVE (NamesAgree /\ LoadedHasServer)'
  BY <1>r DEF ShownInv
<1>a. NamesAgree /\ LoadedHasServer
  BY DEF ShownInv
<1>k. KillUnderWay <=> pendKill # None \/ Asked("KillHandle")
  BY DEF KillUnderWay, Asked, AskedIn
<1>l. KillUnderWay' <=> pendKill' # None \/ Asked("KillHandle")'
  BY DEF KillUnderWay, Asked, AskedIn
<1>n. ASSUME \A m \in Models : mstate'[m] = "Loaded" =>
                 mstate[m] = "Loaded" /\ (m \in names => m \in names'),
             \A m \in Models : m \in names' =>
                 m \in names /\ (mstate[m] = "Loaded" => mstate'[m] = "Loaded")
      PROVE  NamesAgree'
  <2>1. names' \subseteq Models
    BY TypeStep DEF TypeOK
  <2> QED
    BY <1>n, <1>a, <1>m, <2>1 DEF NamesAgree
<1>h. ASSUME \A m \in Models : mstate'[m] = "Loaded" => mstate[m] = "Loaded",
             Running' => Running,
             handle # None \/ KillUnderWay => handle' # None \/ KillUnderWay'
      PROVE  LoadedHasServer'
  BY <1>h, <1>a DEF LoadedHasServer
<1>z. ASSUME \A m \in Models : mstate'[m] # "Loaded",
             mode # "Router" => names' \subseteq {}
      PROVE  (NamesAgree /\ LoadedHasServer)'
  BY <1>z, <1>m DEF NamesAgree, LoadedHasServer
<1>u. ASSUME UNCHANGED <<mstate, names>>, Running' => Running,
             handle # None \/ KillUnderWay => handle' # None \/ KillUnderWay'
      PROVE  (NamesAgree /\ LoadedHasServer)'
  BY <1>u, <1>n, <1>h
<1>1. CASE TaskStep \/ UNCHANGED vars \/ \E g \in Server : ProcStep(g)
  BY <1>1, <1>u, <1>k, <1>l, EnvKeepsLoop, EnvKeepsModels DEF Running, Asked
<1>2. CASE TickServerLogs
  <2>1. UNCHANGED <<handle, queue, pendKill>> /\ pc = "logs"
    BY <1>2 DEF TickServerLogs, handleVars, pendVars
  <2>2. CASE UNCHANGED <<mstate, names>>
    BY <1>u, <1>k, <1>l, <2>1, <2>2 DEF Running, Asked
  <2>3. CASE FailLoads(FALSE)
    BY <1>n, <1>h, <1>k, <1>l, <2>1, <2>3 DEF FailLoads, FailLoadsOf, Running, Asked
  <2> QED
    BY <1>2, <2>2, <2>3 DEF TickServerLogs
<1>3. CASE TickSyncThrottled
  BY <1>3, <1>u, <1>k, <1>l DEF TickSyncThrottled, Running, Asked, handleVars, pendVars,
     modelVars
<1>4. CASE TickSync
  <2>1. UNCHANGED <<handle, queue, pendKill>> /\ pc = "sync"
    BY <1>4 DEF TickSync, handleVars, pendVars
  <2>2. CASE handle = None
    BY <1>4, <1>u, <1>k, <1>l, <2>1, <2>2 DEF TickSync, Running, Asked
  <2>3. CASE handle # None
    <3>1. mode = "Router"
      BY <2>1 DEF LoadInv, OnlyRoutersLoad, RequestInv, WaitsForOne
    <3>2. LoadedHasServer'
      BY <2>1, <2>3 DEF LoadedHasServer
    <3> DEFINE states == [m \in Models |-> Synced(m)]
               failed == {m \in Models : states[m] = "Failed" /\ mstate[m] # "Failed"}
    <3>3. \/ mstate' = states /\ names' = SyncedNames(failed)
          \/ FailLoadsOf(states, SyncedNames(failed), FALSE)
      BY <1>4, <2>3 DEF TickSync
    <3>4. \A m \in Models : states[m] = "Loaded" => m \in SyncedNames(failed)
      BY <1>a DEF Synced, SyncedNames, NamesAgree
    <3> HIDE DEF states, failed
    <3>5. \A m \in Models : mstate'[m] = "Loaded" => m \in names'
      BY <3>3, <3>4 DEF FailLoadsOf
    <3> QED
      BY <1>m, <3>1, <3>2, <3>5 DEF NamesAgree
  <2> QED
    BY <2>2, <2>3
<1>5. CASE TickLoadingCompletion
  <2>1. UNCHANGED <<handle, queue, pendKill>> /\ pc = "completion"
    BY <1>5 DEF TickLoadingCompletion, handleVars, pendVars
  <2>2. CASE mstate' # mstate
    <3>1. LoadedHasServer'
      BY <1>5, <2>1, <2>2, CompletionEnds DEF LoadedHasServer
    <3>2. names' \subseteq Models
      BY TypeStep DEF TypeOK
    <3>3. NamesAgree'
      <4>1. \A m \in Models :
              /\ mstate[m] = "Loaded" => mstate'[m] = "Loaded"
              /\ mstate'[m] = "Loaded" => mstate[m] = "Loaded" \/ Loading(m)
              /\ m \in names' <=> m \in names \/ (mstate'[m] = "Loaded" /\ Loading(m))
        BY <1>5, <2>2, CompletionEnds DEF Loading
      <4> QED
        BY <1>a, <1>m, <3>2, <4>1 DEF NamesAgree
    <3> QED
      BY <3>1, <3>3
  <2>3. CASE mstate' = mstate
    <3>1. names' = names
      <4>1. ASSUME poll = "done", handle # None, CompletedLoad # {} PROVE FALSE
        <5> DEFINE rest == [m \in Models |->
                              IF Loading(m) THEN "Available" ELSE mstate[m]]
        <5>1. PICK t \in CompletedLoad : mstate' = [rest EXCEPT ![t] = "Loaded"]
          BY <1>5, <4>1 DEF TickLoadingCompletion, FinishLoading
        <5>2. t \in Models /\ Loading(t)
          BY ModelsAssumption DEF CompletedLoad
        <5>3. mstate'[t] = "Loaded"
          BY <5>1, <5>2
        <5> QED
          BY <2>3, <5>2, <5>3 DEF Loading
      <4> QED
        BY <1>5, <4>1 DEF TickLoadingCompletion, FinishLoading
    <3> QED
      BY <1>u, <1>k, <1>l, <2>1, <2>3, <3>1 DEF Running, Asked
  <2> QED
    BY <2>2, <2>3
<1>6. CASE TickServerExit
  BY <1>6, <1>z DEF TickServerExit, AfterExit
<1>7. CASE DrainQueue
  <2>1. queue # << >> /\ queue' = Tail(queue) /\ UNCHANGED <<handle, names>> /\ pc = "drain"
    BY <1>7 DEF DrainQueue
  <2>2. CASE Head(queue).kind = "Spawn"
    <3>1. pendKill' = pendKill /\ ~Asked("KillHandle")
      BY <1>7, <2>1, <2>2, SpawnIsAlone DEF DrainQueue
    <3>2. \A m \in Models : mstate'[m] = "Loaded" => mstate[m] = "Loaded"
      BY <1>7, <2>2 DEF DrainQueue, ProcessPendingSpawn
    <3>3. mode # "Router" => \A m \in Models : mstate[m] # "Loaded"
      BY <2>1, <2>2, TakeEvent DEF LoadInv, NoneWhileSpawning
    <3>4. NamesAgree'
      BY <1>a, <1>m, <2>1, <3>2, <3>3 DEF NamesAgree
    <3> QED
      BY <1>h, <1>k, <1>l, <2>1, <3>1, <3>2, <3>4 DEF Running
  <2>3. CASE Head(queue).kind # "Spawn"
    <3>1. /\ Head(queue).kind = "KillHandle" /\ pendKill' = Head(queue).server
          /\ mstate' = mstate
      BY <1>7, <2>3 DEF DrainQueue
    <3>2. pendKill' # None
      <4>1. Head(queue) \in Event
        BY <2>1, TakeEvent
      <4>2. Head(queue).server \in Server
        BY <3>1, <4>1 DEF Event
      <4> QED
        BY <3>1, <4>2 DEF Server, None
    <3> QED
      BY <1>u, <1>l, <2>1, <3>1, <3>2 DEF Running
  <2> QED
    BY <2>2, <2>3
<1>8. CASE TickSpawnResult
  <2>1. CASE proc[spawnTask] = "failed"
    <3>1. FailLoads(TRUE)
      BY <1>8, <2>1 DEF TickSpawnResult
    <3>2. \A m \in Models : mstate'[m] # "Loaded"
      BY <3>1 DEF FailLoads, FailLoadsOf
    <3>3. mode # "Router" => names' \subseteq {}
      BY <1>a, <3>1 DEF FailLoads, FailLoadsOf, NamesAgree
    <3> QED
      BY <1>z, <3>2, <3>3
  <2>2. CASE proc[spawnTask] # "failed"
    <3>1. handle' = spawnTask /\ spawnTask # None /\ pc = "spawned"
      BY <1>8, <2>2 DEF TickSpawnResult, RequestInv, WaitsForOne
    <3>2. UNCHANGED names
      BY <1>8, <2>2 DEF TickSpawnResult
    <3>3. UNCHANGED mstate
      BY <1>8, <2>2 DEF TickSpawnResult
    <3> QED
      BY <1>u, <3>1, <3>2, <3>3 DEF Running
  <2> QED
    BY <2>1, <2>2
<1>9. CASE TryExecuteApiLoad
  <2>1. UNCHANGED <<handle, queue, pendKill>> /\ pc = "load"
    BY <1>9 DEF TryExecuteApiLoad, handleVars
  <2>2. \A m \in Models : mstate'[m] = "Loaded" =>
            mstate[m] = "Loaded" /\ (m \in names => m \in names')
    BY <1>9 DEF TryExecuteApiLoad
  <2>3. mode # "Router" =>
          \A m \in Models : m \in names' =>
              m \in names /\ (mstate[m] = "Loaded" => mstate'[m] = "Loaded")
    <3>1. mode # "Router" => pendLoad = NoModel
      BY DEF LoadInv, OnlyRoutersLoad
    <3> QED
      BY <1>9, <3>1 DEF TryExecuteApiLoad
  <2>4. NamesAgree'
    <3>1. names' \subseteq Models
      BY TypeStep DEF TypeOK
    <3> QED
      BY <1>a, <1>m, <2>2, <2>3, <3>1 DEF NamesAgree
  <2> QED
    BY <1>h, <1>k, <1>l, <2>1, <2>2, <2>4 DEF Running, Asked
<1>10. CASE TryExecuteApiUnload
  <2>1. UNCHANGED <<handle, queue>> /\ pc = "unload" /\ pendUnload \in Models
    BY <1>10 DEF TryExecuteApiUnload, handleVars, HandlerHasWork, TypeOK, MaybeModel
  <2>2. CASE handle = None
    <3>1. UNCHANGED <<pendKill, mstate, names>>
      BY <1>10, <2>2 DEF TryExecuteApiUnload
    <3> QED
      BY <1>u, <1>k, <1>l, <2>1, <3>1 DEF Running, Asked
  <2>3. CASE handle # None
    <3>1. mstate' = [mstate EXCEPT ![pendUnload] = "Available"] /\ names' = names \ {pendUnload}
      BY <1>10, <2>3 DEF TryExecuteApiUnload
    <3>2. \A m \in Models : mstate'[m] = IF m = pendUnload THEN "Available" ELSE mstate[m]
      BY <2>1, <3>1 DEF TypeOK
    <3> QED
      BY <1>n, <1>h, <2>1, <2>3, <3>1, <3>2 DEF Running
  <2> QED
    BY <2>2, <2>3
<1>11. CASE FinishPendingKill
  <2>1. pendKill # None
    BY <1>11 DEF FinishPendingKill, RequestInv, WaitsForOne
  <2>2. spawnTask # None => \A m \in Models : mstate[m] # "Loaded"
    <3>1. CASE mode = "Router"
      BY <1>k, <2>1, <3>1 DEF RouterStays, RequestInv, FirstIsNotKilled
    <3>2. CASE mode # "Router"
      BY <3>2 DEF LoadInv, NoneWhileSpawning
    <3> QED
      BY <3>1, <3>2
  <2>3. \A m \in Models : mstate'[m] # "Loaded"
    BY <1>11, <2>2 DEF FinishPendingKill, AfterKill
  <2> QED
    BY <1>11, <1>z, <2>3 DEF FinishPendingKill
<1>12. CASE SpawnPending \/ ProcessPendingKill \/ NoKey \/ Exit
  <2>1. UNCHANGED <<mstate, names, handle, queue, pendKill>>
    BY <1>12 DEF SpawnPending, ProcessPendingKill, NoKey, Exit, KeyUnchanged, handleVars,
       pendVars, modelVars
  <2>2. Running' => Running
    BY <1>12 DEF SpawnPending, ProcessPendingKill, NoKey, Exit, Running
  <2> QED
    BY <1>u, <1>k, <1>l, <2>1, <2>2 DEF Asked
<1>13. CASE Key
  <2>1. pc = "key" /\ queue = << >>
    BY <1>13 DEF Key, LoadKey, UnloadKey, ClearFailureKey, SelectKey, ConfirmYes, ConfirmNo,
       ConfirmReplaced, KillKey, QuitKey, QueueInv, QueueDrained
  <2>2. ~Asked("KillHandle") /\ pendKill' = pendKill
    BY <1>13, <2>1, KeyKeepsSpawns DEF Asked, AskedIn
  <2>3. ASSUME NEW m \in Models, LoadKey(m) PROVE (NamesAgree /\ LoadedHasServer)'
    <3>1. UNCHANGED <<mstate, names>>
      BY <2>3 DEF LoadKey
    <3>2. handle' = handle \/ Asked("KillHandle")'
      BY <2>3, LoadKeyAsks DEF LoadInv
    <3> QED
      BY <1>u, <1>k, <1>l, <2>1, <2>2, <3>1, <3>2 DEF Running
  <2>4. ASSUME NEW m \in Models, ClearFailureKey(m) PROVE (NamesAgree /\ LoadedHasServer)'
    <3>1. UNCHANGED <<handle, queue, names>>
      BY <2>4 DEF ClearFailureKey
    <3>2. \A x \in Models : (mstate'[x] = "Loaded") <=> (mstate[x] = "Loaded")
      BY <2>4 DEF ClearFailureKey, TypeOK
    <3> QED
      BY <1>n, <1>h, <1>k, <1>l, <2>1, <2>2, <3>1, <3>2 DEF Running
  <2>5. CASE KillKey
    <3>1. UNCHANGED <<mstate, names>> /\ queue' = Append(queue, KillEvent)
      BY <2>5 DEF KillKey, modelVars
    <3>2. queue' = <<KillEvent>> /\ KillEvent.kind = "KillHandle"
      BY <2>1, <3>1 DEF KillEvent
    <3>3. Asked("KillHandle")'
      BY <3>2 DEF Asked, AskedIn
    <3> QED
      BY <1>u, <1>l, <2>1, <3>1, <3>3 DEF Running
  <2>6. CASE QuitKey
    <3>1. UNCHANGED <<mstate, names>> /\ pc' \in {"exiting", "exited"}
      BY <2>6 DEF QuitKey, modelVars
    <3> QED
      BY <1>n, <3>1 DEF LoadedHasServer, Running
  <2>7. CASE \/ ConfirmYes \/ ConfirmNo \/ ConfirmReplaced
             \/ \E m \in Models : UnloadKey(m) \/ SelectKey(m)
    <3>1. UNCHANGED <<mstate, names, handle, queue>>
      BY <2>7 DEF ConfirmYes, ConfirmNo, ConfirmReplaced, UnloadKey, SelectKey, modelVars
    <3> QED
      BY <1>u, <1>k, <1>l, <2>1, <2>2, <3>1 DEF Running
  <2> QED
    BY <1>13, <2>3, <2>4, <2>5, <2>6, <2>7 DEF Key
<1> QED
  BY <1>1, <1>2, <1>3, <1>4, <1>5, <1>6, <1>7, <1>8, <1>9, <1>10, <1>11, <1>12, <1>13
     DEF Next, LoopStep, Tick

-----------------------------------------------------------------------------
\* The two invariants hold together.
LEMMA ModelsHold == Spec => [](IInv /\ MInv)
<1>1. Init => MInv
  <2> SUFFICES ASSUME Init PROVE MInv
    OBVIOUS
  <2>1. ~KillUnderWay
    BY DEF Init, KillUnderWay
  <2>2. RequestInv
    BY <2>1 DEF Init, RequestInv, GivenUp, Counted, FirstIsNotKilled, WaitsForOne
  <2>3. LoadInv
    BY DEF Init, LoadInv, OnlyRoutersLoad, BenchLoadsNothing, OneAtATime, NoneWhileSpawning,
       Answering, Loading, Asked, AskedIn
  <2>4. ShownInv
    BY DEF Init, ShownInv, NamesAgree, LoadedHasServer
  <2> QED
    BY <2>2, <2>3, <2>4 DEF MInv
<1>2. IInv /\ MInv /\ [Next]_vars => MInv'
  BY RequestStep, LoadStep, ShownStep DEF MInv
<1> QED
  BY <1>1, <1>2, IInvCorrect, PTL DEF Spec

\* In Normal mode at most one model is in memory, whatever was spawned, replaced,
\* killed or crashed, and whichever process the health poll reached.
THEOREM OneModelOnly == Spec => []OneModelInNormalMode
<1>1. OneAtATime => OneModelInNormalMode
  <2> SUFFICES ASSUME OneAtATime, mode = "Normal"
               PROVE  Cardinality({m \in Models : mstate[m] = "Loaded"}) <= 1
    BY DEF OneModelInNormalMode
  <2> DEFINE loaded == {m \in Models : mstate[m] = "Loaded"}
  <2>1. CASE loaded = {}
    BY <2>1, FS_EmptySet
  <2>2. CASE loaded # {}
    <3>1. PICK x \in loaded : TRUE
      BY <2>2
    <3>2. loaded = {x}
      BY <3>1 DEF OneAtATime
    <3>3. Cardinality({x}) = 1
      BY FS_Singleton
    <3> QED
      BY <3>2, <3>3
  <2> QED
    BY <2>1, <2>2
<1> QED
  BY <1>1, ModelsHold, PTL DEF MInv, LoadInv

\* As long as no second router is asked for, the names the metrics and the WebSocket
\* read are those of the models shown as loaded.
THEOREM NamesAreShown == Spec => [](RouterStays => NamesAgree)
  BY ModelsHold, PTL DEF MInv, ShownInv

\* As long as no second router is asked for, a model shown as loaded has the app's
\* server, or the kill that will reset it is under way.
THEOREM LoadedIsServed == Spec => [](RouterStays => LoadedHasServer)
  BY ModelsHold, PTL DEF MInv, ShownInv

-----------------------------------------------------------------------------
(* The contract of each server.                                             *)

\* A request to kill a server is not taken back.
LEMMA KillsStay ==
    ASSUME TypeOK, [Next]_vars
    PROVE  killed \subseteq killed'
<1> USE DEF EnvUnchanged, procVars, Ask
<1>1. ASSUME NEW g \in Server, ProcStep(g) PROVE killed' = killed
  BY <1>1 DEF ProcStep, SpawnSucceeds, SpawnFails, BecomesReady, Dies, IsKilled, Announces, LogsError
<1>2. CASE TaskStep
  BY <1>2 DEF TaskStep, PollSucceeds, SyncPoll, RouterStep, LoadRequest, UnloadRequest
<1>3. CASE Tick
  BY <1>3 DEF Tick, TickServerLogs, TickSync, TickSyncThrottled, TickLoadingCompletion,
              TickServerExit
<1>4. CASE DrainQueue \/ SpawnPending \/ TickSpawnResult \/ TryExecuteApiLoad \/ TryExecuteApiUnload
  BY <1>4 DEF DrainQueue, SpawnPending, TickSpawnResult, TryExecuteApiLoad, TryExecuteApiUnload
<1>5. CASE ProcessPendingKill \/ FinishPendingKill \/ NoKey \/ Exit
  BY <1>5 DEF ProcessPendingKill, FinishPendingKill, NoKey, KeyUnchanged, Exit
<1>6. CASE Key
  BY <1>6 DEF Key, LoadKey, UnloadKey, ClearFailureKey, SelectKey, ConfirmYes, ConfirmNo,
              ConfirmReplaced, KillKey, QuitKey, KeyUnchanged
<1>7. CASE UNCHANGED vars
  BY <1>7 DEF vars
<1> QED
  BY <1>1, <1>2, <1>3, <1>4, <1>5, <1>6, <1>7 DEF Next, LoopStep

\* Apart from the steps of a process, a server is begun when its number is given out, and
\* killed with a signal when it did not die in time.
LEMMA LoopKeepsProcesses ==
    ASSUME IInv, [Next]_vars, \A g \in Server : ~ProcStep(g)
    PROVE  \/ proc' = proc
           \/ \E g \in Server : /\ proc[g] = "none" /\ proc' = [proc EXCEPT ![g] = "spawning"]
                               /\ killed' = killed
           \/ \E g \in Server : /\ Alive(g) /\ proc' = [proc EXCEPT ![g] = "dead"]
                               /\ killed' = killed
<1> USE DEF EnvUnchanged, procVars
<1>2. CASE TaskStep
  BY <1>2 DEF TaskStep, PollSucceeds, SyncPoll, RouterStep, LoadRequest, UnloadRequest
<1>3. CASE Tick
  BY <1>3 DEF Tick, TickServerLogs, TickSync, TickSyncThrottled, TickLoadingCompletion,
              TickServerExit
<1>4. CASE DrainQueue
  <2>1. CASE proc' = proc
    BY <2>1
  <2>2. CASE proc' # proc
    <3>1. killed' = killed /\ spawns' = spawns + 1 /\ proc' = [proc EXCEPT ![spawns + 1] = "spawning"]
      BY <1>4, <2>2 DEF DrainQueue, ProcessPendingSpawn
    <3>2. spawns + 1 \in Server /\ proc[spawns + 1] = "none"
      <4>1. spawns \in 0 .. MaxSpawn /\ spawns' \in 0 .. MaxSpawn
        BY TypeStep DEF IInv, TypeOK
      <4>2. spawns + 1 \in Server /\ spawns + 1 > spawns
        BY <3>1, <4>1, BoundAssumption DEF Server
      <4> QED
        BY <4>2 DEF IInv, ListenInv, NotYetSpawned
    <3> QED
      BY <3>1, <3>2
  <2> QED
    BY <2>1, <2>2
<1>5. CASE SpawnPending \/ TickSpawnResult \/ TryExecuteApiLoad \/ TryExecuteApiUnload
  BY <1>5 DEF SpawnPending, TickSpawnResult, TryExecuteApiLoad, TryExecuteApiUnload
<1>6. CASE FinishPendingKill
  <2>1. pendKill \in MaybeServer /\ killed' = killed
    BY <1>6 DEF FinishPendingKill, IInv, TypeOK
  <2>2. proc' = proc \/ (Alive(pendKill) /\ proc' = [proc EXCEPT ![pendKill] = "dead"])
    BY <1>6 DEF FinishPendingKill, Ensured
  <2>3. pendKill \notin Server => [proc EXCEPT ![pendKill] = "dead"] = proc
    BY DEF IInv, TypeOK
  <2> QED
    BY <2>1, <2>2, <2>3
<1>7. CASE ProcessPendingKill \/ NoKey \/ Exit
  BY <1>7 DEF ProcessPendingKill, NoKey, KeyUnchanged, Exit
<1>8. CASE Key
  BY <1>8 DEF Key, LoadKey, UnloadKey, ClearFailureKey, SelectKey, ConfirmYes, ConfirmNo,
              ConfirmReplaced, KillKey, QuitKey, KeyUnchanged
<1>9. CASE UNCHANGED vars
  BY <1>9 DEF vars
<1> QED
  BY <1>2, <1>3, <1>4, <1>5, <1>6, <1>7, <1>8, <1>9 DEF Next, LoopStep

\* A step is one of the contract of each server, or leaves that server alone.
LEMMA ContractStep ==
    ASSUME IInv, [Next]_vars, NEW g \in Server
    PROVE  [Contract(g)!Next]_(Contract(g)!vars)
<1> USE DEF Contract!Next, Contract!vars, Contract!Ask, Contract!Die, Contract!Announce
<1>0. TypeOK /\ proc \in [Server -> {"none", "spawning", "failed", "starting", "ready", "dead", "gone"}]
  BY DEF IInv, TypeOK
<1>1. CASE proc' = proc
  <2>1. g \in killed => g \in killed'
    BY <1>0, KillsStay
  <2> QED
    BY <1>1, <2>1
<1>2. ASSUME NEW h \in Server, ProcStep(h) PROVE [Contract(g)!Next]_(Contract(g)!vars)
  <2>1. killed' = killed
    BY <1>2 DEF ProcStep, SpawnSucceeds, SpawnFails, BecomesReady, Dies, IsKilled, Announces, LogsError,
                procVars
  <2>2. CASE SpawnSucceeds(h) \/ BecomesReady(h)
    BY <1>0, <2>1, <2>2 DEF SpawnSucceeds, BecomesReady
  <2>3. CASE SpawnFails(h) \/ Dies(h) \/ IsKilled(h)
    BY <1>0, <2>1, <2>3 DEF SpawnFails, Dies, IsKilled, Alive
  <2>4. CASE Announces(h)
    BY <1>0, <2>1, <2>4 DEF Announces
  <2>5. CASE LogsError(h)
    BY <1>1, <2>5 DEF LogsError, procVars
  <2> QED
    BY <1>2, <2>2, <2>3, <2>4, <2>5 DEF ProcStep
<1>3. ASSUME NEW h \in Server, proc[h] = "none", proc' = [proc EXCEPT ![h] = "spawning"], killed' = killed
      PROVE  [Contract(g)!Next]_(Contract(g)!vars)
  BY <1>0, <1>3
<1>4. ASSUME NEW h \in Server, Alive(h), proc' = [proc EXCEPT ![h] = "dead"], killed' = killed
      PROVE  [Contract(g)!Next]_(Contract(g)!vars)
  BY <1>0, <1>4 DEF Alive
<1> QED
  BY <1>1, <1>2, <1>3, <1>4, LoopKeepsProcesses

\* Whatever the app does with its servers, each of them lives by the contract: it dies
\* once, is never asked in vain by one who takes it back, and is announced after its
\* death only.  (server.rs:1164, 1250)
THEOREM ServersKeepContract == Spec => KeepsContract
<1> SUFFICES ASSUME NEW g \in Server PROVE Spec => Contract(g)!Spec
  BY DEF KeepsContract
<1>1. Init => Contract(g)!Init
  BY DEF Init, Contract!Init
<1>2. IInv /\ [Next]_vars => [Contract(g)!Next]_(Contract(g)!vars)
  BY ContractStep
<1> QED
  BY <1>1, <1>2, IInvCorrect, PTL DEF Spec, Contract!Spec

\* Notifications in the app's channels are of servers that were announced.
LEMMA ExitsStep ==
    ASSUME IInv, ExitsAreReal, [Next]_vars
    PROVE  ExitsAreReal'
<1>0. TypeOK /\ proc \in [Server -> {"none", "spawning", "failed", "starting", "ready", "dead", "gone"}]
      /\ exitMsg \subseteq Server
  BY DEF IInv, TypeOK
<1>1. ASSUME NEW h \in Server, ProcStep(h) PROVE ExitsAreReal'
  <2>1. CASE Announces(h)
    BY <1>0, <2>1 DEF Announces, ExitsAreReal
  <2>2. CASE ~Announces(h)
    <3>1. exitMsg' = exitMsg /\ (proc' = proc \/ \E t : proc[h] # "gone" /\ proc' = [proc EXCEPT ![h] = t])
      BY <1>1, <2>2 DEF ProcStep, SpawnSucceeds, SpawnFails, BecomesReady, Dies, IsKilled, LogsError, procVars,
                        Alive
    <3> QED
      BY <1>0, <3>1 DEF ExitsAreReal
  <2> QED
    BY <2>1, <2>2
<1>2. CASE \A g \in Server : ~ProcStep(g)
  <2>1. exitMsg' \subseteq exitMsg
    <3> USE DEF EnvUnchanged, procVars
    <3>2. CASE TaskStep
      BY <3>2 DEF TaskStep, PollSucceeds, SyncPoll, RouterStep, LoadRequest, UnloadRequest
    <3>3. CASE Tick
      BY <3>3 DEF Tick, TickServerLogs, TickSync, TickSyncThrottled, TickLoadingCompletion,
                  TickServerExit
    <3>4. CASE DrainQueue \/ SpawnPending \/ TickSpawnResult \/ TryExecuteApiLoad \/ TryExecuteApiUnload
      BY <3>4 DEF DrainQueue, ProcessPendingSpawn, SpawnPending, TickSpawnResult, TryExecuteApiLoad, TryExecuteApiUnload
    <3>5. CASE ProcessPendingKill \/ FinishPendingKill \/ NoKey \/ Exit
      BY <3>5 DEF ProcessPendingKill, FinishPendingKill, NoKey, KeyUnchanged, Exit
    <3>6. CASE Key
      BY <3>6 DEF Key, LoadKey, UnloadKey, ClearFailureKey, SelectKey, ConfirmYes, ConfirmNo,
                  ConfirmReplaced, KillKey, QuitKey, KeyUnchanged
    <3>7. CASE UNCHANGED vars
      BY <3>7 DEF vars
    <3> QED
      BY <1>2, <3>2, <3>3, <3>4, <3>5, <3>6, <3>7 DEF Next, LoopStep
  <2>2. \A g \in Server : proc[g] = "gone" => proc'[g] = "gone"
    BY <1>0, <1>2, LoopKeepsProcesses DEF Alive
  <2> QED
    BY <1>0, <2>1, <2>2 DEF ExitsAreReal
<1> QED
  BY <1>1, <1>2

\* What the app takes for the end of a server is one.  (main.rs:323)
THEOREM ExitsAreOfTheDead == Spec => []ExitsAreReal
<1>1. Init => ExitsAreReal
  BY DEF Init, ExitsAreReal
<1> QED
  BY <1>1, ExitsStep, IInvCorrect, PTL DEF Spec

-----------------------------------------------------------------------------
(* The notice of a death.                                                  *)

\* Only a loop that awaits the end of a server has taken the channel for it.
KillerWaits == killRx # None => pc \in {"killing", "exiting", "exited"}

\* The channel is taken where the loop begins to wait, and used up where it goes on.
LEMMA KillerStep ==
    ASSUME TypeOK, KillerWaits, [Next]_vars
    PROVE  KillerWaits'
<1> USE DEF EnvUnchanged, pendVars, KillerWaits
<1>1. ASSUME NEW g \in Server, ProcStep(g) PROVE KillerWaits'
  BY <1>1 DEF ProcStep, SpawnSucceeds, SpawnFails, BecomesReady, Dies, IsKilled, Announces, LogsError
<1>2. CASE TaskStep
  BY <1>2 DEF TaskStep, PollSucceeds, SyncPoll, RouterStep, LoadRequest, UnloadRequest
<1>3. CASE Tick
  BY <1>3 DEF Tick, TickServerLogs, TickSync, TickSyncThrottled, TickLoadingCompletion,
              TickServerExit
<1>4. CASE DrainQueue \/ SpawnPending \/ TickSpawnResult \/ TryExecuteApiLoad \/ TryExecuteApiUnload
  BY <1>4 DEF DrainQueue, SpawnPending, TickSpawnResult, TryExecuteApiLoad, TryExecuteApiUnload
<1>5. CASE ProcessPendingKill \/ FinishPendingKill \/ NoKey \/ Exit
  BY <1>5 DEF ProcessPendingKill, FinishPendingKill, NoKey, KeyUnchanged, Exit
<1>6. CASE Key
  <2>1. CASE QuitKey
    BY <2>1 DEF QuitKey
  <2>2. CASE ~QuitKey
    BY <1>6, <2>2 DEF Key, LoadKey, UnloadKey, ClearFailureKey, SelectKey, ConfirmYes, ConfirmNo,
                ConfirmReplaced, KillKey, KeyUnchanged
  <2> QED
    BY <2>1, <2>2
<1>7. CASE UNCHANGED vars
  BY <1>7 DEF vars
<1> QED
  BY <1>1, <1>2, <1>3, <1>4, <1>5, <1>6, <1>7 DEF Next, LoopStep

\* A step that leaves the handle keeps the notice and the channel: the exit tick and
\* the end of a kill take the handle with them, a spawn request finds it gone
\* (SpawnIsLast), and a kill takes the channel over.
LEMMA NoticeStep ==
    ASSUME IInv, KillerWaits, [Next]_vars, NEW g \in Server, handle = g, handle' = g,
           g \in {exitRx, killRx}, Dying(g)
    PROVE  g \in {exitRx', killRx'} /\ Dying(g)'
<1>0. TypeOK /\ proc \in [Server -> {"none", "spawning", "failed", "starting", "ready", "dead", "gone"}]
      /\ g # None
  BY DEF IInv, TypeOK, Server, None
<1>1. ASSUME NEW h \in Server, ProcStep(h) PROVE g \in {exitRx', killRx'} /\ Dying(g)'
  <2>1. exitRx' = exitRx /\ killRx' = killRx
    BY <1>1 DEF ProcStep, SpawnSucceeds, SpawnFails, BecomesReady, Dies, IsKilled, Announces, LogsError,
                EnvUnchanged, handleVars, pendVars
  <2>2. CASE Announces(h)
    BY <1>0, <2>1, <2>2 DEF Announces, Dying
  <2>3. CASE ~Announces(h)
    <3>1. exitMsg' = exitMsg
          /\ (proc' = proc \/ \E t : proc[h] # "dead" /\ proc' = [proc EXCEPT ![h] = t])
      BY <1>1, <2>3 DEF ProcStep, SpawnSucceeds, SpawnFails, BecomesReady, Dies, IsKilled, LogsError, procVars,
                        Alive
    <3> QED
      BY <1>0, <2>1, <3>1 DEF Dying
  <2> QED
    BY <2>2, <2>3
<1>2. ASSUME exitMsg' = exitMsg, exitRx' = exitRx /\ killRx' = killRx,
             \A h \in Server : ~ProcStep(h)
      PROVE  g \in {exitRx', killRx'} /\ Dying(g)'
  BY <1>0, <1>2, LoopKeepsProcesses DEF Dying, Alive
<1>3. CASE \A h \in Server : ~ProcStep(h)
  <2> USE DEF EnvUnchanged, procVars, handleVars, pendVars
  <2>1. CASE TaskStep
    BY <1>2, <1>3, <2>1 DEF TaskStep, PollSucceeds, SyncPoll, RouterStep, LoadRequest, UnloadRequest
  <2>2. CASE Tick
    <3>1. ~TickServerExit
      BY <1>0 DEF TickServerExit
    <3> QED
      BY <1>2, <1>3, <2>2, <3>1 DEF Tick, TickServerLogs, TickSync, TickSyncThrottled,
         TickLoadingCompletion
  <2>3. CASE DrainQueue
    <3>1. queue # << >> /\ queue \in Seq(Event)
      BY <2>3 DEF DrainQueue, IInv, TypeOK
    <3>2. 1 \in 1 .. Len(queue) /\ Head(queue) = queue[1]
      BY <3>1
    <3>3. Head(queue).kind # "Spawn"
      BY <1>0, <3>2 DEF IInv, QueueInv, SpawnIsLast
    <3>4. exitMsg' = exitMsg /\ exitRx' = exitRx /\ killRx' = killRx
      BY <2>3, <3>3 DEF DrainQueue
    <3> QED
      BY <1>2, <1>3, <3>4
  <2>4. CASE SpawnPending \/ TickSpawnResult \/ TryExecuteApiLoad \/ TryExecuteApiUnload
             \/ NoKey \/ Exit
    BY <1>2, <1>3, <2>4 DEF SpawnPending, TickSpawnResult, TryExecuteApiLoad, TryExecuteApiUnload, NoKey,
       KeyUnchanged, Exit
  <2>5. CASE ProcessPendingKill
    <3>1. exitRx = g /\ killRx' = g /\ exitMsg' = exitMsg /\ proc' = proc
      BY <1>0, <2>5 DEF ProcessPendingKill, KillerWaits
    <3> QED
      BY <3>1 DEF Dying
  <2>6. CASE FinishPendingKill
    BY <1>0, <2>6 DEF FinishPendingKill
  <2>7. CASE Key
    <3>1. ~QuitKey
      BY <1>0 DEF QuitKey
    <3> QED
      BY <1>2, <1>3, <2>7, <3>1 DEF Key, LoadKey, UnloadKey, ClearFailureKey, SelectKey, ConfirmYes,
         ConfirmNo, ConfirmReplaced, KillKey, KeyUnchanged
  <2>8. CASE UNCHANGED vars
    BY <1>2, <1>3, <2>8 DEF vars
  <2> QED
    BY <1>3, <2>1, <2>2, <2>3, <2>4, <2>5, <2>6, <2>7, <2>8 DEF Next, LoopStep
<1> QED
  BY <1>1, <1>3

\* Once the server dies whose handle the app has and whose exit it can learn of, the
\* loop cannot lose the notice: it goes when the handle does, by the exit tick or by
\* the kill that had taken the channel.  What CrashIsNoticed adds is that the tick
\* comes round.  (state_impl.rs:292, async_ops.rs:1854)
THEOREM NoticesAreKept == Spec => NoticeIsKept
<1> DEFINE Kept == \A g \in Server :
                       handle = g /\ handle' = g /\ g \in {exitRx, killRx} /\ Dying(g)
                           => g \in {exitRx', killRx'} /\ Dying(g)'
<1>1. Init => KillerWaits
  BY DEF Init, KillerWaits
<1>2. IInv /\ KillerWaits /\ [Next]_vars => KillerWaits' /\ Kept
  BY KillerStep, NoticeStep DEF IInv
<1>3. Spec => [][Kept]_vars
  BY <1>1, <1>2, IInvCorrect, PTL DEF Spec
<1> QED
  BY <1>3 DEF NoticeIsKept
=============================================================================
