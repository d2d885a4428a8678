-------------------------- MODULE MapUpdate_proofs --------------------------
(***************************************************************************)
(* Proofs about MapUpdate, for any number of maps and players: far         *)
(* teleports are executed only while no map thread is at work, and those   *)
(* that wait are known to their players and resolved when the update ends. *)
(*                                                                         *)
(* The invariant says in which parts of MapManager::Update a thread can be *)
(* at work: an instance only between SubmitInstances and f.wait(), a       *)
(* continent from the start of its pool to continents.wait().              *)
(***************************************************************************)
EXTENDS MapUpdate, FiniteSetTheorems, TLAPS

\* Who can be at work, and when.
WorkInv ==
    /\ asyncMapUpdating <=> pc # "world"
    /\ \A i \in Instances : task[i] \in {"idle", "done"} \/ (task[i] \in {"queued", "work"}
                                                             /\ i \in due /\ pc = "instances")
    /\ \A c \in Continents : task[c] \in {"idle", "done"} \/ (c \in due /\ pc # "world")

MapInv == TypeOK /\ WorkInv /\ TeleportsPending

\* When MapManager::Update does not run, no thread of a map does.
LEMMA NobodyAtWork ==
    ASSUME MapInv, pc = "world" \/ \A c \in due \intersect Continents : task[c] = "done",
           pc \in {"world", "continents"}
    PROVE  \A m \in Maps : task[m] \in {"idle", "done"}
<1> USE DEF MapInv
<1>1. \A i \in Instances : task[i] \in {"idle", "done"}
  <2> SUFFICES ASSUME NEW i \in Instances PROVE task[i] \in {"idle", "done"}
    OBVIOUS
  <2>1. pc # "instances"
    OBVIOUS
  <2> QED BY <2>1 DEF WorkInv
<1>2. \A c \in Continents : task[c] \in {"idle", "done"}
  <2> SUFFICES ASSUME NEW c \in Continents PROVE task[c] \in {"idle", "done"}
    OBVIOUS
  <2>1. CASE pc = "world"
    BY <2>1 DEF WorkInv
  <2>2. CASE \A k \in due \intersect Continents : task[k] = "done"
    BY <2>2 DEF WorkInv
  <2> QED BY <2>1, <2>2
<1> QED BY <1>1, <1>2 DEF Maps

\* The beginning: nobody is in memory and nothing at work.
LEMMA InitMapInv == Init => MapInv
<1> SUFFICES ASSUME Init PROVE MapInv
  OBVIOUS
<1>1. TypeOK
  <2>1. place \in [Players -> Maps \union {Far, Nowhere}]
    BY DEF Init
  <2>2. /\ farTeleports \in [Players -> Maps \union {NoMap}]
        /\ switches \in [Players -> Continents \union {NoMap}]
    BY DEF Init
  <2>3. task \in [Maps -> {"idle", "queued", "work", "wait", "rest", "done"}]
    BY DEF Init
  <2>4. asyncMapUpdating \in BOOLEAN
    BY Zenon DEF Init
  <2>5. /\ pc \in {"world", "switch", "submit", "instances", "decide", "continents"}
        /\ due \subseteq Maps /\ pending \subseteq Players /\ visited \subseteq Players
    BY DEF Init
  <2>6. {threads, finished} \subseteq Nat
    BY DEF Init
  <2> QED BY <2>1, <2>2, <2>3, <2>4, <2>5, <2>6, Zenon DEF TypeOK
<1>2. WorkInv
  BY DEF Init, WorkInv, Maps
<1>3. TeleportsPending
  BY DEF Init, TeleportsPending
<1> QED BY <1>1, <1>2, <1>3 DEF MapInv

\* What ExecuteDelayedPlayerTeleports leaves: nobody waits.
LEMMA ExecuteDelayed ==
    ASSUME MapInv, NEW refused \in SUBSET Players, ExecuteDelayedPlayerTeleports(refused)
    PROVE  /\ place' \in [Players -> Maps \union {Far, Nowhere}]
           /\ farTeleports' \in [Players -> Maps \union {NoMap}]
           /\ pending' = {}
           /\ \A p \in Players : farTeleports'[p] = NoMap
BY DEF ExecuteDelayedPlayerTeleports, MapInv, TypeOK, TeleportsPending

\* MapManager::Update begins and ends with nobody at work.
LEMMA NextUpdate ==
    ASSUME MapInv, EndUpdate \/ \E D \in SUBSET Maps : BeginUpdate(D)
    PROVE  MapInv'
<1> USE DEF MapInv
<1>1. /\ place' \in [Players -> Maps \union {Far, Nowhere}]
      /\ farTeleports' \in [Players -> Maps \union {NoMap}]
      /\ pending' = {}
      /\ \A p \in Players : farTeleports'[p] = NoMap
  BY ExecuteDelayed DEF EndUpdate, BeginUpdate
<1>2. CASE EndUpdate
  <2>1. \A m \in Maps : task[m] \in {"idle", "done"}
    BY <1>2, NobodyAtWork DEF EndUpdate
  <2>2. TypeOK'
    BY <1>1, <1>2 DEF EndUpdate, TypeOK
  <2>3. WorkInv'
    BY <1>2, <2>1 DEF EndUpdate, WorkInv, Maps
  <2> QED BY <1>1, <2>2, <2>3 DEF TeleportsPending
<1>3. CASE \E D \in SUBSET Maps : BeginUpdate(D)
  <2>1. PICK D \in SUBSET Maps : BeginUpdate(D)
    BY <1>3
  <2>2. task' = [m \in Maps |-> IF m \in D \intersect Continents THEN "queued" ELSE "idle"]
        /\ pc' = "switch" /\ asyncMapUpdating' = TRUE /\ due' = D
    BY <2>1 DEF BeginUpdate
  <2>3. TypeOK'
    <3>1. Cardinality(D \intersect Continents) \in Nat
      BY MapsAssumption, FS_Intersection, FS_CardinalityType
    <3> QED BY <1>1, <2>1, <2>2, <3>1 DEF BeginUpdate, TypeOK
  <2>4. WorkInv'
    BY <2>2, MapsAssumption DEF WorkInv, Maps
  <2> QED BY <1>1, <2>2, <2>3, <2>4 DEF TeleportsPending
<1> QED BY <1>2, <1>3

\* The other steps of the world thread.
LEMMA NextWorld ==
    ASSUME MapInv,
           \/ \E p \in Players : SwitchInstance(p)
           \/ AllSwitched \/ SubmitInstances \/ InstancesUpdated \/ Decide
    PROVE  MapInv'
<1> USE DEF MapInv
<1>1. CASE \E p \in Players : SwitchInstance(p)
  <2>1. PICK p \in Players : SwitchInstance(p)
    BY <1>1
  <2>2. TypeOK'
    BY <2>1 DEF SwitchInstance, TypeOK, updateVars, scheduleVars, Maps
  <2>3. WorkInv'
    BY <2>1 DEF SwitchInstance, WorkInv, updateVars, scheduleVars
  <2>4. TeleportsPending'
    <3>1. switches[p] \in Continents
      BY <2>1 DEF SwitchInstance, TypeOK
    <3> QED BY <2>1, <3>1 DEF SwitchInstance, TeleportsPending, TypeOK, updateVars, scheduleVars, Maps
  <2> QED BY <2>2, <2>3, <2>4
<1>2. CASE AllSwitched
  BY <1>2 DEF AllSwitched, TypeOK, WorkInv, TeleportsPending
<1>3. CASE SubmitInstances
  <2>1. TypeOK'
    BY <1>3 DEF SubmitInstances, TypeOK, scheduleVars
  <2>2. TeleportsPending'
    BY <1>3 DEF SubmitInstances, TeleportsPending, scheduleVars
  <2>3. WorkInv'
    BY <1>3, MapsAssumption DEF SubmitInstances, WorkInv, TypeOK, Maps
  <2> QED BY <2>1, <2>2, <2>3
<1>4. CASE InstancesUpdated
  <2>1. TypeOK' /\ TeleportsPending'
    BY <1>4 DEF InstancesUpdated, TypeOK, TeleportsPending, scheduleVars
  <2>2. WorkInv'
    BY <1>4 DEF InstancesUpdated, WorkInv
  <2> QED BY <2>1, <2>2
<1>5. CASE Decide
  BY <1>5 DEF Decide, TypeOK, WorkInv, TeleportsPending, scheduleVars
<1> QED BY <1>1, <1>2, <1>3, <1>4, <1>5

\* A thread of a map goes on: nothing but its place in the update changes.
LEMMA NextMap ==
    ASSUME MapInv,
           \/ \E c \in Continents : ContinentStep(c)
           \/ \E i \in Instances : InstanceStep(i)
    PROVE  MapInv'
<1> USE DEF MapInv
<1>1. CASE \E c \in Continents : ContinentStep(c)
  <2>1. PICK c \in Continents : ContinentStep(c)
    BY <1>1
  <2>2. PICK from \in {"queued", "work", "wait", "rest"}, to \in {"work", "wait", "rest", "done"} :
           Goes(c, from, to)
    BY <2>1 DEF ContinentStep, StartContinent, MarkContinentUpdateFinished, LeaveBarrier, EndContinent
  <2>3. finished' \in Nat
    BY <2>1 DEF ContinentStep, StartContinent, MarkContinentUpdateFinished, LeaveBarrier, EndContinent,
                TypeOK
  <2>4. TypeOK'
    BY <2>2, <2>3 DEF Goes, TypeOK, scheduleVars
  <2>5. WorkInv'
    <3>1. c \in due /\ pc # "world"
      BY <2>2 DEF Goes, WorkInv
    <3>2. \A m \in Maps \ {c} : task'[m] = task[m]
      BY <2>2 DEF Goes, TypeOK
    <3>3. task'[c] = to
      BY <2>2 DEF Goes, TypeOK, Maps
    <3> QED BY <2>2, <3>1, <3>2, <3>3, MapsAssumption DEF Goes, WorkInv, Maps
  <2> QED BY <2>2, <2>4, <2>5 DEF Goes, TeleportsPending, scheduleVars
<1>2. CASE \E i \in Instances : InstanceStep(i)
  <2>1. PICK i \in Instances : InstanceStep(i)
    BY <1>2
  <2>2. PICK from \in {"queued", "work"}, to \in {"work", "done"} :
           Goes(i, from, to) /\ finished' = finished
    BY <2>1 DEF InstanceStep, StartInstance, EndInstance
  <2>3. TypeOK'
    BY <2>2 DEF Goes, TypeOK, scheduleVars
  <2>4. WorkInv'
    <3>1. pc = "instances" /\ i \in due
      BY <2>2 DEF Goes, WorkInv
    <3>2. \A m \in Maps \ {i} : task'[m] = task[m]
      BY <2>2 DEF Goes, TypeOK
    <3>3. task'[i] = to
      BY <2>2 DEF Goes, TypeOK, Maps
    <3> QED BY <2>2, <3>1, <3>2, <3>3, MapsAssumption DEF Goes, WorkInv, Maps
  <2> QED BY <2>2, <2>3, <2>4 DEF Goes, TeleportsPending, scheduleVars
<1> QED BY <1>1, <1>2

\* A player does something: who asks for a far teleport waits exactly while
\* MapManager::Update runs.
LEMMA NextPlayer ==
    ASSUME MapInv, NEW p \in Players, PlayerStep(p)
    PROVE  MapInv'
<1> USE DEF MapInv
<1>1. CASE \E m \in Maps : TeleportTo(p, m)
  <2>1. PICK m \in Maps : TeleportTo(p, m)
    BY <1>1
  <2>2. place[p] \in Maps
    BY <2>1 DEF TeleportTo, Running
  <2>3. m # NoMap
    BY PlacesAssumption
  <2>4. CASE asyncMapUpdating
    <3>1. TypeOK' /\ WorkInv'
      BY <2>1, <2>4 DEF TeleportTo, TypeOK, WorkInv, updateVars
    <3>2. TeleportsPending'
      <4>1. pc' # "world"
        BY <2>1, <2>4 DEF TeleportTo, WorkInv, updateVars
      <4> QED BY <2>1, <2>2, <2>3, <2>4, <4>1 DEF TeleportTo, TypeOK, TeleportsPending
    <3> QED BY <3>1, <3>2
  <2>5. CASE ~asyncMapUpdating
    <3>1. TypeOK' /\ WorkInv'
      BY <2>1, <2>5 DEF TeleportTo, TypeOK, WorkInv, updateVars
    <3>2. pending = {}
      BY <2>5 DEF WorkInv, TeleportsPending
    <3>3. TeleportsPending'
      BY <2>1, <2>5, <3>2 DEF TeleportTo, TeleportsPending, updateVars
    <3> QED BY <3>1, <3>3
  <2> QED BY <2>4, <2>5
<1>2. CASE \E m \in Maps : EnterMap(p, m)
  <2>1. PICK m \in Maps : EnterMap(p, m)
    BY <1>2
  <2>2. TypeOK' /\ WorkInv'
    BY <2>1 DEF EnterMap, TypeOK, WorkInv, updateVars, scheduleVars
  <2>3. TeleportsPending'
    BY <2>1 DEF EnterMap, TeleportsPending, updateVars, scheduleVars
  <2> QED BY <2>2, <2>3
<1>3. CASE \E c \in Continents : ScheduleInstanceSwitch(p, c)
  BY <1>3 DEF ScheduleInstanceSwitch, TypeOK, WorkInv, TeleportsPending, updateVars
<1>4. CASE LogoutPlayer(p)
  <2>1. TypeOK' /\ WorkInv'
    BY <1>4 DEF LogoutPlayer, TypeOK, WorkInv, updateVars
  <2>2. TeleportsPending'
    BY <1>4 DEF LogoutPlayer, TypeOK, TeleportsPending, updateVars
  <2> QED BY <2>1, <2>2
<1> QED BY <1>1, <1>2, <1>3, <1>4 DEF PlayerStep

\* The invariant is inductive.
LEMMA NextMapInv ==
    ASSUME MapInv, [Next]_vars
    PROVE  MapInv'
<1>1. CASE UNCHANGED vars
  BY <1>1 DEF vars, MapInv, TypeOK, WorkInv, TeleportsPending
<1>2. CASE Next
  BY <1>2, NextUpdate, NextWorld, NextMap, NextPlayer DEF Next, WorldStep
<1> QED BY <1>1, <1>2

\* MapManager::Update: which threads can be at work at which place of it, and
\* who waits for a far teleport.
THEOREM MapInvariant == Spec => []MapInv
<1>1. Init => MapInv
  BY InitMapInv
<1>2. MapInv /\ [Next]_vars => MapInv'
  BY NextMapInv
<1> QED BY <1>1, <1>2, PTL DEF Spec

\* m_scheduledFarTeleports and the players' mPendingFarTeleport always agree,
\* and neither outlives the update or the player.
THEOREM TeleportsAlwaysPending == Spec => []TeleportsPending
<1>1. MapInv => TeleportsPending
  BY DEF MapInv
<1> QED BY <1>1, MapInvariant, PTL

\* Where players leave for another map, no thread of a map is at work.
LEMMA QuietTeleport ==
    ASSUME MapInv, Next, NEW p \in Players, place[p] # Far, place'[p] = Far
    PROVE  Running = {} /\ Running' = {}
<1> USE DEF MapInv
<1>1. Far \notin Maps /\ Far # Nowhere
  BY PlacesAssumption DEF Far, Nowhere
<1>2. CASE EndUpdate
  <2>1. \A m \in Maps : task[m] \in {"idle", "done"}
    BY <1>2, NobodyAtWork DEF EndUpdate
  <2>2. task' = task
    BY <1>2 DEF EndUpdate
  <2> QED BY <2>1, <2>2 DEF Running
<1>3. CASE \E D \in SUBSET Maps : BeginUpdate(D)
  <2>1. PICK D \in SUBSET Maps : BeginUpdate(D)
    BY <1>3
  <2>2. \A m \in Maps : task[m] \in {"idle", "done"}
    BY <2>1, NobodyAtWork DEF BeginUpdate
  <2>3. \A m \in Maps : task'[m] \in {"queued", "idle"}
    BY <2>1 DEF BeginUpdate
  <2> QED BY <2>2, <2>3 DEF Running
<1>4. CASE \E q \in Players : SwitchInstance(q)
  <2>1. PICK q \in Players : SwitchInstance(q)
    BY <1>4
  <2>2. switches[q] \in Continents
    BY <2>1 DEF SwitchInstance, TypeOK
  <2>3. place'[p] = place[p] \/ place'[p] \in Continents
    BY <2>1, <2>2 DEF SwitchInstance, TypeOK
  <2> QED BY <1>1, <2>3 DEF Maps
<1>5. CASE AllSwitched \/ SubmitInstances \/ InstancesUpdated \/ Decide
  BY <1>5 DEF AllSwitched, SubmitInstances, InstancesUpdated, Decide
<1>6. CASE \E c \in Continents : ContinentStep(c)
  BY <1>6 DEF ContinentStep, StartContinent, MarkContinentUpdateFinished, LeaveBarrier, EndContinent, Goes
<1>7. CASE \E i \in Instances : InstanceStep(i)
  BY <1>7 DEF InstanceStep, StartInstance, EndInstance, Goes
<1>8. CASE \E q \in Players : PlayerStep(q)
  <2>1. PICK q \in Players : PlayerStep(q)
    BY <1>8
  <2>2. CASE \E m \in Maps : TeleportTo(q, m)
    <3>1. PICK m \in Maps : TeleportTo(q, m)
      BY <2>2
    <3>2. ~asyncMapUpdating
      BY <3>1 DEF TeleportTo
    <3>3. pc = "world"
      BY <3>2 DEF WorkInv
    <3>4. \A k \in Maps : task[k] \in {"idle", "done"}
      BY <3>3, NobodyAtWork
    <3>5. task' = task
      BY <3>1 DEF TeleportTo, updateVars
    <3> QED BY <3>4, <3>5 DEF Running
  <2>3. CASE \E m \in Maps : EnterMap(q, m)
    BY <1>1, <2>3 DEF EnterMap, TypeOK
  <2>4. CASE \E c \in Continents : ScheduleInstanceSwitch(q, c)
    BY <2>4 DEF ScheduleInstanceSwitch
  <2>5. CASE LogoutPlayer(q)
    BY <1>1, <2>5 DEF LogoutPlayer, TypeOK
  <2> QED BY <2>1, <2>2, <2>3, <2>4, <2>5 DEF PlayerStep
<1> QED BY <1>2, <1>3, <1>4, <1>5, <1>6, <1>7, <1>8 DEF Next, WorldStep

\* "Execute far teleports after all map updates have finished"
\* (MapManager::Update): a far teleport is never executed while the thread of
\* any map is at work.
THEOREM TeleportsOutsideUpdates == Spec => NoTeleportMidUpdate
<1>1. MapInv /\ [Next]_vars =>
        [\A p \in Players : place[p] # Far /\ place'[p] = Far => Running = {} /\ Running' = {}]_vars
  <2> SUFFICES ASSUME MapInv, Next, NEW p \in Players, place[p] # Far, place'[p] = Far
               PROVE  Running = {} /\ Running' = {}
    OBVIOUS
  <2> QED BY QuietTeleport
<1> QED BY <1>1, MapInvariant, PTL DEF Spec, NoTeleportMidUpdate

-----------------------------------------------------------------------------
\* i_continentUpdateFinished counts the continents that have called
\* MarkContinentUpdateFinished, and before all of them have nobody goes on.
BarrierInv == finished = Cardinality(Marked) /\ BarrierHolds

\* The steps of the continents' threads.
LEMMA NextBarrierContinent ==
    ASSUME MapInv, BarrierInv, NEW c \in Continents, ContinentStep(c)
    PROVE  BarrierInv'
<1> USE DEF MapInv
<1> DEFINE D == due \intersect Continents
<1>1. c \in D /\ due' = due /\ c \in Maps
  <2>1. task[c] \in {"queued", "work", "wait", "rest"} /\ due' = due
    BY DEF ContinentStep, StartContinent, MarkContinentUpdateFinished, LeaveBarrier, EndContinent, Goes
  <2> QED BY <2>1 DEF WorkInv, Maps
<1>2. IsFiniteSet(D) /\ IsFiniteSet(Marked) /\ Marked \subseteq D
  <2>1. IsFiniteSet(D)
    BY MapsAssumption, FS_Intersection
  <2>2. Marked \in SUBSET D
    BY DEF Marked
  <2> QED BY <2>1, <2>2, FS_Subset
<1>3. CASE StartContinent(c)
  <2>1. task[c] = "queued" /\ task' = [task EXCEPT ![c] = "work"] /\ finished' = finished
    BY <1>3 DEF StartContinent, Goes
  <2>2. Marked' = Marked
    BY <1>1, <2>1 DEF Marked, TypeOK
  <2> QED BY <1>1, <2>1, <2>2 DEF BarrierInv, BarrierHolds, TypeOK
<1>4. CASE MarkContinentUpdateFinished(c)
  <2>1. task[c] = "work" /\ task' = [task EXCEPT ![c] = "wait"] /\ finished' = finished + 1
    BY <1>4 DEF MarkContinentUpdateFinished, Goes
  <2>2. Marked' = Marked \union {c} /\ c \notin Marked
    BY <1>1, <2>1 DEF Marked, TypeOK
  <2>3. Cardinality(Marked') = Cardinality(Marked) + 1
    BY <1>2, <2>2, FS_AddElement
  <2>4. \A k \in D : task[k] \notin {"rest", "done"}
    BY <1>1, <2>2 DEF BarrierInv, BarrierHolds
  <2>5. \A k \in D : task'[k] \notin {"rest", "done"}
    BY <2>1, <2>4 DEF TypeOK
  <2> QED BY <1>1, <2>1, <2>3, <2>5 DEF BarrierInv, BarrierHolds
<1>5. CASE LeaveBarrier(c)
  <2>1. /\ task[c] = "wait" /\ task' = [task EXCEPT ![c] = "rest"] /\ finished' = finished
        /\ finished = Cardinality(D)
    BY <1>5 DEF LeaveBarrier, Goes, IsContinentUpdateFinished, maxContinentThread
  <2>2. Marked' = Marked
    BY <1>1, <2>1 DEF Marked, TypeOK
  <2>3. Marked = D
    BY <1>2, <2>1, FS_Subset DEF BarrierInv
  <2> QED BY <1>1, <2>1, <2>2, <2>3 DEF BarrierInv, BarrierHolds
<1>6. CASE EndContinent(c)
  <2>1. task[c] = "rest" /\ task' = [task EXCEPT ![c] = "done"] /\ finished' = finished
    BY <1>6 DEF EndContinent, Goes
  <2>2. Marked' = Marked
    BY <1>1, <2>1 DEF Marked, TypeOK
  <2>3. Marked = D
    BY <1>1, <2>1 DEF BarrierInv, BarrierHolds
  <2> QED BY <1>1, <2>1, <2>2, <2>3 DEF BarrierInv, BarrierHolds
<1> QED BY <1>3, <1>4, <1>5, <1>6 DEF ContinentStep

\* No other step touches the continents' threads during an update.
LEMMA NextBarrier ==
    ASSUME MapInv, BarrierInv, [Next]_vars
    PROVE  BarrierInv'
<1> USE DEF MapInv
<1>1. CASE \E c \in Continents : ContinentStep(c)
  BY <1>1, NextBarrierContinent
<1>2. CASE \E D \in SUBSET Maps : BeginUpdate(D)
  <2>1. PICK D \in SUBSET Maps : BeginUpdate(D)
    BY <1>2
  <2>2. /\ finished' = 0 /\ due' = D
        /\ \A c \in D \intersect Continents : task'[c] = "queued"
    BY <2>1 DEF BeginUpdate, Maps
  <2>3. Marked' = {}
    BY <2>2 DEF Marked
  <2> QED BY <2>2, <2>3, FS_EmptySet DEF BarrierInv, BarrierHolds
<1>3. CASE /\ finished' = finished /\ due' = due
           /\ \A c \in Continents : task'[c] = task[c]
  BY <1>3 DEF BarrierInv, BarrierHolds, Marked
<1>4. CASE \/ UNCHANGED vars
           \/ \E p \in Players : SwitchInstance(p) \/ PlayerStep(p)
           \/ AllSwitched \/ InstancesUpdated \/ Decide \/ EndUpdate
  <2>1. finished' = finished /\ due' = due /\ task' = task
    BY <1>4 DEF vars, SwitchInstance, PlayerStep, TeleportTo, EnterMap, ScheduleInstanceSwitch,
                LogoutPlayer, AllSwitched, InstancesUpdated, Decide, EndUpdate, updateVars
  <2> QED BY <2>1, <1>3
<1>5. CASE SubmitInstances \/ \E i \in Instances : InstanceStep(i)
  <2>1. /\ finished' = finished /\ due' = due
        /\ \A c \in Continents : task'[c] = task[c]
    <3>1. CASE SubmitInstances
      BY <3>1, MapsAssumption DEF SubmitInstances, TypeOK, Maps
    <3>2. CASE \E i \in Instances : InstanceStep(i)
      BY <3>2, MapsAssumption DEF InstanceStep, StartInstance, EndInstance, Goes, TypeOK, Maps
    <3> QED BY <1>5, <3>1, <3>2
  <2> QED BY <2>1, <1>3
<1> QED BY <1>1, <1>2, <1>4, <1>5 DEF Next, WorldStep

\* The count of the barrier is right in every state of any maps.
LEMMA BarrierInvariant == Spec => []BarrierInv
<1>1. Init => BarrierInv
  <2> SUFFICES ASSUME Init PROVE BarrierInv
    OBVIOUS
  <2>1. Marked = {} /\ finished = 0 /\ due = {}
    BY DEF Init, Marked
  <2> QED BY <2>1, FS_EmptySet DEF BarrierInv, BarrierHolds
<1>2. MapInv /\ BarrierInv /\ [Next]_vars => BarrierInv'
  BY NextBarrier
<1> QED BY <1>1, <1>2, MapInvariant, PTL DEF Spec

\* No continent leaves the barrier before every one has come to it, however
\* many threads there are and however late they start.
THEOREM BarrierAlwaysHolds == Spec => []BarrierHolds
<1>1. BarrierInv => BarrierHolds
  BY DEF BarrierInv
<1> QED BY <1>1, BarrierInvariant, PTL

\* The pool has a thread for each continent of the update, and while the update
\* runs each continent of it has been queued or taken.
ThreadsInv ==
    /\ Cardinality(due \intersect Continents) <= threads
    /\ pc # "world" => \A c \in due \intersect Continents : task[c] # "idle"

\* The pool grows when there are more continents than it has threads.
LEMMA NextThreads ==
    ASSUME MapInv, ThreadsInv, [Next]_vars
    PROVE  ThreadsInv'
<1> USE DEF MapInv
<1>1. CASE \E D \in SUBSET Maps : BeginUpdate(D)
  <2>1. PICK D \in SUBSET Maps : BeginUpdate(D)
    BY <1>1
  <2>2. Cardinality(D \intersect Continents) \in Nat
    BY MapsAssumption, FS_Intersection, FS_CardinalityType
  <2>3. /\ due' = D /\ Cardinality(D \intersect Continents) <= threads'
        /\ \A c \in D \intersect Continents : task'[c] = "queued"
    BY <2>1, <2>2 DEF BeginUpdate, TypeOK, Maps
  <2> QED BY <2>3 DEF ThreadsInv
<1>2. CASE \E c \in Continents : ContinentStep(c)
  <2>1. PICK c \in Continents, from \in {"queued", "work", "wait", "rest"},
             to \in {"work", "wait", "rest", "done"} : Goes(c, from, to)
    BY <1>2 DEF ContinentStep, StartContinent, MarkContinentUpdateFinished, LeaveBarrier, EndContinent
  <2>2. \A k \in Continents : task'[k] = task[k] \/ task'[k] = to
    BY <2>1 DEF Goes, TypeOK, Maps
  <2>3. UNCHANGED <<due, threads, pc>>
    BY <2>1 DEF Goes
  <2> QED BY <2>2, <2>3 DEF ThreadsInv
<1>3. CASE /\ threads' = threads /\ due' = due /\ (pc' # "world" => pc # "world")
           /\ \A c \in Continents : task'[c] = task[c]
  BY <1>3 DEF ThreadsInv
<1>4. CASE \/ UNCHANGED vars
           \/ \E p \in Players : SwitchInstance(p) \/ PlayerStep(p)
           \/ AllSwitched \/ InstancesUpdated \/ Decide \/ EndUpdate
  <2>1. threads' = threads /\ due' = due /\ task' = task /\ (pc' # "world" => pc # "world")
    BY <1>4 DEF vars, SwitchInstance, PlayerStep, TeleportTo, EnterMap, ScheduleInstanceSwitch,
                LogoutPlayer, AllSwitched, InstancesUpdated, Decide, EndUpdate, updateVars
  <2> QED BY <2>1, <1>3
<1>5. CASE SubmitInstances \/ \E i \in Instances : InstanceStep(i)
  <2>1. /\ threads' = threads /\ due' = due /\ (pc' # "world" => pc # "world")
        /\ \A c \in Continents : task'[c] = task[c]
    <3>1. CASE SubmitInstances
      BY <3>1, MapsAssumption DEF SubmitInstances, TypeOK, Maps
    <3>2. CASE \E i \in Instances : InstanceStep(i)
      BY <3>2, MapsAssumption DEF InstanceStep, StartInstance, EndInstance, Goes, TypeOK, Maps
    <3> QED BY <1>5, <3>1, <3>2
  <2> QED BY <2>1, <1>3
<1> QED BY <1>1, <1>2, <1>4, <1>5 DEF Next, WorldStep

\* Whoever has not come to the barrier is at work, or is queued and finds a thread:
\* the threads that are taken belong to other continents of this update.
LEMMA SomebodyComes ==
    ASSUME MapInv, BarrierInv, ThreadsInv, NEW c \in Continents, task[c] = "wait"
    PROVE  \/ IsContinentUpdateFinished
           \/ \E d \in due \intersect Continents :
                 \/ task[d] = "work"
                 \/ task[d] = "queued" /\ Cardinality(Running \intersect Continents) < threads
<1> DEFINE D == due \intersect Continents
           R == Running \intersect Continents
<1>1. pc # "world"
  BY DEF MapInv, WorkInv
<1>2. CASE Marked = D
  BY <1>2 DEF BarrierInv, IsContinentUpdateFinished, maxContinentThread
<1>3. CASE Marked # D
  <2>1. PICK d \in D : task[d] \notin {"wait", "rest", "done"}
    BY <1>3 DEF Marked
  <2>2. task[d] \in {"queued", "work"}
    BY <1>1, <2>1 DEF ThreadsInv, MapInv, TypeOK, Maps
  <2>3. CASE task[d] = "work"
    BY <2>3
  <2>4. CASE task[d] = "queued"
    <3>1. R \subseteq D \ {d}
      BY <2>4 DEF Running, MapInv, WorkInv
    <3>2. IsFiniteSet(D)
      BY MapsAssumption, FS_Intersection
    <3>3. IsFiniteSet(D \ {d}) /\ Cardinality(D \ {d}) = Cardinality(D) - 1
      BY <3>2, FS_RemoveElement
    <3>4. Cardinality(R) <= Cardinality(D) - 1 /\ Cardinality(R) \in Nat
      BY <3>1, <3>3, FS_Subset, FS_CardinalityType
    <3>5. Cardinality(D) \in Nat /\ Cardinality(D) <= threads /\ threads \in Nat
      BY <3>2, FS_CardinalityType DEF ThreadsInv, MapInv, TypeOK
    <3>6. Cardinality(R) < threads
      BY <3>4, <3>5
    <3> QED BY <2>4, <3>6
  <2> QED BY <2>2, <2>3, <2>4
<1> QED BY <1>2, <1>3

\* Nobody waits at the barrier for a continent that will never come to it: another
\* one is at work, or is queued and has a thread to take it.
THEOREM BarrierAlwaysOpens == Spec => []BarrierOpens
<1>1. Init => ThreadsInv
  <2> SUFFICES ASSUME Init PROVE ThreadsInv
    OBVIOUS
  <2>1. due \intersect Continents = {} /\ threads = 0 /\ pc = "world"
    BY DEF Init
  <2> QED BY <2>1, FS_EmptySet DEF ThreadsInv
<1>2. MapInv /\ ThreadsInv /\ [Next]_vars => ThreadsInv'
  BY NextThreads
<1>3. MapInv /\ BarrierInv /\ ThreadsInv => BarrierOpens
  BY SomebodyComes DEF BarrierOpens
<1> QED BY <1>1, <1>2, <1>3, BarrierInvariant, MapInvariant, PTL DEF Spec
=============================================================================
