----------------------------- MODULE MapUpdate -----------------------------
(***************************************************************************)
(* MapManager::Update: the world thread hands the maps to two thread       *)
(* pools.  Each continent map has a thread of its own, which waits at the  *)
(* end of its update until all continents have come so far; the instances  *)
(* are updated by other threads, again and again until then.  Whoever is   *)
(* teleported to another map meanwhile waits in m_scheduledFarTeleports    *)
(* until all threads are done; who walks into another part of a continent  *)
(* waits in m_scheduledInstanceSwitches.                                   *)
(*                                                                         *)
(* The continent maps are parts of one continent (Continents.Instanciate). *)
(* What a map update does besides is left out, as is the removal of maps.  *)
(***************************************************************************)
EXTENDS Integers, FiniteSets

CONSTANTS Continents, Instances, Players

ASSUME MapsAssumption ==
    /\ IsFiniteSet(Continents) /\ IsFiniteSet(Instances)
    /\ Continents \intersect Instances = {}

VARIABLES
    pc,                 \* where the world thread is
    asyncMapUpdating,
    due,                \* the maps of this update
    task,               \* how far the thread of each map is
    threads,            \* size of m_continentThreads
    finished,           \* i_continentUpdateFinished
    place,              \* where each player is
    pending,            \* players with mPendingFarTeleport
    farTeleports,       \* m_scheduledFarTeleports: where each player is to go
    switches,           \* m_scheduledInstanceSwitches
    visited             \* players that SwitchPlayersInstances has come to

vars == <<pc, asyncMapUpdating, due, task, threads, finished, place, pending, farTeleports,
          switches, visited>>

updateVars   == <<pc, asyncMapUpdating, due, task, threads, finished>>
scheduleVars == <<pending, farTeleports, switches>>

Maps == Continents \union Instances

\* Between two maps, and not in memory.
Far == "far"
Nowhere == "nowhere"
NoMap == "no map"

ASSUME PlacesAssumption == {Far, Nowhere, NoMap} \intersect Maps = {}

\* A map thread is at work: before the end of its continent, waiting for the
\* other continents, or after.
Running == {m \in Maps : task[m] \in {"work", "wait", "rest"}}

\* The continents whose thread has called MarkContinentUpdateFinished.
Marked == {c \in due \intersect Continents : task[c] \in {"wait", "rest", "done"}}

\* i_maxContinentThread.
maxContinentThread == Cardinality(due \intersect Continents)

IsContinentUpdateFinished == finished = maxContinentThread

-----------------------------------------------------------------------------
\* A plausible slip: the flag of a player whose teleport fails stays set.
ExecuteDelayedPlayerTeleports_keeps_flag(refused) ==
    LET leave == {p \in Players : farTeleports[p] # NoMap} \ refused IN
    /\ place' = [p \in Players |-> IF p \in leave THEN Far ELSE place[p]]
    /\ farTeleports' = [p \in Players |-> NoMap]
    /\ pending' = pending \ leave

\* ExecuteDelayedPlayerTeleports: who may not enter the other map stays.
ExecuteDelayedPlayerTeleports(refused) ==
    LET leave == {p \in Players : farTeleports[p] # NoMap} \ refused IN
    /\ place' = [p \in Players |-> IF p \in leave THEN Far ELSE place[p]]
    /\ farTeleports' = [p \in Players |-> NoMap]
    /\ pending' = pending \ {p \in Players : farTeleports[p] # NoMap}

\* MapManager::Update begins, for the maps D: those with players, and others
\* that have not been empty for too long.  The threads of the continents
\* start; there are at least as many as continents.
BeginUpdate(D) ==
    /\ pc = "world"
    /\ {place[p] : p \in Players} \intersect Maps \subseteq D
    /\ \E refused \in SUBSET Players : ExecuteDelayedPlayerTeleports(refused)
    /\ asyncMapUpdating' = TRUE
    /\ due' = D
    /\ task' = [m \in Maps |-> IF m \in D \intersect Continents THEN "queued" ELSE "idle"]
    /\ finished' = 0
    /\ threads' = IF threads < Cardinality(D \intersect Continents)
                  THEN Cardinality(D \intersect Continents) ELSE threads
    /\ pc' = "switch"
    /\ visited' = {}
    /\ UNCHANGED switches

\* SwitchPlayersInstances comes to a player, on the world thread, while the
\* continents are updated: it is moved there and then.  The pointer to a
\* player that has logged out since is not removed from the map; what it
\* points to is taken for a player that is not in the world.
SwitchInstance(p) ==
    /\ pc = "switch"
    /\ switches[p] # NoMap
    /\ p \notin visited
    /\ place' = IF place[p] \in Continents THEN [place EXCEPT ![p] = switches[p]] ELSE place
    /\ visited' = visited \union {p}
    /\ UNCHANGED <<updateVars, scheduleVars>>

\* The end of SwitchPlayersInstances: what came behind the iterator is lost.
AllSwitched ==
    /\ pc = "switch"
    /\ switches' = [p \in Players |-> NoMap]
    /\ pc' = "submit"
    /\ UNCHANGED <<asyncMapUpdating, due, task, threads, finished, place, pending, farTeleports,
                   visited>>

\* A round of the instances begins; without instances there is no future to
\* wait for, and no round.
SubmitInstances ==
    /\ pc = "submit"
    /\ IF due \intersect Instances = {}
       THEN pc' = "continents" /\ UNCHANGED task
       ELSE /\ pc' = "instances"
            /\ task' = [m \in Maps |-> IF m \in due \intersect Instances THEN "queued" ELSE task[m]]
    /\ UNCHANGED <<asyncMapUpdating, due, threads, finished, place, scheduleVars, visited>>

\* f.wait(), which returns when all instances of the round are done: this is what
\* ThreadPool is shown to do (TaskBatch).
InstancesUpdated ==
    /\ pc = "instances"
    /\ \A i \in due \intersect Instances : task[i] = "done"
    /\ pc' = "decide"
    /\ UNCHANGED <<asyncMapUpdating, due, task, threads, finished, place, scheduleVars, visited>>

\* A plausible slip: the count is compared the wrong way.
Decide_more_than_all ==
    /\ pc = "decide"
    /\ pc' = IF finished > maxContinentThread THEN "continents" ELSE "submit"
    /\ UNCHANGED <<asyncMapUpdating, due, task, threads, finished, place, scheduleVars, visited>>

\* waitContinentUpdateFinishedUntil, with its time-out.
Decide ==
    /\ pc = "decide"
    /\ pc' = IF IsContinentUpdateFinished THEN "continents" ELSE "submit"
    /\ UNCHANGED <<asyncMapUpdating, due, task, threads, finished, place, scheduleVars, visited>>

\* A plausible slip: that all continents have marked themselves finished is
\* taken for the end of their threads.
EndUpdate_marked ==
    /\ pc = "continents"
    /\ IsContinentUpdateFinished
    /\ asyncMapUpdating' = FALSE
    /\ \E refused \in SUBSET Players : ExecuteDelayedPlayerTeleports(refused)
    /\ pc' = "world"
    /\ UNCHANGED <<due, task, threads, finished, switches, visited>>

\* continents.wait(), and the teleports that were scheduled meanwhile.
EndUpdate ==
    /\ pc = "continents"
    /\ \A c \in due \intersect Continents : task[c] = "done"
    /\ asyncMapUpdating' = FALSE
    /\ \E refused \in SUBSET Players : ExecuteDelayedPlayerTeleports(refused)
    /\ pc' = "world"
    /\ UNCHANGED <<due, task, threads, finished, switches, visited>>

-----------------------------------------------------------------------------
\* How the thread of map m goes on.
Goes(m, from, to) ==
    /\ task[m] = from
    /\ task' = [task EXCEPT ![m] = to]
    /\ UNCHANGED <<pc, asyncMapUpdating, due, threads, place, scheduleVars, visited>>

\* A thread of the pool takes the map.
StartContinent(c) ==
    /\ Cardinality(Running \intersect Continents) < threads
    /\ Goes(c, "queued", "work")
    /\ UNCHANGED finished

\* MarkContinentUpdateFinished.
MarkContinentUpdateFinished(c) ==
    /\ Goes(c, "work", "wait")
    /\ finished' = finished + 1

\* The loop around waitContinentUpdateFinishedUntil ends.
LeaveBarrier(c) ==
    /\ IsContinentUpdateFinished
    /\ Goes(c, "wait", "rest")
    /\ UNCHANGED finished

EndContinent(c) == Goes(c, "rest", "done") /\ UNCHANGED finished

StartInstance(i) == Goes(i, "queued", "work") /\ UNCHANGED finished

EndInstance(i) == Goes(i, "work", "done") /\ UNCHANGED finished

-----------------------------------------------------------------------------
\* TeleportTo another map, from the thread of the player's map or from the
\* world thread between two updates: ScheduleFarTeleport.  A later one
\* replaces the earlier one.
TeleportTo(p, m) ==
    /\ place[p] \in Running \/ (pc = "world" /\ place[p] \in Maps)
    /\ m # place[p]
    /\ IF asyncMapUpdating
       THEN /\ pending' = pending \union {p}
            /\ farTeleports' = [farTeleports EXCEPT ![p] = m]
            /\ UNCHANGED place
       ELSE /\ place' = [place EXCEPT ![p] = Far]
            /\ UNCHANGED <<pending, farTeleports>>
    /\ UNCHANGED <<updateVars, switches, visited>>

\* Player::Update finds the player in another part of the continent than its
\* map is for.
ScheduleInstanceSwitch(p, c) ==
    /\ place[p] \in Continents \ {c}
    /\ task[place[p]] \in {"work", "wait"}
    /\ p \notin pending
    /\ switches' = [switches EXCEPT ![p] = c]
    /\ UNCHANGED <<updateVars, place, pending, farTeleports, visited>>

-----------------------------------------------------------------------------
\* HandleMoveWorldportAckOpcode, and a log-in.
EnterMap(p, m) ==
    /\ pc = "world"
    /\ place[p] \in {Far, Nowhere}
    /\ place' = [place EXCEPT ![p] = m]
    /\ UNCHANGED <<updateVars, scheduleVars, visited>>

\* LogoutPlayer: no far teleport is left over (CancelDelayedPlayerTeleport),
\* but maybe a pointer in m_scheduledInstanceSwitches.
LogoutPlayer(p) ==
    /\ pc = "world"
    /\ place[p] # Nowhere
    /\ place' = [place EXCEPT ![p] = Nowhere]
    /\ farTeleports' = [farTeleports EXCEPT ![p] = NoMap]
    /\ pending' = pending \ {p}
    /\ UNCHANGED <<updateVars, switches, visited>>

-----------------------------------------------------------------------------
Init ==
    /\ pc = "world"
    /\ asyncMapUpdating = FALSE
    /\ due = {}
    /\ task = [m \in Maps |-> "idle"]
    /\ threads = 0
    /\ finished = 0
    /\ place = [p \in Players |-> Nowhere]
    /\ pending = {}
    /\ farTeleports = [p \in Players |-> NoMap]
    /\ switches = [p \in Players |-> NoMap]
    /\ visited = {}

WorldStep ==
    \/ \E D \in SUBSET Maps : BeginUpdate(D)
    \/ \E p \in Players : SwitchInstance(p)
    \/ AllSwitched \/ SubmitInstances \/ InstancesUpdated \/ Decide \/ EndUpdate

ContinentStep(c) ==
    StartContinent(c) \/ MarkContinentUpdateFinished(c) \/ LeaveBarrier(c) \/ EndContinent(c)

InstanceStep(i) == StartInstance(i) \/ EndInstance(i)

PlayerStep(p) ==
    \/ \E m \in Maps : TeleportTo(p, m) \/ EnterMap(p, m)
    \/ \E c \in Continents : ScheduleInstanceSwitch(p, c)
    \/ LogoutPlayer(p)

Next ==
    \/ WorldStep
    \/ \E c \in Continents : ContinentStep(c)
    \/ \E i \in Instances : InstanceStep(i)
    \/ \E p \in Players : PlayerStep(p)

Spec == Init /\ [][Next]_vars

\* Every thread goes on; players need not do anything.
FairSpec ==
    /\ Spec
    /\ WF_vars(WorldStep)
    /\ \A c \in Continents : WF_vars(ContinentStep(c))
    /\ \A i \in Instances : WF_vars(InstanceStep(i))

-----------------------------------------------------------------------------
\* The state has the types the code declares.
TypeOK ==
    /\ pc \in {"world", "switch", "submit", "instances", "decide", "continents"}
    /\ asyncMapUpdating \in BOOLEAN
    /\ due \subseteq Maps
    /\ task \in [Maps -> {"idle", "queued", "work", "wait", "rest", "done"}]
    /\ {threads, finished} \subseteq Nat
    /\ place \in [Players -> Maps \union {Far, Nowhere}]
    /\ pending \subseteq Players
    /\ farTeleports \in [Players -> Maps \union {NoMap}]
    /\ switches \in [Players -> Continents \union {NoMap}]
    /\ visited \subseteq Players

\* "Execute far teleports after all map updates have finished": nobody leaves
\* a map by a far teleport while the thread of any map is at work.
NoTeleportMidUpdate ==
    [][\A p \in Players : place[p] # Far /\ place'[p] = Far => Running = {} /\ Running' = {}]_vars

\* A player that waits in m_scheduledFarTeleports is in a map and knows it
\* (IsBeingTeleported), and nobody else believes it: a flag that stayed would
\* keep the player from every later switch and near teleport, a pointer that
\* stayed would outlive the player.  Between two updates nobody waits.
TeleportsPending ==
    /\ \A p \in Players : p \in pending <=> farTeleports[p] # NoMap
    /\ \A p \in pending : place[p] \in Maps
    /\ pc = "world" => pending = {}

\* The barrier at the end of the continents' updates: a continent goes on only
\* when every continent of this update has called MarkContinentUpdateFinished.
BarrierHolds ==
    \A c \in due \intersect Continents :
        task[c] \in {"rest", "done"} => Marked = due \intersect Continents

\* Nobody waits at the barrier for a continent that will never come to it: until
\* the last one has marked itself finished, another one is at work, or is queued
\* and has a thread to take it, although those that wait keep theirs.
BarrierOpens ==
    \A c \in Continents : task[c] = "wait" =>
        \/ IsContinentUpdateFinished
        \/ \E d \in due \intersect Continents :
              \/ task[d] = "work"
              \/ task[d] = "queued" /\ Cardinality(Running \intersect Continents) < threads

\* MapManager::Update returns: the continents do not wait for one another for
\* ever, and the world thread not for them.
UpdateReturns == (pc # "world") ~> (pc = "world")
=============================================================================
