-------------------------- MODULE BattleGroundQueue --------------------------
(***************************************************************************)
(* The queue of a battleground (BattleGroundMgr.cpp): players join it      *)
(* alone or as a group, a scheduled update invites groups to battlegrounds *)
(* with free places or opens a new one, and who is invited enters, leaves  *)
(* the queue, or is removed by a timed event of the player's own.          *)
(*                                                                         *)
(* One type and one bracket of battlegrounds; BattleGround.InvitationType  *)
(* is 0, the default of the code; the queue is not randomized; groups are  *)
(* smaller than PremadeQueue.MinGroupSize.  Groups are numbered in the     *)
(* order in which they join, which is their order in the queue.            *)
(* Timed events fire in the threads of the maps, and the code takes no     *)
(* lock there (they are commented out): two of them at once are left out.  *)
(*                                                                         *)
(* A player that logs out on the way to a battleground arrives first, and  *)
(* stays in m_Players; the end of that battleground then finds the player  *)
(* wherever the player is by then.                                         *)
(***************************************************************************)
EXTENDS Integers, Sequences, FiniteSets, SequencesExt

CONSTANTS
    Alliance, Horde,        \* the players of the teams
    MinPlayersPerTeam, MaxPlayersPerTeam,
    MaxJoins                \* bound: groups that join the queue

ASSUME TeamsAssumption ==
    /\ IsFiniteSet(Alliance) /\ IsFiniteSet(Horde)
    /\ Alliance \intersect Horde = {}
ASSUME SizesAssumption ==
    /\ {MinPlayersPerTeam, MaxPlayersPerTeam} \subseteq Nat \ {0}
    /\ MaxJoins \in Nat

VARIABLES
    phase,              \* "maps", or where BattleGroundQueue::Update is
    todo,               \* battlegrounds that Update has not filled yet
    scheduled,          \* the queue is in m_QueueUpdateScheduler
    joins,              \* groups that have joined the queue; the clock
    groupInfo,          \* m_QueuedPlayers: the group of each player
    offline,            \* players in m_QueuedPlayers that are not online
    invitedTo,          \* IsInvitedToBGInstanceGUID of each group
    removeInviteTime,   \* RemoveInviteTime of each group
    events,             \* the BGQueueRemoveEvents in m_Events of the players
    place,              \* the map of a battleground, the World, Far or Offline
    slot,               \* m_bgBattleGroundQueueID: not in the queue, or invited to
    bgInstanceID,       \* m_bgData.bgInstanceID
    status,             \* of each battleground
    invited,            \* m_InvitedAlliance, m_InvitedHorde
    members,            \* m_Players
    freeSlotQueue,      \* BGFreeSlotQueue
    untimed,            \* history: players that came back to an invitation
    struck,             \* history: players that lost a slot to another battleground's end
    offered             \* history: battlegrounds that an Update has tried to fill

vars == <<phase, todo, scheduled, joins, groupInfo, offline, invitedTo, removeInviteTime, events,
          place, slot, bgInstanceID, status, invited, members, freeSlotQueue, untimed, struck, offered>>

updateVars == <<phase, todo, offered>>
queueVars  == <<groupInfo, offline, invitedTo, removeInviteTime, untimed>>
bgVars     == <<status, freeSlotQueue>>

Players == Alliance \union Horde
Teams == {Alliance, Horde}
TeamOf(p) == IF p \in Alliance THEN Alliance ELSE Horde

\* Every battleground is opened for two groups at least.
Groups == 1 .. MaxJoins
BattleGrounds == 1 .. MaxJoins \div 2
NoGroup == 0
NoBattleGround == 0

\* The state of a slot of m_bgBattleGroundQueueID that is free.
NotQueued == -1

\* Where a player is, when not in the map of a battleground: in any other map,
\* between two maps, or not logged in.
World == 0
Far == -1
Offline == -2

InWorld(p) == place[p] \notin {Far, Offline}

Running == {b \in BattleGrounds : status[b] = "running"}

\* The players of a group, those who have not left it.
PlayersOf(g) == {p \in Players : groupInfo[p] = g}

Invited(p) == groupInfo[p] # NoGroup /\ invitedTo[groupInfo[p]] # NoBattleGround

\* The players of S that are invited to b.
InvitedAmong(S, b) == {p \in S : Invited(p) /\ invitedTo[groupInfo[p]] = b}

FreeSlotsForTeam(b, team) ==
    IF invited[b][team] < MaxPlayersPerTeam THEN MaxPlayersPerTeam - invited[b][team] ELSE 0

-----------------------------------------------------------------------------
\* The players S lose their entries; a group without players is deleted.
DropEntries(S) ==
    LET gone == {g \in Groups : PlayersOf(g) \subseteq S} IN
    /\ groupInfo' = [p \in Players |-> IF p \in S THEN NoGroup ELSE groupInfo[p]]
    /\ invitedTo' = [g \in Groups |-> IF g \in gone THEN NoBattleGround ELSE invitedTo[g]]
    /\ removeInviteTime' = [g \in Groups |-> IF g \in gone THEN 0 ELSE removeInviteTime[g]]
    /\ offline' = offline \ S
    /\ untimed' = untimed \ S

\* RemovePlayer(guid, true) for each of S, if it is in the queue.
RemovePlayers(S) ==
    /\ DropEntries(S)
    /\ invited' = [b \in BattleGrounds |-> [team \in Teams |->
            invited[b][team] - Cardinality(InvitedAmong(S \intersect team, b))]]

\* HandleBattlemasterJoinOpcode, alone or for a group: AddGroup.  Left out: who
\* has lost a slot by the end of another battleground, and still has an entry in
\* the queue or is in a battleground, joins again.
Join(S) ==
    /\ phase = "maps"
    /\ joins < MaxJoins
    /\ S # {} /\ \E team \in Teams : S \subseteq team
    /\ Cardinality(S) <= MaxPlayersPerTeam
    /\ \A p \in S :
          /\ place[p] = World /\ slot[p] = NotQueued
          /\ bgInstanceID[p] = NoBattleGround /\ groupInfo[p] = NoGroup
    /\ joins' = joins + 1
    /\ groupInfo' = [p \in Players |-> IF p \in S THEN joins' ELSE groupInfo[p]]
    /\ offline' = offline \ S
    /\ slot' = [p \in Players |-> IF p \in S THEN NoBattleGround ELSE slot[p]]
    /\ scheduled' = TRUE
    /\ UNCHANGED <<updateVars, invitedTo, removeInviteTime, events, place, bgInstanceID, bgVars,
                   invited, members, untimed, struck>>

\* HandleBattleFieldPortOpcode with action 0, and with action 1 when the
\* player is a deserter or has outgrown the battleground.
LeaveQueue(p) ==
    /\ phase = "maps"
    /\ InWorld(p)
    /\ slot[p] # NotQueued /\ groupInfo[p] # NoGroup
    /\ slot' = [slot EXCEPT ![p] = NotQueued]
    /\ RemovePlayers({p})
    /\ scheduled' = TRUE
    /\ UNCHANGED <<updateVars, joins, events, place, bgInstanceID, bgVars, members, struck>>

\* HandleBattleFieldPortOpcode with action 1: the player leaves the queue, and
\* counts as invited until it leaves the battleground.
EnterBattleGround(p) ==
    /\ phase = "maps"
    /\ InWorld(p)
    /\ Invited(p)
    /\ slot[p] \notin {NotQueued, NoBattleGround}
    /\ LET b == invitedTo[groupInfo[p]] IN
       /\ status[b] \in {"running", "leave"}
       /\ bgInstanceID' = [bgInstanceID EXCEPT ![p] = b]
    /\ DropEntries({p})
    /\ place' = [place EXCEPT ![p] = Far]
    /\ UNCHANGED <<updateVars, joins, scheduled, events, slot, bgVars, invited, members, struck>>

\* A plausible slip: RemoveInviteTime is not compared.
TimeOut_any_time(e) ==
    LET g == groupInfo[e.player] IN
    /\ phase = "maps"
    /\ e \in events
    /\ InWorld(e.player)
    /\ events' = events \ {e}
    /\ IF slot[e.player] # NotQueued /\ g # NoGroup /\ invitedTo[g] = e.bg
       THEN /\ slot' = [slot EXCEPT ![e.player] = NotQueued]
            /\ RemovePlayers({e.player})
            /\ scheduled' = (scheduled \/ status[e.bg] = "running")
       ELSE UNCHANGED <<slot, queueVars, invited, scheduled>>
    /\ UNCHANGED <<updateVars, joins, place, bgInstanceID, bgVars, members, struck>>

\* BGQueueRemoveEvent: the event ends the invitation that it was made for, if
\* the player still has it.  Events wait while the player is in no map.
TimeOut(e) ==
    LET g == groupInfo[e.player] IN
    /\ phase = "maps"
    /\ e \in events
    /\ InWorld(e.player)
    /\ events' = events \ {e}
    /\ IF /\ slot[e.player] # NotQueued
          /\ g # NoGroup
          /\ invitedTo[g] = e.bg
          /\ removeInviteTime[g] = e.time
       THEN /\ slot' = [slot EXCEPT ![e.player] = NotQueued]
            /\ RemovePlayers({e.player})
            /\ scheduled' = (scheduled \/ status[e.bg] = "running")
       ELSE UNCHANGED <<slot, queueVars, invited, scheduled>>
    /\ UNCHANGED <<updateVars, joins, place, bgInstanceID, bgVars, members, struck>>

-----------------------------------------------------------------------------
\* BattleGroundMgr::Update, on the world thread: those offline for more than
\* OFFLINE_BG_QUEUE_TIME lose their places in the queue.
BeginUpdate(removed) ==
    /\ phase = "maps"
    /\ scheduled
    /\ scheduled' = FALSE
    /\ removed \subseteq offline
    /\ RemovePlayers(removed)
    /\ IF \E p \in Players : groupInfo'[p] # NoGroup
       THEN phase' = "fill" /\ todo' = freeSlotQueue
       ELSE phase' = "maps" /\ todo' = <<>>
    /\ offered' = Running
    /\ UNCHANGED <<joins, events, place, slot, bgInstanceID, bgVars, members, struck>>

\* The uninvited groups of a team, and the players of some of them.
Uninvited(team) ==
    {g \in Groups : PlayersOf(g) # {} /\ PlayersOf(g) \subseteq team
                                     /\ invitedTo[g] = NoBattleGround}

PlayerCount(pool) == Cardinality({p \in Players : groupInfo[p] \in pool})

\* The groups that a team sends: SelectionPool::AddGroup for each in its turn,
\* until there are enough players; one that exceeds the desired count is passed
\* over.
Selected(team, enough, desired) ==
    LET pool[n \in 0 .. MaxJoins] ==
            IF n = 0 THEN {}
            ELSE IF /\ n \in Uninvited(team)
                    /\ PlayerCount(pool[n - 1]) < enough
                    /\ PlayerCount(pool[n - 1]) + Cardinality(PlayersOf(n)) <= desired
                 THEN pool[n - 1] \union {n}
                 ELSE pool[n - 1]
    IN  pool[MaxJoins]

\* A plausible slip: a player that is between two maps gets no event.
InviteGroupsToBG_in_world(pool, b) ==
    LET called == {p \in Players : groupInfo[p] \in pool} IN
    /\ invitedTo' = [g \in Groups |-> IF g \in pool THEN b ELSE invitedTo[g]]
    /\ removeInviteTime' = [g \in Groups |-> IF g \in pool THEN joins ELSE removeInviteTime[g]]
    /\ slot' = [p \in Players |-> IF p \in called /\ InWorld(p) /\ slot[p] # NotQueued THEN b
                                  ELSE slot[p]]
    /\ events' = events \union {[player |-> p, bg |-> b, time |-> joins, group |-> groupInfo[p]] :
                                   p \in {q \in called : InWorld(q)}}
    /\ invited' = [invited EXCEPT ![b] = [team \in Teams |->
            @[team] + Cardinality(called \intersect team)]]

\* InviteGroupToBG for the groups of pool: all their players count; those who
\* are online learn of it in the slot they have, and get an event.
InviteGroupsToBG(pool, b) ==
    LET called == {p \in Players : groupInfo[p] \in pool}
        online == {p \in called : place[p] # Offline} IN
    /\ invitedTo' = [g \in Groups |-> IF g \in pool THEN b ELSE invitedTo[g]]
    /\ removeInviteTime' = [g \in Groups |-> IF g \in pool THEN joins ELSE removeInviteTime[g]]
    /\ slot' = [p \in Players |-> IF p \in online /\ slot[p] # NotQueued THEN b ELSE slot[p]]
    /\ events' = events \union
            {[player |-> p, bg |-> b, time |-> joins, group |-> groupInfo[p]] : p \in online}
    /\ invited' = [invited EXCEPT ![b] = [team \in Teams |->
            @[team] + Cardinality(called \intersect team)]]

\* FillPlayersToBG; a battleground with as many players as it can have leaves
\* the queue of those with free slots.
FillPlayersToBG ==
    /\ phase = "fill"
    /\ todo # <<>>
    /\ LET b == Head(todo) IN
       /\ InviteGroupsToBG(UNION {Selected(team, MaxPlayersPerTeam, FreeSlotsForTeam(b, team)) :
                                      team \in Teams}, b)
       /\ freeSlotQueue' = IF Cardinality(members[b]) < 2 * MaxPlayersPerTeam THEN freeSlotQueue
                           ELSE RemoveFirst(freeSlotQueue, b)
    /\ todo' = Tail(todo)
    /\ UNCHANGED <<phase, scheduled, joins, groupInfo, offline, place, bgInstanceID, status,
                   members, untimed, struck, offered>>

\* CheckNormalMatch: there are enough players in both teams.
Opening(team) == Selected(team, MinPlayersPerTeam, MaxPlayersPerTeam)

CheckNormalMatch == \A team \in Teams : PlayerCount(Opening(team)) >= MinPlayersPerTeam

\* CreateNewBattleGround for a match, and StartBattleGround.
CreateNewBattleGround(b) ==
    /\ phase = "fill"
    /\ todo = <<>>
    /\ status[b] = "none" /\ \A other \in 1 .. b - 1 : status[other] # "none"
    /\ CheckNormalMatch
    /\ InviteGroupsToBG(UNION {Opening(team) : team \in Teams}, b)
    /\ status' = [status EXCEPT ![b] = "running"]
    /\ freeSlotQueue' = <<b>> \o freeSlotQueue
    /\ phase' = "maps"
    /\ UNCHANGED <<todo, scheduled, joins, groupInfo, offline, place, bgInstanceID, members,
                   untimed, struck, offered>>

NoMatch ==
    /\ phase = "fill"
    /\ todo = <<>>
    /\ ~CheckNormalMatch
    /\ phase' = "maps"
    /\ UNCHANGED <<todo, scheduled, joins, queueVars, events, place, slot, bgInstanceID, bgVars,
                   invited, members, struck, offered>>

-----------------------------------------------------------------------------
\* A plausible slip: the battleground that loses a player is not looked at.
PlacesFreed_no_update(S, b) ==
    LET participants == S \intersect members[b] IN
    /\ invited' = [invited EXCEPT ![b] = [team \in Teams |->
            @[team] - Cardinality(participants \intersect team)]]
    /\ freeSlotQueue' = IF \/ participants = {} \/ status[b] # "running"
                           \/ Contains(freeSlotQueue, b)
                        THEN freeSlotQueue
                        ELSE <<b>> \o freeSlotQueue
    /\ UNCHANGED scheduled

\* A plausible slip: the place is freed whether the player is in m_Players or not.
PlacesFreed_any(S, b) ==
    /\ invited' = [invited EXCEPT ![b] = [team \in Teams |-> @[team] - Cardinality(S \intersect team)]]
    /\ freeSlotQueue' = IF status[b] # "running" \/ Contains(freeSlotQueue, b) THEN freeSlotQueue
                        ELSE <<b>> \o freeSlotQueue
    /\ scheduled' = (scheduled \/ status[b] = "running")

\* RemovePlayerAtLeave, what b does: those of S that are in m_Players count no
\* more, and their places are offered again unless the battleground is over.
PlacesFreed(S, b) ==
    LET participants == S \intersect members[b] IN
    /\ invited' = [invited EXCEPT ![b] = [team \in Teams |->
            @[team] - Cardinality(participants \intersect team)]]
    /\ freeSlotQueue' = IF \/ participants = {} \/ status[b] # "running"
                           \/ Contains(freeSlotQueue, b)
                        THEN freeSlotQueue
                        ELSE <<b>> \o freeSlotQueue
    /\ scheduled' = (scheduled \/ (participants # {} /\ status[b] = "running"))

\* RemovePlayerAtLeave, what becomes of the players S of b: sObjectMgr.GetPlayer
\* finds those in the world, in whichever map.
RemovePlayersAtLeave(S, b) ==
    LET found == {p \in S : InWorld(p)} IN
    /\ PlacesFreed(S, b)
    /\ members' = [members EXCEPT ![b] = @ \ S]
    /\ slot' = [p \in Players |-> IF p \in found \intersect members[b] THEN NotQueued ELSE slot[p]]
    /\ bgInstanceID' = [p \in Players |-> IF p \in found THEN NoBattleGround ELSE bgInstanceID[p]]

\* Player::LeaveBattleground in the battleground, by the player or because of a
\* teleport to another map.
LeaveBattleground(p, b) ==
    /\ phase = "maps"
    /\ place[p] = b /\ bgInstanceID[p] = b
    /\ RemovePlayersAtLeave({p}, b)
    /\ place' = [place EXCEPT ![p] = Far]
    /\ UNCHANGED <<updateVars, joins, queueVars, events, status, struck>>

\* Any other teleport to another map.
FarTeleport(p) ==
    /\ phase = "maps"
    /\ InWorld(p)
    /\ bgInstanceID[p] = NoBattleGround
    /\ place' = [place EXCEPT ![p] = Far]
    /\ UNCHANGED <<updateVars, scheduled, joins, queueVars, events, slot, bgInstanceID, bgVars,
                   invited, members, struck>>

\* HandleMoveWorldportAckOpcode: to the battleground, where AddPlayer follows if
\* the player was invited, or to any other map.
WorldportAck(p) ==
    /\ phase = "maps"
    /\ place[p] = Far
    /\ place' = [place EXCEPT ![p] = IF bgInstanceID[p] = NoBattleGround THEN World
                                     ELSE bgInstanceID[p]]
    /\ members' = [b \in BattleGrounds |->
            IF bgInstanceID[p] = b /\ slot[p] = b THEN members[b] \union {p} ELSE members[b]]
    /\ UNCHANGED <<updateVars, scheduled, joins, queueVars, events, slot, bgInstanceID, bgVars,
                   invited, struck>>

\* BattleGroundMgr::PlayerLoggedOut: the queue learns of it if the player has a
\* slot.  The player's events go with the player.
PlayerLoggedOut(p) ==
    /\ place' = [place EXCEPT ![p] = Offline]
    /\ events' = {e \in events : e.player # p}
    /\ offline' = IF slot[p] # NotQueued /\ groupInfo[p] # NoGroup THEN offline \union {p}
                  ELSE offline

\* LogoutPlayer inside of a battleground: LeaveBattleground.
LogoutMember(p, b) ==
    /\ phase = "maps"
    /\ place[p] = b /\ bgInstanceID[p] = b
    /\ RemovePlayersAtLeave({p}, b)
    /\ PlayerLoggedOut(p)
    /\ UNCHANGED <<updateVars, joins, groupInfo, invitedTo, removeInviteTime, status, untimed, struck>>

\* LogoutPlayer on the way to a battleground.  LeaveBattleground finds no player
\* in the world and leaves slot and bgInstanceID; the loop that finishes teleports
\* then brings the player to b and to its m_Players; PlayerLoggedOut frees the
\* slot, and the next LoadFromDB, in the map of a battleground, bgInstanceID.
LogoutOnTheWay(p, b) ==
    /\ phase = "maps"
    /\ place[p] = Far /\ bgInstanceID[p] = b
    /\ PlacesFreed({p}, b)
    /\ members' = IF slot[p] = b THEN [members EXCEPT ![b] = @ \union {p}] ELSE members
    /\ slot' = [slot EXCEPT ![p] = NotQueued]
    /\ bgInstanceID' = [bgInstanceID EXCEPT ![p] = NoBattleGround]
    /\ PlayerLoggedOut(p)
    /\ UNCHANGED <<updateVars, joins, groupInfo, invitedTo, removeInviteTime, status, untimed, struck>>

\* A plausible slip: the slot stays.
LogoutPlayer_keeps_slot(p) ==
    /\ phase = "maps"
    /\ place[p] # Offline
    /\ bgInstanceID[p] = NoBattleGround
    /\ PlayerLoggedOut(p)
    /\ UNCHANGED <<updateVars, scheduled, joins, groupInfo, invitedTo, removeInviteTime, slot,
                   bgInstanceID, bgVars, invited, members, untimed, struck>>

\* LogoutPlayer elsewhere.
LogoutPlayer(p) ==
    /\ phase = "maps"
    /\ place[p] # Offline
    /\ bgInstanceID[p] = NoBattleGround
    /\ slot' = [slot EXCEPT ![p] = NotQueued]
    /\ PlayerLoggedOut(p)
    /\ UNCHANGED <<updateVars, scheduled, joins, groupInfo, invitedTo, removeInviteTime,
                   bgInstanceID, bgVars, invited, members, untimed, struck>>

\* LoadFromDB: PlayerLoggedIn.  Who was saved in a battleground comes back at its
\* entry point.  An invitation is shown, but no event ends it.
Login(p) ==
    /\ phase = "maps"
    /\ place[p] = Offline
    /\ place' = [place EXCEPT ![p] = World]
    /\ offline' = offline \ {p}
    /\ slot' = IF groupInfo[p] = NoGroup THEN slot
               ELSE [slot EXCEPT ![p] = invitedTo[groupInfo[p]]]
    /\ untimed' = IF Invited(p) THEN untimed \union {p} ELSE untimed
    /\ struck' = struck \ {p}
    /\ UNCHANGED <<updateVars, scheduled, joins, groupInfo, invitedTo, removeInviteTime, events,
                   bgInstanceID, bgVars, invited, members>>

-----------------------------------------------------------------------------
\* EndBattleGround.
EndBattleGround(b) ==
    /\ phase = "maps"
    /\ status[b] = "running" /\ members[b] # {}
    /\ status' = [status EXCEPT ![b] = "leave"]
    /\ freeSlotQueue' = RemoveFirst(freeSlotQueue, b)
    /\ UNCHANGED <<updateVars, scheduled, joins, queueVars, events, place, slot, bgInstanceID,
                   invited, members, struck>>

\* BattleGround::Update: the time after the end is over.  Those in the map of b
\* are teleported; one that logged out on the way and is back in the world loses
\* its slot and battleground where it is.
RemoveAllPlayers(b) ==
    /\ phase = "maps"
    /\ status[b] = "leave" /\ members[b] # {}
    /\ RemovePlayersAtLeave(members[b], b)
    /\ place' = [p \in Players |-> IF p \in members[b] /\ place[p] = b THEN Far ELSE place[p]]
    /\ struck' = struck \union
            {p \in members[b] : InWorld(p) /\ place[p] # b /\ slot[p] # NotQueued}
    /\ UNCHANGED <<updateVars, joins, queueVars, events, status>>

\* BattleGround::Update without players: nobody is invited any more.
DeleteBattleGround(b) ==
    /\ phase = "maps"
    /\ status[b] \in {"running", "leave"}
    /\ members[b] = {}
    /\ \A team \in Teams : invited[b][team] = 0
    /\ status' = [status EXCEPT ![b] = "deleted"]
    /\ freeSlotQueue' = RemoveFirst(freeSlotQueue, b)
    /\ UNCHANGED <<updateVars, scheduled, joins, queueVars, events, place, slot, bgInstanceID,
                   invited, members, struck>>

-----------------------------------------------------------------------------
Init ==
    /\ phase = "maps" /\ todo = <<>> /\ scheduled = FALSE
    /\ joins = 0
    /\ groupInfo = [p \in Players |-> NoGroup]
    /\ offline = {}
    /\ invitedTo = [g \in Groups |-> NoBattleGround]
    /\ removeInviteTime = [g \in Groups |-> 0]
    /\ events = {}
    /\ place = [p \in Players |-> World]
    /\ slot = [p \in Players |-> NotQueued]
    /\ bgInstanceID = [p \in Players |-> NoBattleGround]
    /\ status = [b \in BattleGrounds |-> "none"]
    /\ invited = [b \in BattleGrounds |-> [team \in Teams |-> 0]]
    /\ members = [b \in BattleGrounds |-> {}]
    /\ freeSlotQueue = <<>>
    /\ untimed = {} /\ struck = {}
    /\ offered = {}

Update ==
    \/ \E removed \in SUBSET Players : BeginUpdate(removed)
    \/ FillPlayersToBG
    \/ \E b \in BattleGrounds : CreateNewBattleGround(b)
    \/ NoMatch

PlayerStep(p) ==
    \/ LeaveQueue(p) \/ EnterBattleGround(p)
    \/ FarTeleport(p) \/ WorldportAck(p) \/ LogoutPlayer(p) \/ Login(p)
    \/ \E b \in BattleGrounds :
          LeaveBattleground(p, b) \/ LogoutMember(p, b) \/ LogoutOnTheWay(p, b)

BattleGroundUpdate(b) == EndBattleGround(b) \/ RemoveAllPlayers(b) \/ DeleteBattleGround(b)

Next ==
    \/ Update
    \/ \E S \in SUBSET Players : Join(S)
    \/ \E p \in Players : PlayerStep(p)
    \/ \E e \in events : TimeOut(e)
    \/ \E b \in BattleGrounds : BattleGroundUpdate(b)

Spec == Init /\ [][Next]_vars

-----------------------------------------------------------------------------
\* The state has the types the code declares.
TypeOK ==
    /\ phase \in {"maps", "fill"}
    /\ todo \in Seq(BattleGrounds) /\ freeSlotQueue \in Seq(BattleGrounds)
    /\ scheduled \in BOOLEAN
    /\ joins \in 0 .. MaxJoins
    /\ groupInfo \in [Players -> Groups \union {NoGroup}]
    /\ {offline, untimed, struck} \subseteq SUBSET Players
    /\ invitedTo \in [Groups -> BattleGrounds \union {NoBattleGround}]
    /\ removeInviteTime \in [Groups -> 0 .. MaxJoins]
    /\ events \subseteq [player : Players, bg : BattleGrounds, time : 0 .. MaxJoins, group : Groups]
    /\ place \in [Players -> BattleGrounds \union {World, Far, Offline}]
    /\ slot \in [Players -> BattleGrounds \union {NotQueued, NoBattleGround}]
    /\ bgInstanceID \in [Players -> BattleGrounds \union {NoBattleGround}]
    /\ status \in [BattleGrounds -> {"none", "running", "leave", "deleted"}]
    /\ invited \in [BattleGrounds -> [Teams -> Nat]]
    /\ members \in [BattleGrounds -> SUBSET Players]
    /\ offered \subseteq BattleGrounds

\* The players on the way to b.
OnTheWay(b) == {p \in Players : place[p] = Far /\ bgInstanceID[p] = b}

\* Those who are to come to b: on the way to it or invited to it.
Coming(b) == OnTheWay(b) \union InvitedAmong(Players, b)

\* The count of the invited covers everybody who is in m_Players, on the way to
\* the battleground or invited to it, also those who log out on the way and come
\* back, and no team is promised more places than there are.  A battleground that
\* somebody is to come to is not deleted: its map would be.
PlacesCounted ==
    \A b \in BattleGrounds, team \in Teams :
        /\ Cardinality(members[b] \intersect team) + Cardinality(Coming(b) \intersect team)
               <= invited[b][team]
        /\ invited[b][team] <= MaxPlayersPerTeam
        /\ members[b] \union Coming(b) # {} => status[b] \in {"running", "leave"}

\* What m_bgBattleGroundQueueID is to say of p: the invitation of p's group, 0 if
\* it has none yet, or the battleground that p is in or goes to.
SlotOf(p) ==
    IF place[p] = Offline THEN NotQueued
    ELSE IF groupInfo[p] # NoGroup THEN invitedTo[groupInfo[p]]
    ELSE IF bgInstanceID[p] # NoBattleGround THEN bgInstanceID[p]
    ELSE NotQueued

\* What the player and the queue know of p agrees with where p is.
Agrees(p) ==
    /\ slot[p] = SlotOf(p)
    /\ p \in offline <=> groupInfo[p] # NoGroup /\ place[p] = Offline
    /\ \A b \in BattleGrounds : place[p] = b <=> bgInstanceID[p] = b /\ place[p] # Far

\* What the player knows of the queue (m_bgBattleGroundQueueID), what the queue
\* knows of the player and where the player is agree, also over log-outs and group
\* invitations: a slot without a place in the queue or in a battleground would
\* keep the player from ever joining again, and a player in a battleground that
\* does not have it in m_Players would never be sent out of it.  Not so for a
\* player struck by the end of a battleground that it had logged out to, until the
\* next log-in.
SlotsAgree ==
    /\ \A p \in Players \ struck : Agrees(p)
    /\ \A p \in Players, b \in BattleGrounds : place[p] = b => p \in members[b]

\* "4. player left queue and he joined again and he has been invited to same
\* battleground again -> we should not remove him from queue yet": an event
\* that fires removes its player only from the group it was made for.
TimeOutOfOwnGroup ==
    [][\A e \in events \ events' :
          groupInfo[e.player] # NoGroup /\ groupInfo'[e.player] = NoGroup
              => groupInfo[e.player] = e.group]_vars

\* "players have only 80 seconds to click": whoever is invited and online has
\* an event that will end this invitation, unless the player logged in with
\* the invitation waiting, or has lost the slot to a battleground's end.
InvitationTimed ==
    \A p \in Players : Invited(p) /\ place[p] # Offline /\ p \notin untimed \union struck =>
        [player |-> p, bg |-> invitedTo[groupInfo[p]], time |-> removeInviteTime[groupInfo[p]],
         group |-> groupInfo[p]] \in events

\* "invite as much players to bg as possible" (mangosd.conf): when no update is
\* scheduled, no group waits that has room in a battleground which the last
\* Update has tried to fill.  A battleground that this Update has opened itself
\* is not tried, and its other places stay empty until somebody joins or leaves.
FreePlaceOffered ==
    phase = "maps" /\ ~scheduled =>
        \A b \in offered \intersect Running, team \in Teams :
            \A g \in Uninvited(team) : Cardinality(PlayersOf(g)) > FreeSlotsForTeam(b, team)
=============================================================================
