----------------------- MODULE BattleGroundQueue_proofs -----------------------
(***************************************************************************)
(* Proofs about BattleGroundQueue, for any teams, sizes and number of      *)
(* groups: what player, queue and battleground know of each other agrees,  *)
(* no place is promised twice, every invitation has an event that ends it  *)
(* and no event ends another one, and no free place is forgotten.          *)
(***************************************************************************)
EXTENDS BattleGroundQueue, FiniteSetTheorems, SequenceTheorems, WellFoundedInduction, TLAPS

-----------------------------------------------------------------------------
\* Groups are numbered in the order in which they join; a player waits in the
\* queue or is in a battleground, never both; an invitation is younger than its
\* group.
JoinInv ==
    /\ \A p \in Players :
          groupInfo[p] # NoGroup => groupInfo[p] <= joins /\ bgInstanceID[p] = NoBattleGround
    /\ \A p \in Players : place[p] = Offline => bgInstanceID[p] = NoBattleGround
    /\ \A g \in Groups : PlayersOf(g) = {} => invitedTo[g] = NoBattleGround
    /\ \A g \in Groups : invitedTo[g] # NoBattleGround => g <= removeInviteTime[g]

\* A player's next group is younger than the events of the one before.
EventInv ==
    \A e \in events :
        /\ e.time <= joins
        /\ groupInfo[e.player] \in {NoGroup, e.group} \/ e.time < groupInfo[e.player]

\* Nobody is invited to a battleground before it opens.
StatusInv ==
    /\ \A b \in BattleGrounds : status[b] = "none" => \A team \in Teams : invited[b][team] = 0
    /\ \A b \in offered : status[b] # "none"

\* Who is in the queue of those with free slots: running battlegrounds, each
\* once, and all of them but the full ones.
FreeInv ==
    /\ \A i \in 1 .. Len(freeSlotQueue) :
          /\ status[freeSlotQueue[i]] = "running"
          /\ \A j \in 1 .. Len(freeSlotQueue) : freeSlotQueue[i] = freeSlotQueue[j] => i = j
    /\ \A i \in 1 .. Len(todo) : status[todo[i]] = "running"
    /\ phase = "maps" => todo = <<>>
    /\ \A b \in Running : ~Contains(freeSlotQueue, b) =>
          Cardinality(members[b]) >= 2 * MaxPlayersPerTeam

\* FreePlaceOffered in the middle of an update: it holds of the battlegrounds
\* that the update has filled already.
OfferInv ==
    ~scheduled => \A b \in offered \intersect Running, team \in Teams : ~Contains(todo, b) =>
        \A g \in Uninvited(team) : Cardinality(PlayersOf(g)) > FreeSlotsForTeam(b, team)

\* What holds of everybody, also of players struck by the end of a battleground:
\* a slot that is not free says what it is to say, whoever has a battleground is
\* in its map or on the way to it, and the queue takes nobody for offline who is
\* not.
Knows(p) ==
    /\ slot[p] \in {NotQueued, SlotOf(p)}
    /\ bgInstanceID[p] # NoBattleGround =>
          slot[p] = bgInstanceID[p] /\ place[p] \in {Far, bgInstanceID[p]}
    /\ p \in offline => groupInfo[p] # NoGroup /\ place[p] = Offline

KnownInv == \A p \in Players : Knows(p)

QueueInv ==
    /\ TypeOK /\ JoinInv /\ SlotsAgree /\ KnownInv /\ EventInv /\ InvitationTimed
    /\ PlacesCounted /\ StatusInv /\ FreeInv /\ OfferInv

-----------------------------------------------------------------------------
(* Players, teams and how many they are. *)

LEMMA Finite ==
    ASSUME NEW S, S \subseteq Players
    PROVE  IsFiniteSet(S) /\ Cardinality(S) \in Nat
<1>1. IsFiniteSet(Players)
  BY TeamsAssumption, FS_Union DEF Players
<1> QED BY <1>1, FS_Subset, FS_CardinalityType

LEMMA Fewer ==
    ASSUME NEW T, T \subseteq Players, NEW S, S \subseteq T
    PROVE  Cardinality(S) <= Cardinality(T)
BY Finite, FS_Subset

LEMMA NotCounted ==
    ASSUME NEW T, T \subseteq Players, NEW S, S \subseteq T
    PROVE  Cardinality(T \ S) = Cardinality(T) - Cardinality(S)
<1>1. T \intersect S = S
  OBVIOUS
<1> QED BY <1>1, Finite, FS_Difference

LEMMA Together ==
    ASSUME NEW S, NEW T, S \subseteq Players, T \subseteq Players, S \intersect T = {}
    PROVE  Cardinality(S \union T) = Cardinality(S) + Cardinality(T)
<1>1. Cardinality({}) = 0 /\ Cardinality(S) \in Nat /\ Cardinality(T) \in Nat
  BY Finite, FS_EmptySet
<1> QED BY <1>1, Finite, FS_Union

LEMMA NonEmpty ==
    ASSUME NEW S, S \subseteq Players, S # {}
    PROVE  Cardinality(S) >= 1
<1>1. Cardinality(S) # 0 /\ Cardinality(S) \in Nat
  BY Finite, FS_EmptySet
<1> QED BY <1>1

LEMMA TeamsApart ==
    /\ \A team \in Teams : team \subseteq Players
    /\ \A team, other \in Teams : team # other => team \intersect other = {}
BY TeamsAssumption DEF Teams, Players

\* The players of both teams together.
LEMMA BothTeams ==
    ASSUME NEW S, S \subseteq Players, NEW m \in Nat,
           \A team \in Teams : Cardinality(S \intersect team) <= m,
           Cardinality(S) >= 2 * m
    PROVE  \A team \in Teams : Cardinality(S \intersect team) = m
<1>1. /\ S = (S \intersect Alliance) \union (S \intersect Horde)
      /\ (S \intersect Alliance) \intersect (S \intersect Horde) = {}
  BY TeamsAssumption DEF Players
<1>2. Cardinality(S) = Cardinality(S \intersect Alliance) + Cardinality(S \intersect Horde)
  BY <1>1, Together
<1>3. Cardinality(S \intersect Alliance) \in Nat /\ Cardinality(S \intersect Horde) \in Nat
  BY Finite
<1>4. Cardinality(S \intersect Alliance) <= m /\ Cardinality(S \intersect Horde) <= m
  BY DEF Teams
<1>5. Cardinality(S \intersect Alliance) = m /\ Cardinality(S \intersect Horde) = m
  BY <1>2, <1>3, <1>4
<1> QED BY <1>5 DEF Teams

-----------------------------------------------------------------------------
(* The groups that a team sends. *)

\* The least number of a set.
LEMMA LeastNumber ==
    ASSUME NEW T \in SUBSET Nat, T # {}
    PROVE  \E n \in T : \A k \in T : n <= k
<1>1. PICK R : R = {ss \in Nat \X Nat : ss[1] < ss[2]} /\ IsWellFoundedOn(R, Nat)
  BY NatLessThanWellFounded DEF OpToRel
<1>2. \E n \in T : \A k \in T : ~ (<<k, n>> \in R)
  BY <1>1, WFMin
<1>3. \A k, n \in Nat : <<k, n>> \in R <=> k < n
  BY <1>1
<1>4. \A k, n \in T : ~(k < n) => n <= k
  OBVIOUS
<1> QED BY <1>2, <1>3, <1>4

\* Induction over a set of numbers.
LEMMA EveryNumber ==
    ASSUME NEW m \in Nat, NEW P, 0 \in P, \A n \in 1 .. m : n - 1 \in P => n \in P
    PROVE  \A n \in 0 .. m : n \in P
<1> SUFFICES ASSUME {n \in 0 .. m : n \notin P} # {} PROVE FALSE
  OBVIOUS
<1> DEFINE T == {n \in 0 .. m : n \notin P}
<1>1. PICK n \in T : \A k \in T : n <= k
  <2>1. T \in SUBSET Nat
    OBVIOUS
  <2> QED BY <2>1, LeastNumber
<1>2. n # 0 /\ n \in 1 .. m /\ n - 1 \in 0 .. m /\ ~(n <= n - 1)
  BY <1>1
<1>3. n - 1 \in P
  BY <1>1, <1>2
<1> QED BY <1>1, <1>2, <1>3

\* What Selected does with the group n.
Selection(team, enough, desired, pool, n) ==
    IF n = 0 THEN {}
    ELSE IF /\ n \in Uninvited(team)
            /\ PlayerCount(pool[n - 1]) < enough
            /\ PlayerCount(pool[n - 1]) + Cardinality(PlayersOf(n)) <= desired
         THEN pool[n - 1] \union {n}
         ELSE pool[n - 1]

\* The recursive function exists: it is built up from 0.
LEMMA SelectionExists ==
    ASSUME NEW team, NEW enough, NEW desired
    PROVE  \E f : f = [n \in 0 .. MaxJoins |-> Selection(team, enough, desired, f, n)]
<1> DEFINE Up(f, m) == f = [n \in 0 .. m |-> Selection(team, enough, desired, f, n)]
           P == {m \in Nat : \E f : Up(f, m)}
<1>1. MaxJoins \in Nat
  BY SizesAssumption
<1>2. 0 \in P
  <2>1. Up([n \in 0 .. 0 |-> {}], 0)
    BY DEF Selection
  <2> QED BY <2>1
<1>3. ASSUME NEW m \in 1 .. MaxJoins, m - 1 \in P
      PROVE  m \in P
  <2>1. PICK f : Up(f, m - 1)
    BY <1>3
  <2> DEFINE g == [n \in 0 .. m |-> IF n = m THEN Selection(team, enough, desired, f, m) ELSE f[n]]
  <2>2. \A n \in 0 .. m - 1 : g[n] = f[n] /\ n \in 0 .. m /\ n # m
    BY <1>3
  <2>3. \A n \in 0 .. m : n # 0 => n - 1 \in 0 .. m - 1
    BY <1>3
  <2>4. \A n \in 0 .. m : Selection(team, enough, desired, g, n) = Selection(team, enough, desired, f, n)
    BY <2>2, <2>3 DEF Selection
  <2>5. \A n \in 0 .. m : n # m => n \in 0 .. m - 1
    BY <1>3
  <2>6. \A n \in 0 .. m - 1 : f[n] = Selection(team, enough, desired, f, n)
    BY <2>1
  <2>7. \A n \in 0 .. m : g[n] = Selection(team, enough, desired, g, n)
    BY <2>2, <2>4, <2>5, <2>6
  <2>8. g = [n \in 0 .. m |-> g[n]]
    OBVIOUS
  <2> HIDE DEF g
  <2>9. Up(g, m)
    BY <2>7, <2>8
  <2> QED BY <1>3, <2>9
<1> HIDE DEF P
<1>4. MaxJoins \in P
  BY <1>1, <1>2, <1>3, EveryNumber
<1> QED BY <1>4 DEF P

LEMMA SelectedPool ==
    ASSUME NEW team, NEW enough, NEW desired
    PROVE  \E f : /\ f = [n \in 0 .. MaxJoins |-> Selection(team, enough, desired, f, n)]
                  /\ Selected(team, enough, desired) = f[MaxJoins]
<1>1. \E f : f = [n \in 0 .. MaxJoins |-> Selection(team, enough, desired, f, n)]
  BY SelectionExists
<1> QED BY <1>1, Zenon DEF Selected, Selection

LEMMA CountWith ==
    ASSUME NEW pool, NEW g, g \notin pool
    PROVE  PlayerCount(pool \union {g}) = PlayerCount(pool) + Cardinality(PlayersOf(g))
<1> DEFINE A == {p \in Players : groupInfo[p] \in pool}
<1>1. {p \in Players : groupInfo[p] \in pool \union {g}} = A \union PlayersOf(g)
  BY DEF PlayersOf
<1>2. A \intersect PlayersOf(g) = {} /\ A \subseteq Players /\ PlayersOf(g) \subseteq Players
  BY DEF PlayersOf
<1>3. Cardinality(A \union PlayersOf(g)) = Cardinality(A) + Cardinality(PlayersOf(g))
  BY <1>2, Together
<1> QED BY <1>1, <1>3 DEF PlayerCount

LEMMA CountFewer ==
    ASSUME NEW pool, NEW larger, pool \subseteq larger
    PROVE  PlayerCount(pool) <= PlayerCount(larger) /\ PlayerCount(pool) \in Nat
<1>1. {p \in Players : groupInfo[p] \in pool} \subseteq {p \in Players : groupInfo[p] \in larger}
  OBVIOUS
<1>2. {p \in Players : groupInfo[p] \in larger} \subseteq Players
  OBVIOUS
<1> QED BY <1>1, <1>2, Finite, Fewer DEF PlayerCount

\* A selection is of groups that wait, it is not larger than desired, and no
\* other group of the team would fit in as well.
LEMMA SelectedGroups ==
    ASSUME NEW team, NEW enough \in Int, NEW desired \in Nat
    PROVE  /\ Selected(team, enough, desired) \subseteq Uninvited(team)
           /\ PlayerCount(Selected(team, enough, desired)) <= desired
           /\ enough >= desired =>
                 \A g \in Uninvited(team) \ Selected(team, enough, desired) :
                     PlayerCount(Selected(team, enough, desired)) + Cardinality(PlayersOf(g)) > desired
<1>1. PICK f : /\ f = [n \in 0 .. MaxJoins |-> Selection(team, enough, desired, f, n)]
               /\ Selected(team, enough, desired) = f[MaxJoins]
  BY SelectedPool
<1>2. MaxJoins \in Nat
  BY SizesAssumption
<1>3. /\ f[0] = {}
      /\ \A n \in 1 .. MaxJoins : n - 1 \in 0 .. MaxJoins /\ f[n] = Selection(team, enough, desired, f, n)
  <2>1. \A n \in 0 .. MaxJoins : f[n] = Selection(team, enough, desired, f, n)
    BY <1>1
  <2>2. 0 \in 0 .. MaxJoins /\ Selection(team, enough, desired, f, 0) = {}
    BY <1>2 DEF Selection
  <2>3. \A n \in 1 .. MaxJoins : n \in 0 .. MaxJoins /\ n - 1 \in 0 .. MaxJoins
    BY <1>2
  <2>4. f[0] = {}
    BY <2>1, <2>2
  <2> QED BY <2>1, <2>3, <2>4
<1>4. \A n \in 1 .. MaxJoins :
          \/ f[n] = f[n - 1]
          \/ /\ f[n] = f[n - 1] \union {n} /\ n \in Uninvited(team)
             /\ PlayerCount(f[n - 1]) + Cardinality(PlayersOf(n)) <= desired
  <2> SUFFICES ASSUME NEW n \in 1 .. MaxJoins, f[n] # f[n - 1]
               PROVE  /\ f[n] = f[n - 1] \union {n} /\ n \in Uninvited(team)
                      /\ PlayerCount(f[n - 1]) + Cardinality(PlayersOf(n)) <= desired
    OBVIOUS
  <2>1. f[n] = Selection(team, enough, desired, f, n) /\ n # 0
    BY <1>3
  <2> QED BY <2>1 DEF Selection
<1>5. \A n \in 0 .. MaxJoins :
          f[n] \subseteq Uninvited(team) /\ (\A g \in f[n] : g <= n) /\ PlayerCount(f[n]) <= desired
  <2> DEFINE P == {n \in 0 .. MaxJoins : /\ f[n] \subseteq Uninvited(team) /\ \A g \in f[n] : g <= n
                                         /\ PlayerCount(f[n]) <= desired}
  <2>1. 0 \in P
    <3>1. {p \in Players : groupInfo[p] \in f[0]} = {}
      BY <1>3
    <3>2. PlayerCount(f[0]) = 0
      BY <3>1, FS_EmptySet DEF PlayerCount
    <3> QED BY <1>2, <1>3, <3>2
  <2>2. ASSUME NEW n \in 1 .. MaxJoins, n - 1 \in P
        PROVE  n \in P
    <3>1. /\ f[n - 1] \subseteq Uninvited(team) /\ PlayerCount(f[n - 1]) <= desired
          /\ \A g \in f[n - 1] : g <= n - 1 /\ g \in Int
      BY <2>2 DEF Uninvited, Groups
    <3>2. CASE f[n] = f[n - 1]
      BY <3>1, <3>2
    <3>3. CASE /\ f[n] = f[n - 1] \union {n} /\ n \in Uninvited(team)
               /\ PlayerCount(f[n - 1]) + Cardinality(PlayersOf(n)) <= desired
      <4>1. n \notin f[n - 1]
        BY <3>1
      <4>2. PlayerCount(f[n]) <= desired
        BY <3>3, <4>1, CountWith
      <4> QED BY <3>1, <3>3, <4>2
    <3> QED BY <1>4, <3>2, <3>3
  <2> HIDE DEF P
  <2>3. \A n \in 0 .. MaxJoins : n \in P
    BY <1>2, <2>1, <2>2, EveryNumber
  <2> QED BY <2>3 DEF P
<1>6. ASSUME NEW g \in 0 .. MaxJoins
      PROVE  f[g] \subseteq f[MaxJoins]
  <2> DEFINE P == {n \in 0 .. MaxJoins : g <= n => f[g] \subseteq f[n]}
  <2>1. 0 \in P
    BY <1>2
  <2>2. ASSUME NEW n \in 1 .. MaxJoins, n - 1 \in P
        PROVE  n \in P
    <3>1. g <= n => g = n \/ f[g] \subseteq f[n - 1]
      BY <2>2
    <3>2. f[n - 1] \subseteq f[n]
      BY <1>4
    <3> QED BY <3>1, <3>2
  <2> HIDE DEF P
  <2>3. \A n \in 0 .. MaxJoins : n \in P
    BY <1>2, <2>1, <2>2, EveryNumber
  <2> QED BY <1>2, <2>3 DEF P
<1>7. ASSUME enough >= desired, NEW g \in Uninvited(team) \ f[MaxJoins]
      PROVE  PlayerCount(f[MaxJoins]) + Cardinality(PlayersOf(g)) > desired
  <2>1. g \in 1 .. MaxJoins /\ PlayersOf(g) # {} /\ PlayersOf(g) \subseteq Players
    BY <1>7 DEF Uninvited, Groups, PlayersOf
  <2>2. g \in 0 .. MaxJoins /\ g - 1 \in 0 .. MaxJoins /\ g # 0
    BY <1>2, <2>1
  <2>3. g \notin f[g] /\ f[g - 1] \subseteq f[MaxJoins]
    BY <1>6, <1>7, <2>2
  <2>4. \/ ~(PlayerCount(f[g - 1]) < enough)
        \/ ~(PlayerCount(f[g - 1]) + Cardinality(PlayersOf(g)) <= desired)
    BY <1>3, <1>7, <2>1, <2>2, <2>3 DEF Selection
  <2>5. /\ PlayerCount(f[g - 1]) <= PlayerCount(f[MaxJoins])
        /\ PlayerCount(f[g - 1]) \in Nat /\ PlayerCount(f[MaxJoins]) \in Nat
    BY <2>3, CountFewer
  <2>6. Cardinality(PlayersOf(g)) \in Nat /\ Cardinality(PlayersOf(g)) >= 1
    BY <2>1, Finite, NonEmpty
  <2> QED BY <1>7, <2>4, <2>5, <2>6
<1> QED BY <1>1, <1>2, <1>5, <1>7

-----------------------------------------------------------------------------
(* Players that lose their entries in the queue. *)

LEMMA Places ==
    /\ NoGroup \notin Groups /\ NoBattleGround \notin BattleGrounds /\ NotQueued \notin BattleGrounds
    /\ NotQueued # NoBattleGround /\ MaxPlayersPerTeam \in Nat /\ MaxPlayersPerTeam > 0
    /\ Groups \subseteq Nat /\ NoGroup \in Nat
    /\ {World, Far, Offline} \intersect BattleGrounds = {}
    /\ World # Far /\ World # Offline /\ Far # Offline
BY SizesAssumption DEF NoGroup, Groups, NoBattleGround, BattleGrounds, NotQueued, World, Far, Offline

\* Nothing changes for p.
Same(p) ==
    /\ slot'[p] = slot[p] /\ place'[p] = place[p] /\ bgInstanceID'[p] = bgInstanceID[p]
    /\ groupInfo'[p] = groupInfo[p]
    /\ groupInfo[p] # NoGroup => invitedTo'[groupInfo[p]] = invitedTo[groupInfo[p]]
    /\ p \in offline' <=> p \in offline
    /\ p \in struck => p \in struck'

LEMMA SameStays ==
    ASSUME NEW p \in Players, Same(p)
    PROVE  /\ Knows(p) => Knows(p)'
           /\ Agrees(p) => Agrees(p)'
<1>1. SlotOf(p)' = SlotOf(p)
  BY DEF Same, SlotOf
<1>2. Knows(p) => Knows(p)'
  BY <1>1 DEF Same, Knows
<1>3. Agrees(p) => Agrees(p)'
  BY <1>1 DEF Same, Agrees
<1> QED BY <1>2, <1>3

\* A step is to look after the players that it changes something for.
LEMMA SlotsStay ==
    ASSUME SlotsAgree, KnownInv,
           \A p \in Players : Same(p) \/ (Knows(p)' /\ (p \notin struck' => Agrees(p)')),
           \A p \in Players, b \in BattleGrounds : place'[p] = b => p \in members'[b]
    PROVE  SlotsAgree' /\ KnownInv'
<1>1. ASSUME NEW p \in Players
      PROVE  Knows(p)' /\ (p \notin struck' => Agrees(p)')
  <2>1. CASE Same(p)
    <3>1. p \notin struck' => p \notin struck
      BY <2>1 DEF Same
    <3>2. Knows(p) /\ (p \notin struck => Agrees(p))
      BY DEF SlotsAgree, KnownInv
    <3> QED BY <2>1, <3>1, <3>2, SameStays
  <2> QED BY <2>1
<1> QED BY <1>1 DEF SlotsAgree, KnownInv

\* The groups that are left keep their players and their invitations.
LEMMA Dropped ==
    ASSUME TypeOK, NEW S, S \subseteq Players, DropEntries(S)
    PROVE  /\ groupInfo' \in [Players -> Groups \union {NoGroup}]
           /\ invitedTo' \in [Groups -> BattleGrounds \union {NoBattleGround}]
           /\ removeInviteTime' \in [Groups -> 0 .. MaxJoins]
           /\ offline' = offline \ S /\ untimed' = untimed \ S
           /\ struck' = struck => {offline', untimed', struck'} \subseteq SUBSET Players
           /\ \A p \in Players : groupInfo'[p] = IF p \in S THEN NoGroup ELSE groupInfo[p]
           /\ \A g \in Groups : PlayersOf(g)' = PlayersOf(g) \ S
           /\ \A g \in Groups : PlayersOf(g)' = {} => invitedTo'[g] = NoBattleGround
           /\ \A g \in Groups : PlayersOf(g)' # {} =>
                 invitedTo'[g] = invitedTo[g] /\ removeInviteTime'[g] = removeInviteTime[g]
           /\ \A p \in Players : groupInfo'[p] # NoGroup =>
                 /\ groupInfo'[p] = groupInfo[p] /\ p \notin S /\ groupInfo[p] \in Groups
                 /\ invitedTo'[groupInfo[p]] = invitedTo[groupInfo[p]]
                 /\ removeInviteTime'[groupInfo[p]] = removeInviteTime[groupInfo[p]]
<1> DEFINE gone == {g \in Groups : PlayersOf(g) \subseteq S}
<1>1. /\ groupInfo' = [p \in Players |-> IF p \in S THEN NoGroup ELSE groupInfo[p]]
      /\ invitedTo' = [g \in Groups |-> IF g \in gone THEN NoBattleGround ELSE invitedTo[g]]
      /\ removeInviteTime' = [g \in Groups |-> IF g \in gone THEN 0 ELSE removeInviteTime[g]]
      /\ offline' = offline \ S /\ untimed' = untimed \ S
  BY DEF DropEntries
<1>2. \A g \in Groups : g \in gone <=> PlayersOf(g) \subseteq S
  OBVIOUS
<1> HIDE DEF gone
<1>3. /\ groupInfo' \in [Players -> Groups \union {NoGroup}]
      /\ invitedTo' \in [Groups -> BattleGrounds \union {NoBattleGround}]
      /\ removeInviteTime' \in [Groups -> 0 .. MaxJoins]
  BY <1>1, SizesAssumption DEF TypeOK
<1>4. \A p \in Players : groupInfo'[p] = IF p \in S THEN NoGroup ELSE groupInfo[p]
  BY <1>1
<1>5. \A g \in Groups : PlayersOf(g)' = PlayersOf(g) \ S
  BY <1>4, Places DEF PlayersOf
<1>6. /\ \A g \in Groups : PlayersOf(g)' = {} => invitedTo'[g] = NoBattleGround
      /\ \A g \in Groups : PlayersOf(g)' # {} =>
            invitedTo'[g] = invitedTo[g] /\ removeInviteTime'[g] = removeInviteTime[g]
  BY <1>1, <1>2, <1>5
<1>7. ASSUME NEW p \in Players, groupInfo'[p] # NoGroup
      PROVE  /\ groupInfo'[p] = groupInfo[p] /\ p \notin S
             /\ \E g \in Groups : g = groupInfo[p] /\ PlayersOf(g)' # {}
  <2>1. groupInfo'[p] = groupInfo[p] /\ p \notin S
    BY <1>4, <1>7
  <2>2. groupInfo[p] \in Groups
    BY <1>7, <2>1 DEF TypeOK
  <2>3. p \in PlayersOf(groupInfo[p])
    BY DEF PlayersOf
  <2>4. p \in PlayersOf(groupInfo[p]) \ S
    BY <2>1, <2>3
  <2>5. PICK g \in Groups : g = groupInfo[p]
    BY <2>2
  <2>6. PlayersOf(g)' # {}
    BY <1>5, <2>4, <2>5
  <2> QED BY <2>1, <2>5, <2>6
<1>8. struck' = struck => {offline', untimed', struck'} \subseteq SUBSET Players
  <2>1. offline \subseteq Players /\ untimed \subseteq Players /\ struck \subseteq Players
    BY DEF TypeOK
  <2>2. offline \ S \subseteq Players /\ untimed \ S \subseteq Players
    BY <2>1
  <2> QED BY <1>1, <2>1, <2>2
<1> QED BY <1>1, <1>3, <1>4, <1>5, <1>6, <1>7, <1>8

\* Who is to have a place in a battleground, and does not lose it.
LEMMA ComingWithout ==
    ASSUME TypeOK, JoinInv, NEW S, S \subseteq Players, DropEntries(S),
           UNCHANGED <<bgInstanceID, place>>, NEW b \in BattleGrounds
    PROVE  /\ Coming(b)' = Coming(b) \ InvitedAmong(S, b)
           /\ InvitedAmong(S, b) \subseteq Coming(b)
           /\ Coming(b) \subseteq Players
<1>1. \A p \in Players : bgInstanceID[p] = b => groupInfo[p] = NoGroup
  BY Places DEF JoinInv
<1>2. \A p \in Players :
          (Invited(p) /\ invitedTo[groupInfo[p]] = b)'
              <=> Invited(p) /\ invitedTo[groupInfo[p]] = b /\ p \notin S
  <2> SUFFICES ASSUME NEW p \in Players
               PROVE  (groupInfo'[p] # NoGroup /\ invitedTo'[groupInfo'[p]] # NoBattleGround
                          /\ invitedTo'[groupInfo'[p]] = b)
                      <=> (groupInfo[p] # NoGroup /\ invitedTo[groupInfo[p]] # NoBattleGround
                              /\ invitedTo[groupInfo[p]] = b /\ p \notin S)
    BY DEF Invited
  <2> QED BY Dropped
<1>3. Coming(b)' = OnTheWay(b) \union
                      {p \in Players : Invited(p) /\ invitedTo[groupInfo[p]] = b /\ p \notin S}
  BY <1>2 DEF Coming, OnTheWay, InvitedAmong
<1> QED BY <1>1, <1>3 DEF Coming, OnTheWay, InvitedAmong, Invited

\* What PlacesCounted says of one battleground and team.
LEMMA Counts ==
    ASSUME TypeOK, PlacesCounted, NEW b \in BattleGrounds, NEW team \in Teams
    PROVE  /\ Cardinality(members[b] \intersect team) + Cardinality(Coming(b) \intersect team)
                  <= invited[b][team]
           /\ invited[b][team] \in Nat /\ invited[b][team] <= MaxPlayersPerTeam
           /\ members[b] \union Coming(b) # {} => status[b] \in {"running", "leave"}
<1>1. invited[b][team] \in Nat
  BY DEF TypeOK
<1> QED BY <1>1, Zenon DEF PlacesCounted

\* RemovePlayer takes the invited out of the count of their battleground.
LEMMA RemovedCounted ==
    ASSUME TypeOK, JoinInv, PlacesCounted, StatusInv,
           NEW S, S \subseteq Players, RemovePlayers(S),
           UNCHANGED <<bgInstanceID, place, status, members>>
    PROVE  /\ invited' \in [BattleGrounds -> [Teams -> Nat]] /\ PlacesCounted'
           /\ \A b \in BattleGrounds : status'[b] = "none" => \A team \in Teams : invited'[b][team] = 0
           /\ \A b \in BattleGrounds : InvitedAmong(S, b) = {} => invited'[b] = invited[b]
<1>1. DropEntries(S) /\ invited' = [b \in BattleGrounds |-> [team \in Teams |->
          invited[b][team] - Cardinality(InvitedAmong(S \intersect team, b))]]
  BY DEF RemovePlayers
<1>2. ASSUME NEW b \in BattleGrounds, NEW team \in Teams
      PROVE  /\ invited'[b][team] = invited[b][team] - Cardinality(InvitedAmong(S, b) \intersect team)
             /\ invited'[b][team] \in Nat /\ invited'[b][team] <= invited[b][team]
             /\ Cardinality(members'[b] \intersect team) + Cardinality(Coming(b)' \intersect team)
                    <= invited'[b][team]
  <2>1. InvitedAmong(S \intersect team, b) = InvitedAmong(S, b) \intersect team
    BY DEF InvitedAmong
  <2> DEFINE A == InvitedAmong(S, b) \intersect team
             G == Coming(b) \intersect team
             M == members[b] \intersect team
  <2>2. /\ A \subseteq G /\ G \subseteq Players /\ Coming(b)' \intersect team = G \ A
    BY <1>1, ComingWithout
  <2>6. M \subseteq Players /\ members'[b] \intersect team = M
    BY DEF TypeOK
  <2>3. invited'[b][team] = invited[b][team] - Cardinality(A)
    BY <1>1, <2>1
  <2>5. Cardinality(M) + Cardinality(G) <= invited[b][team] /\ invited[b][team] \in Nat
    BY Counts
  <2> HIDE DEF A, G, M
  <2>4. /\ Cardinality(A) <= Cardinality(G) /\ Cardinality(A) \in Nat /\ Cardinality(G) \in Nat
        /\ Cardinality(M) \in Nat
        /\ Cardinality(G \ A) = Cardinality(G) - Cardinality(A)
    BY <2>2, <2>6, Finite, Fewer, NotCounted
  <2>7. /\ invited'[b][team] \in Nat /\ invited'[b][team] <= invited[b][team]
        /\ Cardinality(M) + Cardinality(G \ A) <= invited'[b][team]
    BY <2>3, <2>4, <2>5
  <2> QED BY <2>2, <2>3, <2>6, <2>7 DEF A
<1>7. ASSUME NEW b \in BattleGrounds, NEW team \in Teams
      PROVE  invited'[b][team] \in Nat /\ invited'[b][team] <= invited[b][team]
  BY <1>2
<1>3. invited' \in [BattleGrounds -> [Teams -> Nat]]
  <2>1. invited' = [b \in BattleGrounds |-> [team \in Teams |-> invited'[b][team]]]
    BY <1>1
  <2> QED BY <1>7, <2>1
<1>4. PlacesCounted'
  <2> SUFFICES ASSUME NEW b \in BattleGrounds, NEW team \in Teams
               PROVE  /\ Cardinality(members'[b] \intersect team)
                             + Cardinality(Coming(b)' \intersect team) <= invited'[b][team]
                      /\ invited'[b][team] <= MaxPlayersPerTeam
                      /\ members'[b] \union Coming(b)' # {} => status'[b] \in {"running", "leave"}
    BY DEF PlacesCounted
  <2>1. invited[b][team] \in Nat /\ invited[b][team] <= MaxPlayersPerTeam
    BY Counts
  <2>2. Coming(b)' \subseteq Coming(b)
    BY <1>1, ComingWithout
  <2>3. Cardinality(members'[b] \intersect team) + Cardinality(Coming(b)' \intersect team)
            <= invited'[b][team]
    BY <1>2
  <2>4. invited'[b][team] <= MaxPlayersPerTeam
    BY <1>7, <2>1, Places
  <2>5. members'[b] \union Coming(b)' # {} => status'[b] \in {"running", "leave"}
    BY <2>2 DEF PlacesCounted
  <2> QED BY <2>3, <2>4, <2>5
<1>5. ASSUME NEW b \in BattleGrounds, status'[b] = "none", NEW team \in Teams
      PROVE  invited'[b][team] = 0
  <2>1. invited[b][team] = 0
    BY <1>5 DEF StatusInv
  <2> QED BY <1>7, <2>1
<1>6. ASSUME NEW b \in BattleGrounds, InvitedAmong(S, b) = {}
      PROVE  invited'[b] = invited[b]
  <2>1. \A team \in Teams : invited'[b][team] = invited[b][team]
    <3> SUFFICES ASSUME NEW team \in Teams PROVE invited'[b][team] = invited[b][team]
      OBVIOUS
    <3>1. Cardinality(InvitedAmong(S, b) \intersect team) = 0
      BY <1>6, FS_EmptySet
    <3>2. invited[b][team] \in Nat
      BY DEF TypeOK
    <3>3. invited'[b][team] = invited[b][team] - Cardinality(InvitedAmong(S, b) \intersect team)
      BY <1>2
    <3> QED BY <3>1, <3>2, <3>3
  <2>2. invited[b] \in [Teams -> Nat] /\ invited'[b] \in [Teams -> Nat]
    BY <1>3 DEF TypeOK
  <2> QED BY <2>1, <2>2
<1> QED BY <1>3, <1>4, <1>5, <1>6

\* An invitation that stays keeps its event, when the events that go are of
\* players who lose their entries.
LEMMA DroppedTimed ==
    ASSUME TypeOK, InvitationTimed, EventInv, NEW S, S \subseteq Players, DropEntries(S),
           UNCHANGED <<joins, struck>>,
           \A p \in Players : place'[p] # Offline => place[p] # Offline,
           events' \subseteq events, \A e \in events \ events' : e.player \in S
    PROVE  InvitationTimed' /\ EventInv'
<1>1. \A e \in events : e.player \in Players
  BY DEF TypeOK
<1>2. EventInv'
  BY <1>1, Dropped DEF EventInv
<1>3. InvitationTimed'
  <2> SUFFICES ASSUME NEW p \in Players,
                      groupInfo'[p] # NoGroup, invitedTo'[groupInfo'[p]] # NoBattleGround,
                      place'[p] # Offline, p \notin untimed', p \notin struck
               PROVE  [player |-> p, bg |-> invitedTo'[groupInfo'[p]],
                       time |-> removeInviteTime'[groupInfo'[p]],
                       group |-> groupInfo'[p]] \in events'
    BY DEF InvitationTimed, Invited
  <2>1. /\ groupInfo'[p] = groupInfo[p] /\ p \notin S
        /\ invitedTo'[groupInfo[p]] = invitedTo[groupInfo[p]]
        /\ removeInviteTime'[groupInfo[p]] = removeInviteTime[groupInfo[p]]
        /\ untimed' = untimed \ S
    BY Dropped
  <2>2. PICK e \in events : e = [player |-> p, bg |-> invitedTo[groupInfo[p]],
                                 time |-> removeInviteTime[groupInfo[p]], group |-> groupInfo[p]]
    BY <2>1 DEF InvitationTimed, Invited
  <2>3. e.player = p
    BY <2>2
  <2> QED BY <2>1, <2>2, <2>3
<1> QED BY <1>2, <1>3

LEMMA DroppedJoins ==
    ASSUME TypeOK, JoinInv, NEW S, S \subseteq Players, DropEntries(S), UNCHANGED joins,
           \A p \in Players : groupInfo'[p] # NoGroup => bgInstanceID'[p] = bgInstanceID[p],
           \A p \in Players : place'[p] = Offline => bgInstanceID'[p] = NoBattleGround
    PROVE  JoinInv'
<1>1. /\ \A p \in Players :
            groupInfo'[p] # NoGroup => groupInfo'[p] <= joins' /\ bgInstanceID'[p] = NoBattleGround
      /\ \A p \in Players : place'[p] = Offline => bgInstanceID'[p] = NoBattleGround
  BY Dropped DEF JoinInv
<1>2. \A g \in Groups : PlayersOf(g)' = {} => invitedTo'[g] = NoBattleGround
  BY Dropped
<1>3. \A g \in Groups : invitedTo'[g] # NoBattleGround => g <= removeInviteTime'[g]
  BY Dropped DEF JoinInv
<1> QED BY <1>1, <1>2, <1>3 DEF JoinInv

\* RemovePlayer, and the slots of the players are free again.
LEMMA Removed ==
    ASSUME TypeOK, JoinInv, SlotsAgree, KnownInv, EventInv, InvitationTimed, PlacesCounted, StatusInv,
           NEW S, S \subseteq Players, RemovePlayers(S), \A p \in S : groupInfo[p] # NoGroup,
           UNCHANGED <<joins, place, bgInstanceID, status, members, struck>>,
           \A p \in Players : slot'[p] = IF p \in S THEN NotQueued ELSE slot[p],
           events' \subseteq events, \A e \in events \ events' : e.player \in S
    PROVE  JoinInv' /\ SlotsAgree' /\ KnownInv' /\ EventInv' /\ InvitationTimed' /\ PlacesCounted'
<1>1. DropEntries(S)
  BY DEF RemovePlayers
<1>2. JoinInv' /\ EventInv' /\ InvitationTimed'
  BY <1>1, DroppedJoins, DroppedTimed DEF JoinInv
<1>3. SlotsAgree' /\ KnownInv'
  <2>1. ASSUME NEW p \in Players
        PROVE  Same(p) \/ (Knows(p)' /\ (p \notin struck' => Agrees(p)'))
    <3>1. CASE p \in S
      <4>1. /\ groupInfo'[p] = NoGroup /\ bgInstanceID'[p] = NoBattleGround
            /\ slot'[p] = NotQueued /\ p \notin offline'
        BY <1>1, <3>1, Dropped DEF JoinInv
      <4>2. SlotOf(p)' = NotQueued
        BY <4>1 DEF SlotOf
      <4>3. p \notin struck => \A b \in BattleGrounds :
                place'[p] = b <=> bgInstanceID'[p] = b /\ place'[p] # Far
        BY DEF SlotsAgree, Agrees
      <4> QED BY <4>1, <4>2, <4>3 DEF Knows, Agrees
    <3>2. CASE p \notin S
      <4>1. /\ groupInfo'[p] = groupInfo[p]
            /\ groupInfo[p] # NoGroup => invitedTo'[groupInfo[p]] = invitedTo[groupInfo[p]]
            /\ offline' = offline \ S
        BY <1>1, <3>2, Dropped
      <4> QED BY <3>2, <4>1 DEF Same
    <3> QED BY <3>1, <3>2
  <2>2. \A p \in Players, b \in BattleGrounds : place'[p] = b => p \in members'[b]
    BY DEF SlotsAgree
  <2> QED BY <2>1, <2>2, SlotsStay
<1>4. PlacesCounted'
  BY RemovedCounted
<1> QED BY <1>2, <1>3, <1>4

\* A group without an invitation does not notice what becomes of those with one.
LEMMA WaitingStay ==
    ASSUME TypeOK, NEW S, S \subseteq Players, DropEntries(S), \A p \in S : Invited(p),
           NEW team, NEW g \in Uninvited(team)'
    PROVE  g \in Uninvited(team) /\ PlayersOf(g)' = PlayersOf(g)
<1>1. g \in Groups /\ PlayersOf(g)' # {} /\ PlayersOf(g)' \subseteq team /\ invitedTo'[g] = NoBattleGround
  BY DEF Uninvited
<1>2. PlayersOf(g)' = PlayersOf(g) \ S /\ invitedTo'[g] = invitedTo[g]
  BY <1>1, Dropped
<1>3. PlayersOf(g) \intersect S = {}
  BY <1>1, <1>2 DEF PlayersOf, Invited
<1>4. PlayersOf(g)' = PlayersOf(g)
  BY <1>2, <1>3
<1> QED BY <1>1, <1>2, <1>4 DEF Uninvited

\* A battleground is offered as long as it has no more free places, and no
\* other group waits.
LEMMA OfferStays ==
    ASSUME TypeOK, OfferInv, ~scheduled' => ~scheduled, UNCHANGED <<offered, todo>>,
           Running' \subseteq Running,
           ~scheduled' => \A b \in Running' : invited'[b] = invited[b],
           \A team \in Teams : \A g \in Uninvited(team)' :
               g \in Uninvited(team) /\ PlayersOf(g)' = PlayersOf(g)
    PROVE  OfferInv'
<1> SUFFICES ASSUME ~scheduled', NEW b \in offered \intersect Running', NEW team \in Teams,
                    ~Contains(todo, b), NEW g \in Uninvited(team)'
             PROVE  Cardinality(PlayersOf(g)') > FreeSlotsForTeam(b, team)'
  BY DEF OfferInv, Contains
<1>1. FreeSlotsForTeam(b, team)' = FreeSlotsForTeam(b, team)
  BY DEF FreeSlotsForTeam
<1>2. Cardinality(PlayersOf(g)) > FreeSlotsForTeam(b, team)
  BY DEF OfferInv
<1>3. PlayersOf(g)' = PlayersOf(g)
  OBVIOUS
<1> QED BY <1>1, <1>2, <1>3

LEMMA CountsStay ==
    ASSUME PlacesCounted, UNCHANGED <<groupInfo, invitedTo, invited, status, members>>,
           \A p \in Players, b \in BattleGrounds :
               place'[p] = Far /\ bgInstanceID'[p] = b <=> place[p] = Far /\ bgInstanceID[p] = b
    PROVE  PlacesCounted'
<1>1. \A b \in BattleGrounds : Coming(b)' = Coming(b)
  BY DEF Coming, OnTheWay, InvitedAmong, Invited
<1> QED BY <1>1 DEF PlacesCounted

LEMMA AllSame ==
    ASSUME SlotsAgree, KnownInv,
           UNCHANGED <<slot, place, bgInstanceID, groupInfo, invitedTo, offline, struck, members>>
    PROVE  SlotsAgree' /\ KnownInv'
<1>1. \A p \in Players : Same(p)
  BY DEF Same
<1>2. \A p \in Players, b \in BattleGrounds : place'[p] = b => p \in members'[b]
  BY DEF SlotsAgree
<1> QED BY <1>1, <1>2, SlotsStay

LEMMA FreeStays ==
    ASSUME FreeInv, UNCHANGED <<phase, todo, status, freeSlotQueue, members>>
    PROVE  FreeInv'
BY DEF FreeInv, Running, Contains

\* A player gives the place in the queue up.
LEMMA NextLeaveQueue ==
    ASSUME QueueInv, NEW p \in Players, LeaveQueue(p)
    PROVE  QueueInv'
<1> USE DEF QueueInv
<1>1. /\ slot' = [slot EXCEPT ![p] = NotQueued] /\ RemovePlayers({p}) /\ scheduled' = TRUE
      /\ groupInfo[p] # NoGroup
      /\ UNCHANGED <<phase, todo, offered, joins, events, place, bgInstanceID, status,
                     freeSlotQueue, members, struck>>
  BY DEF LeaveQueue, updateVars, bgVars
<1>2. {p} \subseteq Players /\ DropEntries({p})
  BY <1>1 DEF RemovePlayers
<1>3. \A q \in Players : slot'[q] = IF q \in {p} THEN NotQueued ELSE slot[q]
  BY <1>1 DEF TypeOK
<1>4. JoinInv' /\ SlotsAgree' /\ KnownInv' /\ EventInv' /\ InvitationTimed' /\ PlacesCounted'
  BY <1>1, <1>2, <1>3, Removed
<1>5. /\ invited' \in [BattleGrounds -> [Teams -> Nat]]
      /\ StatusInv'
  BY <1>1, <1>2, RemovedCounted DEF StatusInv
<1>6. TypeOK'
  <2>1. scheduled' \in BOOLEAN
    BY <1>1
  <2>2. slot' \in [Players -> BattleGrounds \union {NotQueued, NoBattleGround}]
    BY <1>1 DEF TypeOK
  <2>3. {offline', untimed', struck'} \subseteq SUBSET Players
    BY <1>1, <1>2, Dropped
  <2>4. /\ groupInfo' \in [Players -> Groups \union {NoGroup}]
        /\ invitedTo' \in [Groups -> BattleGrounds \union {NoBattleGround}]
        /\ removeInviteTime' \in [Groups -> 0 .. MaxJoins]
    BY <1>2, Dropped
  <2> QED BY <1>1, <1>5, <2>1, <2>2, <2>3, <2>4, Zenon DEF TypeOK
<1>7. FreeInv' /\ OfferInv'
  BY <1>1, FreeStays DEF OfferInv
<1> QED BY <1>4, <1>5, <1>6, <1>7

\* An event fires, in time or too late.
LEMMA NextTimeOut ==
    ASSUME QueueInv, NEW e \in events, TimeOut(e)
    PROVE  QueueInv'
<1> USE DEF QueueInv
<1> DEFINE p == e.player
           g == groupInfo[p]
<1>1. /\ events' = events \ {e} /\ InWorld(p) /\ p \in Players
      /\ UNCHANGED <<phase, todo, offered, joins, place, bgInstanceID, status, freeSlotQueue,
                     members, struck>>
  BY DEF TimeOut, updateVars, bgVars, TypeOK
<1>2. FreeInv'
  BY <1>1, FreeStays
<1>3. CASE /\ slot[p] # NotQueued /\ g # NoGroup
           /\ invitedTo[g] = e.bg /\ removeInviteTime[g] = e.time
  <2>1. /\ slot' = [slot EXCEPT ![p] = NotQueued] /\ RemovePlayers({p})
        /\ scheduled' = (scheduled \/ status[e.bg] = "running")
    BY <1>3, Zenon DEF TimeOut
  <2>2. {p} \subseteq Players /\ DropEntries({p})
    BY <1>1, <2>1 DEF RemovePlayers
  <2>3. \A q \in Players : slot'[q] = IF q \in {p} THEN NotQueued ELSE slot[q]
    BY <1>1, <2>1 DEF TypeOK
  <2>4. JoinInv' /\ SlotsAgree' /\ KnownInv' /\ EventInv' /\ InvitationTimed' /\ PlacesCounted'
    BY <1>1, <1>3, <2>1, <2>2, <2>3, Removed
  <2>5. /\ invited' \in [BattleGrounds -> [Teams -> Nat]]
        /\ StatusInv'
    BY <1>1, <2>1, <2>2, RemovedCounted DEF StatusInv
  <2>6. TypeOK'
    <3>1. scheduled' \in BOOLEAN
      BY <2>1, Zenon DEF TypeOK
    <3>2. slot' \in [Players -> BattleGrounds \union {NotQueued, NoBattleGround}]
      BY <2>1 DEF TypeOK
    <3>3. {offline', untimed', struck'} \subseteq SUBSET Players
      BY <1>1, <2>2, Dropped
    <3>4. /\ groupInfo' \in [Players -> Groups \union {NoGroup}]
          /\ invitedTo' \in [Groups -> BattleGrounds \union {NoBattleGround}]
          /\ removeInviteTime' \in [Groups -> 0 .. MaxJoins]
      BY <2>2, Dropped
    <3>5. events' \subseteq [player : Players, bg : BattleGrounds, time : 0 .. MaxJoins, group : Groups]
      BY <1>1 DEF TypeOK
    <3> QED BY <1>1, <2>5, <3>1, <3>2, <3>3, <3>4, <3>5, Zenon DEF TypeOK
  <2>7. OfferInv'
    <3>1. ~scheduled' => ~scheduled /\ status[e.bg] # "running"
      BY <2>1, Zenon
    <3>2. e.bg \in BattleGrounds /\ Invited(p)
      BY <1>1, <1>3, Places DEF TypeOK, Invited
    <3>3. \A b \in BattleGrounds : b # e.bg => InvitedAmong({p}, b) = {}
      BY <1>3 DEF InvitedAmong
    <3>4. ~scheduled' => \A b \in Running' : invited'[b] = invited[b]
      BY <1>1, <2>1, <2>2, <3>1, <3>3, RemovedCounted DEF Running
    <3>5. Running' = Running
      BY <1>1 DEF Running
    <3>6. ASSUME NEW team \in Teams, NEW h \in Uninvited(team)'
          PROVE  h \in Uninvited(team) /\ PlayersOf(h)' = PlayersOf(h)
      BY <2>2, <3>2, <3>6, WaitingStay
    <3> QED BY <1>1, <3>1, <3>4, <3>5, <3>6, OfferStays
  <2> QED BY <1>2, <2>4, <2>5, <2>6, <2>7
<1>4. CASE ~ /\ slot[p] # NotQueued /\ g # NoGroup
             /\ invitedTo[g] = e.bg /\ removeInviteTime[g] = e.time
  <2>1. UNCHANGED <<slot, groupInfo, offline, invitedTo, removeInviteTime, untimed, invited, scheduled>>
    BY <1>4, Zenon DEF TimeOut, queueVars
  <2>3. JoinInv' /\ EventInv' /\ StatusInv'
    BY <1>1, <2>1 DEF JoinInv, EventInv, StatusInv, PlayersOf
  <2>8. SlotsAgree' /\ KnownInv'
    BY <1>1, <2>1, AllSame
  <2>4. PlacesCounted'
    BY <1>1, <2>1, CountsStay
  <2>5. InvitationTimed'
    <3> SUFFICES ASSUME NEW q \in Players, Invited(q), place[q] # Offline,
                        q \notin untimed, q \notin struck
                 PROVE  [player |-> q, bg |-> invitedTo[groupInfo[q]],
                         time |-> removeInviteTime[groupInfo[q]], group |-> groupInfo[q]] \in events'
      BY <1>1, <2>1 DEF InvitationTimed, Invited
    <3>1. PICK f \in events : f = [player |-> q, bg |-> invitedTo[groupInfo[q]],
                                   time |-> removeInviteTime[groupInfo[q]], group |-> groupInfo[q]]
      BY DEF InvitationTimed
    <3>2. f # e
      <4> SUFFICES ASSUME f = e PROVE FALSE
        OBVIOUS
      <4>1. q = p /\ invitedTo[g] = e.bg /\ removeInviteTime[g] = e.time
        BY <3>1
      <4>2. slot[p] = invitedTo[g] /\ g # NoGroup /\ g \in Groups /\ invitedTo[g] \in BattleGrounds
        BY <1>1, <4>1 DEF SlotsAgree, Agrees, SlotOf, Invited, TypeOK
      <4> QED BY <1>4, <4>1, <4>2, Places
    <3> QED BY <1>1, <3>1, <3>2
  <2>6. TypeOK'
    <3>1. events' \subseteq [player : Players, bg : BattleGrounds, time : 0 .. MaxJoins, group : Groups]
      BY <1>1 DEF TypeOK
    <3> QED BY <1>1, <2>1, <3>1, Zenon DEF TypeOK
  <2>7. OfferInv'
    BY <1>1, <2>1 DEF OfferInv, Running, Uninvited, PlayersOf, FreeSlotsForTeam, Contains
  <2> QED BY <1>2, <2>3, <2>4, <2>5, <2>6, <2>7, <2>8
<1> QED BY <1>3, <1>4

\* An invited player leaves the queue, and stays a guest of the battleground.
LEMMA NextEnterBattleGround ==
    ASSUME QueueInv, NEW p \in Players, EnterBattleGround(p)
    PROVE  QueueInv'
<1> USE DEF QueueInv
<1>1. PICK b : /\ b = invitedTo[groupInfo[p]]
               /\ bgInstanceID' = [bgInstanceID EXCEPT ![p] = b]
               /\ place' = [place EXCEPT ![p] = Far] /\ DropEntries({p})
               /\ InWorld(p) /\ Invited(p) /\ slot[p] \notin {NotQueued, NoBattleGround}
               /\ status[b] \in {"running", "leave"}
               /\ UNCHANGED <<phase, todo, offered, joins, scheduled, events, slot, status,
                              freeSlotQueue, invited, members, struck>>
  BY DEF EnterBattleGround, updateVars, bgVars
<1>2. /\ b \in BattleGrounds /\ groupInfo[p] # NoGroup /\ groupInfo[p] \in Groups
      /\ slot[p] = b /\ bgInstanceID[p] = NoBattleGround /\ {p} \subseteq Players
  BY <1>1 DEF Invited, InWorld, TypeOK, KnownInv, Knows, SlotOf, JoinInv
<1>3. /\ \A q \in Players : /\ bgInstanceID'[q] = IF q = p THEN b ELSE bgInstanceID[q]
                            /\ place'[q] = IF q = p THEN Far ELSE place[q]
      /\ bgInstanceID' \in [Players -> BattleGrounds \union {NoBattleGround}]
      /\ place' \in [Players -> BattleGrounds \union {World, Far, Offline}]
  BY <1>1, <1>2 DEF TypeOK
<1>4. groupInfo'[p] = NoGroup
  BY <1>1, <1>2, Dropped
<1>5. JoinInv' /\ EventInv' /\ InvitationTimed'
  <2>1. /\ \A q \in Players : groupInfo'[q] # NoGroup => bgInstanceID'[q] = bgInstanceID[q]
        /\ \A q \in Players : place'[q] = Offline => bgInstanceID'[q] = NoBattleGround
        /\ \A q \in Players : place'[q] # Offline => place[q] # Offline
    BY <1>1, <1>3, <1>4, Places DEF JoinInv, InWorld
  <2> QED BY <1>1, <1>2, <2>1, DroppedJoins, DroppedTimed
<1>6. SlotsAgree' /\ KnownInv'
  <2>1. offline' = offline \ {p}
    BY <1>1, <1>2, Dropped
  <2>2. ASSUME NEW q \in Players
        PROVE  Same(q) \/ (Knows(q)' /\ (q \notin struck' => Agrees(q)'))
    <3>1. CASE q = p
      <4>1. /\ slot'[q] = b /\ SlotOf(q)' = b /\ bgInstanceID'[q] = b /\ place'[q] = Far
            /\ q \notin offline' /\ groupInfo'[q] = NoGroup
        BY <1>1, <1>2, <1>3, <1>4, <2>1, <3>1, Places DEF SlotOf
      <4> QED BY <4>1, Places DEF Knows, Agrees
    <3>2. CASE q # p
      <4>1. /\ groupInfo'[q] = groupInfo[q]
            /\ groupInfo[q] # NoGroup => invitedTo'[groupInfo[q]] = invitedTo[groupInfo[q]]
        BY <1>1, <1>2, <3>2, Dropped
      <4> QED BY <1>1, <1>3, <2>1, <3>2, <4>1 DEF Same
    <3> QED BY <3>1, <3>2
  <2>3. \A q \in Players, c \in BattleGrounds : place'[q] = c => q \in members'[c]
    BY <1>1, <1>3, Places DEF SlotsAgree
  <2> QED BY <2>2, <2>3, SlotsStay
<1>7. PlacesCounted'
  <2>1. ASSUME NEW c \in BattleGrounds
        PROVE  Coming(c)' = Coming(c)
    <3>1. ASSUME NEW q \in Players
          PROVE  (\/ place'[q] = Far /\ bgInstanceID'[q] = c
                  \/ /\ groupInfo'[q] # NoGroup /\ invitedTo'[groupInfo'[q]] # NoBattleGround
                     /\ invitedTo'[groupInfo'[q]] = c)
                 <=> (\/ place[q] = Far /\ bgInstanceID[q] = c
                      \/ /\ groupInfo[q] # NoGroup /\ invitedTo[groupInfo[q]] # NoBattleGround
                         /\ invitedTo[groupInfo[q]] = c)
      <4>1. CASE q = p
        BY <1>1, <1>2, <1>3, <1>4, <4>1, Places
      <4>2. CASE q # p
        <5>1. /\ groupInfo'[q] = groupInfo[q]
              /\ groupInfo[q] # NoGroup => invitedTo'[groupInfo[q]] = invitedTo[groupInfo[q]]
          BY <1>1, <1>2, <4>2, Dropped
        <5> QED BY <1>3, <4>2, <5>1
      <4> QED BY <4>1, <4>2
    <3> QED BY <3>1 DEF Coming, OnTheWay, InvitedAmong, Invited
  <2> QED BY <1>1, <2>1 DEF PlacesCounted
<1>8. StatusInv' /\ FreeInv'
  BY <1>1, FreeStays DEF StatusInv
<1>9. OfferInv'
  <2>1. \A q \in {p} : Invited(q)
    BY <1>1
  <2>2. ASSUME NEW team \in Teams, NEW h \in Uninvited(team)'
        PROVE  h \in Uninvited(team) /\ PlayersOf(h)' = PlayersOf(h)
    BY <1>1, <1>2, <2>1, <2>2, WaitingStay
  <2>3. Running' = Running
    BY <1>1 DEF Running
  <2> QED BY <1>1, <2>2, <2>3, OfferStays
<1>10. TypeOK'
  <2>1. /\ {offline', untimed', struck'} \subseteq SUBSET Players
        /\ groupInfo' \in [Players -> Groups \union {NoGroup}]
        /\ invitedTo' \in [Groups -> BattleGrounds \union {NoBattleGround}]
        /\ removeInviteTime' \in [Groups -> 0 .. MaxJoins]
    BY <1>1, <1>2, Dropped
  <2> QED BY <1>1, <1>3, <2>1, Zenon DEF TypeOK
<1> QED BY <1>5, <1>6, <1>7, <1>8, <1>9, <1>10

\* Who is in a battleground counts: a full one has no free slots.
LEMMA FullOnes ==
    ASSUME TypeOK', PlacesCounted', NEW b \in BattleGrounds, NEW team \in Teams,
           Cardinality(members'[b]) >= 2 * MaxPlayersPerTeam
    PROVE  FreeSlotsForTeam(b, team)' = 0
<1>1. members'[b] \subseteq Players /\ Coming(b)' \subseteq Players
  BY DEF Coming, OnTheWay, InvitedAmong, TypeOK
<1>2. ASSUME NEW t \in Teams
      PROVE  /\ Cardinality(members'[b] \intersect t) <= invited'[b][t]
             /\ Cardinality(members'[b] \intersect t) <= MaxPlayersPerTeam
             /\ invited'[b][t] \in Nat
  <2>1. members'[b] \intersect t \subseteq Players /\ Coming(b)' \intersect t \subseteq Players
    BY <1>1
  <2>2. /\ Cardinality(members'[b] \intersect t) \in Nat
        /\ Cardinality(Coming(b)' \intersect t) \in Nat
    BY <2>1, Finite
  <2>3. /\ Cardinality(members'[b] \intersect t) + Cardinality(Coming(b)' \intersect t)
               <= invited'[b][t]
        /\ invited'[b][t] <= MaxPlayersPerTeam /\ invited'[b][t] \in Nat
    <3>1. invited'[b][t] \in Nat
      BY DEF TypeOK
    <3> QED BY <3>1 DEF PlacesCounted
  <2> QED BY <2>2, <2>3, Places
<1>3. Cardinality(members'[b] \intersect team) = MaxPlayersPerTeam
  BY <1>1, <1>2, BothTeams, Places
<1>4. MaxPlayersPerTeam <= invited'[b][team] /\ invited'[b][team] \in Nat
  BY <1>2, <1>3
<1>5. ~(invited'[b][team] < MaxPlayersPerTeam)
  BY <1>4, Places
<1> QED BY <1>5 DEF FreeSlotsForTeam

\* An update begins with all battlegrounds that have free slots.
LEMMA NextBeginUpdate ==
    ASSUME QueueInv, NEW removed \in SUBSET Players, BeginUpdate(removed)
    PROVE  QueueInv'
<1> USE DEF QueueInv
<1>1. /\ phase = "maps" /\ scheduled' = FALSE /\ removed \subseteq offline /\ RemovePlayers(removed)
      /\ offered' = Running
      /\ UNCHANGED <<joins, events, place, slot, bgInstanceID, status, freeSlotQueue, members,
                     struck>>
  BY DEF BeginUpdate, bgVars
<1>2. \/ /\ \E p \in Players : groupInfo'[p] # NoGroup
         /\ phase' = "fill" /\ todo' = freeSlotQueue
      \/ /\ \A p \in Players : groupInfo'[p] = NoGroup
         /\ phase' = "maps" /\ todo' = <<>>
  BY Zenon DEF BeginUpdate
<1>3. removed \subseteq Players /\ DropEntries(removed)
  BY <1>1 DEF RemovePlayers
<1>4. \A p \in removed : groupInfo[p] # NoGroup /\ slot[p] = NotQueued
  BY <1>1, <1>3 DEF KnownInv, Knows, SlotOf
<1>5. \A p \in Players : slot'[p] = IF p \in removed THEN NotQueued ELSE slot[p]
  BY <1>1, <1>4
<1>6. JoinInv' /\ SlotsAgree' /\ KnownInv' /\ EventInv' /\ InvitationTimed' /\ PlacesCounted'
  BY <1>1, <1>3, <1>4, <1>5, Removed
<1>7. /\ invited' \in [BattleGrounds -> [Teams -> Nat]]
      /\ StatusInv'
  BY <1>1, <1>3, RemovedCounted DEF StatusInv, Running
<1>8. TypeOK'
  <2>1. scheduled' \in BOOLEAN /\ offered' \subseteq BattleGrounds /\ phase' \in {"maps", "fill"}
    BY <1>1, <1>2 DEF Running
  <2>2. todo' \in Seq(BattleGrounds)
    <3>1. <<>> \in Seq(BattleGrounds) /\ freeSlotQueue \in Seq(BattleGrounds)
      BY DEF TypeOK
    <3> QED BY <1>2, <3>1
  <2>3. /\ {offline', untimed', struck'} \subseteq SUBSET Players
        /\ groupInfo' \in [Players -> Groups \union {NoGroup}]
        /\ invitedTo' \in [Groups -> BattleGrounds \union {NoBattleGround}]
        /\ removeInviteTime' \in [Groups -> 0 .. MaxJoins]
    BY <1>1, <1>3, Dropped
  <2> QED BY <1>1, <1>7, <2>1, <2>2, <2>3, Zenon DEF TypeOK
<1>9. FreeInv'
  BY <1>1, <1>2 DEF FreeInv, Running, Contains
<1>10. OfferInv'
  <2> SUFFICES ASSUME NEW b \in Running, NEW team \in Teams, ~Contains(todo', b),
                      NEW g \in Uninvited(team)'
               PROVE  Cardinality(PlayersOf(g)') > FreeSlotsForTeam(b, team)'
    BY <1>1 DEF OfferInv, Running, Contains
  <2>1. b \in BattleGrounds /\ g \in Groups /\ PlayersOf(g)' # {} /\ PlayersOf(g)' \subseteq Players
    BY DEF Running, Uninvited, PlayersOf
  <2>2. \E p \in Players : groupInfo'[p] # NoGroup
    BY <2>1, Places DEF PlayersOf
  <2>3. todo' = freeSlotQueue
    BY <1>2, <2>2
  <2>4. Cardinality(members'[b]) >= 2 * MaxPlayersPerTeam
    BY <1>1, <2>3 DEF FreeInv
  <2>5. FreeSlotsForTeam(b, team)' = 0
    BY <1>6, <1>8, <2>1, <2>4, FullOnes
  <2>6. Cardinality(PlayersOf(g)') >= 1 /\ Cardinality(PlayersOf(g)') \in Nat
    BY <2>1, NonEmpty, Finite
  <2> QED BY <2>5, <2>6
<1> QED BY <1>6, <1>7, <1>8, <1>9, <1>10

-----------------------------------------------------------------------------
(* Groups that are invited. *)

\* The players of a team that are called are those of its own selection.
LEMMA SentByTeam ==
    ASSUME NEW sent, \A t \in Teams : sent[t] \subseteq Uninvited(t), NEW team \in Teams
    PROVE  {p \in Players : groupInfo[p] \in UNION {sent[t] : t \in Teams}} \intersect team
               = {p \in Players : groupInfo[p] \in sent[team]}
<1>1. ASSUME NEW t \in Teams, NEW p \in Players, groupInfo[p] \in sent[t]
      PROVE  p \in t
  <2>1. PlayersOf(groupInfo[p]) \subseteq t
    BY <1>1 DEF Uninvited
  <2> QED BY <2>1 DEF PlayersOf
<1>2. ASSUME NEW p \in Players, p \in team, groupInfo[p] \in UNION {sent[t] : t \in Teams}
      PROVE  groupInfo[p] \in sent[team]
  <2>1. PICK t \in Teams : groupInfo[p] \in sent[t]
    BY <1>2
  <2>2. p \in t
    BY <1>1, <2>1
  <2>3. t = team
    BY <1>2, <2>2, TeamsApart
  <2> QED BY <2>1, <2>3
<1> QED BY <1>1, <1>2

\* Groups that wait are invited to a battleground, open or just opened, that has
\* room for them all.
Sends(pool, b) ==
    /\ b \in BattleGrounds /\ InviteGroupsToBG(pool, b)
    /\ \A g \in pool : g \in Groups /\ PlayersOf(g) # {} /\ invitedTo[g] = NoBattleGround
    /\ UNCHANGED <<groupInfo, offline, place, bgInstanceID, members, untimed, struck, joins>>
    /\ status'[b] \in {"running", "leave"}
    /\ \A c \in BattleGrounds : c # b => status'[c] = status[c]
    /\ \A team \in Teams :
          invited[b][team] + Cardinality({p \in Players : groupInfo[p] \in pool} \intersect team)
              <= MaxPlayersPerTeam

\* They have the places then, and nobody else has lost one.
Sent(pool, b) ==
    /\ invitedTo' \in [Groups -> BattleGrounds \union {NoBattleGround}]
    /\ removeInviteTime' \in [Groups -> 0 .. MaxJoins]
    /\ slot' \in [Players -> BattleGrounds \union {NotQueued, NoBattleGround}]
    /\ events' \subseteq [player : Players, bg : BattleGrounds, time : 0 .. MaxJoins, group : Groups]
    /\ invited' \in [BattleGrounds -> [Teams -> Nat]]
    /\ JoinInv' /\ SlotsAgree' /\ KnownInv' /\ EventInv' /\ InvitationTimed' /\ PlacesCounted'
    /\ \A c \in BattleGrounds : c # b => invited'[c] = invited[c]
    /\ \A team \in Teams : invited'[b][team] = invited[b][team]
           + Cardinality({p \in Players : groupInfo[p] \in pool} \intersect team)
    /\ \A g \in Groups : invitedTo'[g] = IF g \in pool THEN b ELSE invitedTo[g]

LEMMA InvitedGroups ==
    ASSUME TypeOK, JoinInv, SlotsAgree, KnownInv, EventInv, InvitationTimed, PlacesCounted,
           NEW b, NEW pool, Sends(pool, b)
    PROVE  Sent(pool, b)
<1> USE DEF Sends
<1> DEFINE called == {p \in Players : groupInfo[p] \in pool}
           online == {p \in called : place[p] # Offline}
           Event(p) == [player |-> p, bg |-> b, time |-> joins, group |-> groupInfo[p]]
<1>1. /\ invitedTo' = [g \in Groups |-> IF g \in pool THEN b ELSE invitedTo[g]]
      /\ removeInviteTime' = [g \in Groups |-> IF g \in pool THEN joins ELSE removeInviteTime[g]]
      /\ slot' = [p \in Players |-> IF p \in online /\ slot[p] # NotQueued THEN b ELSE slot[p]]
      /\ events' = events \union {Event(p) : p \in online}
      /\ invited' = [invited EXCEPT ![b] = [team \in Teams |->
            @[team] + Cardinality(called \intersect team)]]
  BY DEF InviteGroupsToBG
<1>2. /\ \A p \in called : p \in Players /\ groupInfo[p] \in Groups /\ groupInfo[p] \in pool
                           /\ groupInfo[p] # NoGroup /\ groupInfo[p] <= joins
                           /\ ~Invited(p) /\ bgInstanceID[p] = NoBattleGround
      /\ \A p \in Players : groupInfo[p] \in pool <=> p \in called
      /\ called \subseteq Players /\ online \subseteq called
      /\ \A p \in Players : p \in online <=> p \in called /\ place[p] # Offline
  BY Places DEF JoinInv, Invited
<1> HIDE DEF called, online
<1>3. joins \in 0 .. MaxJoins /\ joins \in Nat
  BY DEF TypeOK
<1>4. /\ invitedTo' \in [Groups -> BattleGrounds \union {NoBattleGround}]
      /\ removeInviteTime' \in [Groups -> 0 .. MaxJoins]
      /\ slot' \in [Players -> BattleGrounds \union {NotQueued, NoBattleGround}]
  BY <1>1, <1>3 DEF TypeOK
<1>5. events' \subseteq [player : Players, bg : BattleGrounds, time : 0 .. MaxJoins, group : Groups]
  <2>1. ASSUME NEW p \in online
        PROVE  Event(p) \in [player : Players, bg : BattleGrounds, time : 0 .. MaxJoins, group : Groups]
    BY <1>2, <1>3, <2>1
  <2> HIDE DEF Event
  <2> QED BY <1>1, <2>1 DEF TypeOK
<1>6. /\ \A c \in BattleGrounds : c # b => invited'[c] = invited[c]
      /\ \A team \in Teams : invited'[b][team] = invited[b][team] + Cardinality(called \intersect team)
  BY <1>1 DEF TypeOK
<1>7. ASSUME NEW team \in Teams
      PROVE  Cardinality(called \intersect team) \in Nat
  BY <1>2, Finite
<1>8. invited' \in [BattleGrounds -> [Teams -> Nat]]
  <2>1. \A team \in Teams : invited[b][team] + Cardinality(called \intersect team) \in Nat
    BY <1>7 DEF TypeOK
  <2>2. [team \in Teams |-> invited[b][team] + Cardinality(called \intersect team)] \in [Teams -> Nat]
    BY <2>1
  <2> QED BY <1>1, <2>2 DEF TypeOK
<1>9. JoinInv'
  <2>1. \A g \in Groups : PlayersOf(g)' = PlayersOf(g)
    BY DEF PlayersOf
  <2>2. \A g \in Groups : PlayersOf(g) = {} => invitedTo'[g] = NoBattleGround
    BY <1>1 DEF JoinInv
  <2>3. \A g \in Groups : invitedTo'[g] # NoBattleGround => g <= removeInviteTime'[g]
    <3>1. \A g \in pool : g <= joins
      <4> SUFFICES ASSUME NEW g \in pool PROVE g <= joins
        OBVIOUS
      <4>1. PICK p \in PlayersOf(g) : TRUE
        OBVIOUS
      <4> QED BY <4>1 DEF PlayersOf, JoinInv, NoGroup, Groups
    <3> QED BY <1>1, <3>1 DEF JoinInv
  <2> QED BY <2>1, <2>2, <2>3 DEF JoinInv
<1>10. SlotsAgree' /\ KnownInv'
  <2>1. ASSUME NEW p \in Players
        PROVE  Same(p) \/ (Knows(p)' /\ (p \notin struck' => Agrees(p)'))
    <3>1. CASE p \in online
      <4>1. /\ slot'[p] = IF slot[p] # NotQueued THEN b ELSE slot[p]
            /\ p \in called /\ place[p] # Offline
        BY <1>1, <1>2, <3>1
      <4>2. SlotOf(p)' = b /\ SlotOf(p) = NoBattleGround
        BY <1>1, <1>2, <4>1 DEF SlotOf, Invited
      <4>3. Knows(p)'
        BY <1>2, <4>1, <4>2 DEF Knows, KnownInv
      <4>4. p \notin struck' => Agrees(p)'
        BY <1>2, <4>1, <4>2, Places DEF Agrees, SlotsAgree
      <4> QED BY <4>3, <4>4
    <3>2. CASE p \in called /\ p \notin online
      <4>1. slot'[p] = slot[p] /\ place[p] = Offline
        BY <1>1, <1>2, <3>2
      <4>2. SlotOf(p)' = SlotOf(p)
        BY <4>1 DEF SlotOf
      <4> QED BY <4>1, <4>2 DEF Knows, KnownInv, Agrees, SlotsAgree
    <3>3. CASE p \notin called
      <4>1. groupInfo[p] # NoGroup => groupInfo[p] \in Groups /\ groupInfo[p] \notin pool
        BY <1>2, <3>3 DEF TypeOK
      <4>2. groupInfo[p] # NoGroup => invitedTo'[groupInfo[p]] = invitedTo[groupInfo[p]]
        BY <1>1, <4>1
      <4>3. slot'[p] = slot[p]
        BY <1>1, <1>2, <3>3
      <4> QED BY <4>2, <4>3 DEF Same
    <3> QED BY <3>1, <3>2, <3>3
  <2>2. \A p \in Players, c \in BattleGrounds : place'[p] = c => p \in members'[c]
    BY DEF SlotsAgree
  <2> QED BY <2>1, <2>2, SlotsStay
<1>11. EventInv'
  <2> SUFFICES ASSUME NEW e \in events'
               PROVE  /\ e.time <= joins
                      /\ groupInfo[e.player] \in {NoGroup, e.group} \/ e.time < groupInfo[e.player]
    BY DEF EventInv
  <2>1. CASE e \in events
    BY <2>1 DEF EventInv
  <2>2. CASE e \notin events
    <3>1. PICK p \in online : e = Event(p)
      BY <1>1, <2>2
    <3> QED BY <1>3, <3>1
  <2> QED BY <2>1, <2>2
<1>12. InvitationTimed'
  <2> SUFFICES ASSUME NEW p \in Players,
                      groupInfo[p] # NoGroup, invitedTo'[groupInfo[p]] # NoBattleGround,
                      place[p] # Offline, p \notin untimed, p \notin struck
               PROVE  [player |-> p, bg |-> invitedTo'[groupInfo[p]],
                       time |-> removeInviteTime'[groupInfo[p]], group |-> groupInfo[p]] \in events'
    BY DEF InvitationTimed, Invited
  <2>1. groupInfo[p] \in Groups
    BY DEF TypeOK
  <2>2. CASE p \in called
    <3>1. p \in online /\ invitedTo'[groupInfo[p]] = b /\ removeInviteTime'[groupInfo[p]] = joins
      BY <1>1, <1>2, <2>1, <2>2
    <3>2. Event(p) \in events'
      BY <1>1, <3>1
    <3> QED BY <3>1, <3>2
  <2>3. CASE p \notin called
    <3>1. /\ invitedTo'[groupInfo[p]] = invitedTo[groupInfo[p]]
          /\ removeInviteTime'[groupInfo[p]] = removeInviteTime[groupInfo[p]]
      BY <1>1, <1>2, <2>1, <2>3
    <3>2. [player |-> p, bg |-> invitedTo[groupInfo[p]],
           time |-> removeInviteTime[groupInfo[p]], group |-> groupInfo[p]] \in events
      BY <3>1 DEF InvitationTimed, Invited
    <3>3. [player |-> p, bg |-> invitedTo'[groupInfo[p]],
           time |-> removeInviteTime'[groupInfo[p]], group |-> groupInfo[p]] \in events
      BY <3>1, <3>2, Zenon
    <3> HIDE DEF Event
    <3> QED BY <1>1, <3>3
  <2> QED BY <2>2, <2>3
<1>13. PlacesCounted'
  <2> SUFFICES ASSUME NEW c \in BattleGrounds, NEW team \in Teams
               PROVE  /\ Cardinality(members'[c] \intersect team)
                             + Cardinality(Coming(c)' \intersect team) <= invited'[c][team]
                      /\ invited'[c][team] <= MaxPlayersPerTeam
                      /\ members'[c] \union Coming(c)' # {} => status'[c] \in {"running", "leave"}
    BY DEF PlacesCounted
  <2>1. \A p \in Players :
            (/\ groupInfo[p] # NoGroup /\ invitedTo'[groupInfo[p]] # NoBattleGround
             /\ invitedTo'[groupInfo[p]] = c)
            <=> \/ /\ groupInfo[p] # NoGroup /\ invitedTo[groupInfo[p]] # NoBattleGround
                   /\ invitedTo[groupInfo[p]] = c
                \/ p \in called /\ c = b
    <3> SUFFICES ASSUME NEW p \in Players, groupInfo[p] # NoGroup
                 PROVE  (/\ invitedTo'[groupInfo[p]] # NoBattleGround
                         /\ invitedTo'[groupInfo[p]] = c)
                        <=> \/ /\ invitedTo[groupInfo[p]] # NoBattleGround
                               /\ invitedTo[groupInfo[p]] = c
                            \/ p \in called /\ c = b
      BY <1>2
    <3>1. groupInfo[p] \in Groups
      BY DEF TypeOK
    <3>2. invitedTo'[groupInfo[p]] = IF p \in called THEN b ELSE invitedTo[groupInfo[p]]
      BY <1>1, <1>2, <3>1
    <3> QED BY <1>2, <3>2, Places DEF Invited
  <2>2. Coming(c)' = IF c = b THEN Coming(c) \union called ELSE Coming(c)
    BY <1>2, <2>1 DEF Coming, OnTheWay, InvitedAmong, Invited
  <2> DEFINE M == members[c] \intersect team
  <2>3. /\ Cardinality(M) + Cardinality(Coming(c) \intersect team) <= invited[c][team]
        /\ invited[c][team] <= MaxPlayersPerTeam /\ invited[c][team] \in Nat
        /\ members[c] \union Coming(c) # {} => status[c] \in {"running", "leave"}
    BY Counts
  <2>6. members'[c] \intersect team = M /\ M \subseteq Players
    BY DEF TypeOK
  <2> HIDE DEF M
  <2>4. CASE c = b
    <3> DEFINE G == Coming(c) \intersect team
               N == called \intersect team
    <3>1. Coming(c)' \intersect team = G \union N /\ G \subseteq Players /\ N \subseteq Players
      BY <1>2, <2>2, <2>4 DEF Coming, OnTheWay, InvitedAmong
    <3>2. G \intersect N = {}
      BY <1>2, <2>4, Places DEF Coming, OnTheWay, InvitedAmong
    <3>4. /\ Cardinality(M) + Cardinality(G) <= invited[c][team]
          /\ invited'[c][team] = invited[c][team] + Cardinality(N)
      BY <1>6, <2>3, <2>4
    <3> HIDE DEF G, N
    <3>3. /\ Cardinality(G \union N) = Cardinality(G) + Cardinality(N)
          /\ Cardinality(G) \in Nat /\ Cardinality(N) \in Nat /\ Cardinality(M) \in Nat
      BY <2>6, <3>1, <3>2, Together, Finite
    <3>5. Cardinality(members'[c] \intersect team) + Cardinality(Coming(c)' \intersect team)
              <= invited'[c][team]
      <4>1. Cardinality(M) + Cardinality(G \union N) <= invited'[c][team]
        BY <2>3, <3>3, <3>4
      <4> QED BY <2>6, <3>1, <4>1
    <3>6. invited'[c][team] <= MaxPlayersPerTeam
      BY <1>6, <2>4 DEF called
    <3> QED BY <2>4, <3>5, <3>6
  <2>5. CASE c # b
    BY <1>6, <2>2, <2>3, <2>5, <2>6
  <2> QED BY <2>4, <2>5
<1>14. \A g \in Groups : invitedTo'[g] = IF g \in pool THEN b ELSE invitedTo[g]
  BY <1>1
<1> QED BY <1>4, <1>5, <1>6, <1>8, <1>9, <1>10, <1>11, <1>12, <1>13, <1>14 DEF called, Sent

\* Who has been invited does not wait any more.
LEMMA WaitingFewer ==
    ASSUME NEW pool, NEW b \in BattleGrounds, UNCHANGED groupInfo,
           \A g \in Groups : invitedTo'[g] = IF g \in pool THEN b ELSE invitedTo[g],
           NEW team, NEW g \in Uninvited(team)'
    PROVE  g \in Uninvited(team) \ pool /\ PlayersOf(g)' = PlayersOf(g)
<1>1. PlayersOf(g)' = PlayersOf(g)
  BY DEF PlayersOf
<1> QED BY <1>1, Places DEF Uninvited

\* RemoveFirst, of a sequence without repetitions.
LEMMA WithoutFirst ==
    ASSUME NEW S, NEW q \in Seq(S), NEW b,
           \A i, j \in 1 .. Len(q) : q[i] = q[j] => i = j
    PROVE  /\ RemoveFirst(q, b) \in Seq(S)
           /\ \A k \in 1 .. Len(RemoveFirst(q, b)) :
                 /\ RemoveFirst(q, b)[k] # b
                 /\ \E i \in 1 .. Len(q) : RemoveFirst(q, b)[k] = q[i]
                 /\ \A l \in 1 .. Len(RemoveFirst(q, b)) :
                       RemoveFirst(q, b)[k] = RemoveFirst(q, b)[l] => k = l
           /\ \A c : c # b /\ Contains(q, c) => Contains(RemoveFirst(q, b), c)
<1>1. CASE ~ \E i \in 1 .. Len(q) : q[i] = b
  <2>1. RemoveFirst(q, b) = q
    BY <1>1 DEF RemoveFirst
  <2> QED BY <1>1, <2>1
<1>2. CASE \E i \in 1 .. Len(q) : q[i] = b
  <2>1. PICK i \in 1 .. Len(q) : q[i] = b
    BY <1>2
  <2>2. {j \in 1 .. Len(q) : q[j] = b} = {i} /\ i \in Int
    BY <2>1
  <2>3. Min({i}) = i
    BY <2>2 DEF Min
  <2>4. SelectInSeq(q, LAMBDA v : v = b) = i
    BY <2>2, <2>3, Zenon DEF SelectInSeq
  <2> DEFINE r == SubSeq(q, 1, i - 1) \o SubSeq(q, i + 1, Len(q))
  <2>5. RemoveFirst(q, b) = r
    BY <1>2, <2>4 DEF RemoveFirst, RemoveAt
  <2>6. /\ r \in Seq(S) /\ Len(r) = Len(q) - 1 /\ Len(q) \in Nat
        /\ \A k \in 1 .. Len(q) - 1 : r[k] = IF k < i THEN q[k] ELSE q[k + 1]
    <3>1. Len(q) \in Nat /\ i \in 1 .. Len(q)
      OBVIOUS
    <3>2. /\ SubSeq(q, 1, i - 1) \in Seq(S) /\ Len(SubSeq(q, 1, i - 1)) = i - 1
          /\ \A k \in 1 .. i - 1 : SubSeq(q, 1, i - 1)[k] = q[k]
      BY <3>1
    <3>3. /\ SubSeq(q, i + 1, Len(q)) \in Seq(S) /\ Len(SubSeq(q, i + 1, Len(q))) = Len(q) - i
          /\ \A k \in 1 .. Len(q) - i : SubSeq(q, i + 1, Len(q))[k] = q[k + i]
      BY <3>1
    <3>4. /\ r \in Seq(S) /\ Len(r) = (i - 1) + (Len(q) - i)
          /\ \A k \in 1 .. Len(r) : r[k] = IF k <= i - 1 THEN SubSeq(q, 1, i - 1)[k]
                                           ELSE SubSeq(q, i + 1, Len(q))[k - (i - 1)]
      <4>1. PICK before : before = SubSeq(q, 1, i - 1)
        OBVIOUS
      <4>2. PICK after : after = SubSeq(q, i + 1, Len(q))
        OBVIOUS
      <4>0. before \in Seq(S) /\ after \in Seq(S)
        BY <3>2, <3>3, <4>1, <4>2
      <4>3. /\ before \o after \in Seq(S) /\ Len(before \o after) = Len(before) + Len(after)
            /\ \A k \in 1 .. Len(before) + Len(after) :
                  (before \o after)[k] = IF k <= Len(before) THEN before[k]
                                         ELSE after[k - Len(before)]
        BY <4>0, ConcatProperties
      <4> QED BY <3>2, <3>3, <4>1, <4>2, <4>3
    <3> HIDE DEF r
    <3>5. Len(r) = Len(q) - 1
      BY <3>1, <3>4
    <3>6. ASSUME NEW k \in 1 .. Len(q) - 1
          PROVE  r[k] = IF k < i THEN q[k] ELSE q[k + 1]
      <4>1. CASE k < i
        BY <3>1, <3>2, <3>4, <3>5, <4>1
      <4>2. CASE ~(k < i)
        <5>1. k - (i - 1) \in 1 .. Len(q) - i /\ (k - (i - 1)) + i = k + 1 /\ ~(k <= i - 1)
          BY <3>1, <4>2
        <5> QED BY <3>3, <3>4, <3>5, <4>2, <5>1
      <4> QED BY <4>1, <4>2
    <3> QED BY <3>1, <3>4, <3>5, <3>6
  <2> HIDE DEF r
  <2>7. ASSUME NEW k \in 1 .. Len(r)
        PROVE  \E m \in 1 .. Len(q) : /\ r[k] = q[m] /\ m # i
                                      /\ m = IF k < i THEN k ELSE k + 1
    <3>1. CASE k < i
      BY <2>6, <3>1
    <3>2. CASE ~(k < i)
      <4>1. k + 1 \in 1 .. Len(q) /\ k + 1 # i /\ r[k] = q[k + 1]
        BY <2>6, <3>2
      <4> QED BY <3>2, <4>1
    <3> QED BY <3>1, <3>2
  <2>8. ASSUME NEW k \in 1 .. Len(r)
        PROVE  r[k] # b /\ \E m \in 1 .. Len(q) : r[k] = q[m]
    BY <2>1, <2>7
  <2>9. ASSUME NEW k \in 1 .. Len(r), NEW l \in 1 .. Len(r), r[k] = r[l]
        PROVE  k = l
    <3>1. PICK m \in 1 .. Len(q) : r[k] = q[m] /\ m = IF k < i THEN k ELSE k + 1
      BY <2>7
    <3>2. PICK n \in 1 .. Len(q) : r[l] = q[n] /\ n = IF l < i THEN l ELSE l + 1
      BY <2>7
    <3>3. m = n
      BY <2>9, <3>1, <3>2
    <3> QED BY <2>6, <3>1, <3>2, <3>3
  <2>10. ASSUME NEW c, c # b, Contains(q, c)
         PROVE  Contains(r, c)
    <3>1. PICK m \in 1 .. Len(q) : q[m] = c /\ m # i
      BY <2>1, <2>10 DEF Contains
    <3>2. CASE m < i
      <4>1. m \in 1 .. Len(r) /\ r[m] = c
        BY <2>6, <3>1, <3>2
      <4> QED BY <4>1 DEF Contains
    <3>3. CASE ~(m < i)
      <4>1. m - 1 \in 1 .. Len(r) /\ ~(m - 1 < i) /\ (m - 1) + 1 = m
        BY <2>6, <3>1, <3>3
      <4>2. r[m - 1] = c
        BY <2>6, <3>1, <4>1
      <4> QED BY <4>1, <4>2 DEF Contains
    <3> QED BY <3>2, <3>3
  <2> QED BY <2>5, <2>6, <2>8, <2>9, <2>10
<1> QED BY <1>1, <1>2

\* As many are invited as there are places, at most.
LEMMA CountOfInvited ==
    ASSUME TypeOK, PlacesCounted, NEW b \in BattleGrounds, NEW team \in Teams
    PROVE  invited[b][team] \in Nat /\ invited[b][team] <= MaxPlayersPerTeam
BY DEF TypeOK, PlacesCounted

\* A battleground is filled from the groups that wait; no other group has room
\* in it.
LEMMA NextFillPlayersToBG ==
    ASSUME QueueInv, FillPlayersToBG
    PROVE  QueueInv'
<1> USE DEF QueueInv
<1>1. todo \in Seq(BattleGrounds) /\ todo # <<>> /\ phase = "fill"
  BY DEF FillPlayersToBG, TypeOK
<1>2. PICK b : b = Head(todo)
  OBVIOUS
<1> DEFINE sent == [team \in Teams |-> Selected(team, MaxPlayersPerTeam, FreeSlotsForTeam(b, team))]
           pool == UNION {sent[team] : team \in Teams}
<1>3. InviteGroupsToBG(UNION {Selected(team, MaxPlayersPerTeam, FreeSlotsForTeam(b, team)) :
                                  team \in Teams}, b)
  BY <1>2, Zenon DEF FillPlayersToBG
<1>4. {Selected(team, MaxPlayersPerTeam, FreeSlotsForTeam(b, team)) : team \in Teams}
          = {sent[team] : team \in Teams}
  OBVIOUS
<1>5. InviteGroupsToBG(pool, b)
  BY <1>3, <1>4
<1>6. /\ freeSlotQueue' = IF Cardinality(members[b]) < 2 * MaxPlayersPerTeam THEN freeSlotQueue
                          ELSE RemoveFirst(freeSlotQueue, b)
      /\ todo' = Tail(todo)
      /\ UNCHANGED <<phase, scheduled, joins, groupInfo, offline, place, bgInstanceID, status,
                     members, untimed, struck, offered>>
  BY <1>2, Zenon DEF FillPlayersToBG
<1>7. /\ b = todo[1] /\ 1 \in 1 .. Len(todo) /\ b \in BattleGrounds
      /\ todo' \in Seq(BattleGrounds)
      /\ \A c : ~Contains(todo', c) => c = b \/ ~Contains(todo, c)
      /\ \A i \in 1 .. Len(todo') : i + 1 \in 1 .. Len(todo) /\ todo'[i] = todo[i + 1]
  <2>1. b = todo[1] /\ 1 \in 1 .. Len(todo) /\ todo' \in Seq(BattleGrounds)
    BY <1>1, <1>2, <1>6
  <2>2. b \in BattleGrounds
    BY <1>1, <2>1, ElementOfSeq
  <2>3. \A i \in 1 .. Len(todo') : i + 1 \in 1 .. Len(todo) /\ todo'[i] = todo[i + 1]
    BY <1>1, <1>6
  <2>4. \A i \in 1 .. Len(todo) : i = 1 \/ (i - 1 \in 1 .. Len(todo') /\ todo[i] = todo'[i - 1])
    BY <1>1, <1>6
  <2>5. \A c : ~Contains(todo', c) => c = b \/ ~Contains(todo, c)
    BY <2>1, <2>4 DEF Contains
  <2> QED BY <2>1, <2>2, <2>3, <2>5
<1>8. ASSUME NEW team \in Teams
      PROVE  /\ FreeSlotsForTeam(b, team) \in Nat
             /\ FreeSlotsForTeam(b, team) = MaxPlayersPerTeam - invited[b][team]
             /\ invited[b][team] \in Nat
             /\ FreeSlotsForTeam(b, team) <= MaxPlayersPerTeam
  BY <1>7, CountOfInvited, Places DEF FreeSlotsForTeam
<1>9. ASSUME NEW team \in Teams
      PROVE  /\ sent[team] \subseteq Uninvited(team)
             /\ PlayerCount(sent[team]) <= FreeSlotsForTeam(b, team)
             /\ \A g \in Uninvited(team) \ sent[team] :
                   PlayerCount(sent[team]) + Cardinality(PlayersOf(g)) > FreeSlotsForTeam(b, team)
  <2>1. MaxPlayersPerTeam \in Int /\ MaxPlayersPerTeam >= FreeSlotsForTeam(b, team)
    BY <1>8, Places
  <2>2. sent[team] = Selected(team, MaxPlayersPerTeam, FreeSlotsForTeam(b, team))
    OBVIOUS
  <2> HIDE DEF sent
  <2> QED BY <1>8, <2>1, <2>2, SelectedGroups
<1> HIDE DEF sent
<1>10. ASSUME NEW team \in Teams
       PROVE  /\ Cardinality({p \in Players : groupInfo[p] \in pool} \intersect team)
                     = PlayerCount(sent[team])
              /\ PlayerCount(sent[team]) \in Nat
  BY <1>9, SentByTeam, CountFewer DEF PlayerCount
<1>11. \A g \in pool : g \in Groups /\ PlayersOf(g) # {} /\ invitedTo[g] = NoBattleGround
  BY <1>9 DEF Uninvited
<1> HIDE DEF pool
<1>12. status'[b] \in {"running", "leave"} /\ b \in Running
  BY <1>6, <1>7 DEF FreeInv, Running
<1>13. \A team \in Teams :
          invited[b][team] + Cardinality({p \in Players : groupInfo[p] \in pool} \intersect team)
              <= MaxPlayersPerTeam
  BY <1>8, <1>9, <1>10, Places
<1>14. Sent(pool, b)
  <2>1. Sends(pool, b)
    BY <1>5, <1>6, <1>7, <1>11, <1>12, <1>13 DEF Sends
  <2> QED BY <2>1, InvitedGroups
<1>15. TypeOK'
  <2>1. /\ invitedTo' \in [Groups -> BattleGrounds \union {NoBattleGround}]
        /\ removeInviteTime' \in [Groups -> 0 .. MaxJoins]
        /\ slot' \in [Players -> BattleGrounds \union {NotQueued, NoBattleGround}]
        /\ events' \subseteq [player : Players, bg : BattleGrounds, time : 0 .. MaxJoins, group : Groups]
        /\ invited' \in [BattleGrounds -> [Teams -> Nat]]
    BY <1>14 DEF Sent
  <2>2. freeSlotQueue' \in Seq(BattleGrounds)
    <3>1. freeSlotQueue \in Seq(BattleGrounds)
      BY DEF TypeOK
    <3>2. RemoveFirst(freeSlotQueue, b) \in Seq(BattleGrounds)
      BY <3>1, WithoutFirst DEF FreeInv
    <3> QED BY <1>6, <3>1, <3>2
  <2> QED BY <1>6, <1>7, <2>1, <2>2, Zenon DEF TypeOK
<1>16. StatusInv'
  <2>1. \A c \in BattleGrounds : status[c] = "none" => invited'[c] = invited[c]
    BY <1>12, <1>14 DEF Sent, Running
  <2> QED BY <1>6, <2>1 DEF StatusInv
<1>17. FreeInv'
  <2>1. \A i \in 1 .. Len(todo') : status'[todo'[i]] = "running"
    BY <1>6, <1>7 DEF FreeInv
  <2>2. phase' # "maps"
    BY <1>1, <1>6
  <2>3. CASE Cardinality(members[b]) < 2 * MaxPlayersPerTeam
    BY <1>6, <2>1, <2>2, <2>3 DEF FreeInv, Running, Contains
  <2>4. CASE ~(Cardinality(members[b]) < 2 * MaxPlayersPerTeam)
    <3>1. freeSlotQueue' = RemoveFirst(freeSlotQueue, b) /\ freeSlotQueue \in Seq(BattleGrounds)
      BY <1>6, <2>4 DEF TypeOK
    <3>2. /\ \A k \in 1 .. Len(freeSlotQueue') :
                /\ \E i \in 1 .. Len(freeSlotQueue) : freeSlotQueue'[k] = freeSlotQueue[i]
                /\ \A l \in 1 .. Len(freeSlotQueue') : freeSlotQueue'[k] = freeSlotQueue'[l] => k = l
          /\ \A c : c # b /\ Contains(freeSlotQueue, c) => Contains(freeSlotQueue', c)
      BY <3>1, WithoutFirst DEF FreeInv
    <3>3. Cardinality(members[b]) >= 2 * MaxPlayersPerTeam
      <4>1. members[b] \subseteq Players
        BY <1>7 DEF TypeOK
      <4>2. Cardinality(members[b]) \in Nat
        BY <4>1, Finite
      <4> QED BY <2>4, <4>2, Places
    <3>4. \A c \in Running' : ~Contains(freeSlotQueue', c) =>
              Cardinality(members'[c]) >= 2 * MaxPlayersPerTeam
      BY <1>6, <3>2, <3>3 DEF FreeInv, Running
    <3>5. \A k \in 1 .. Len(freeSlotQueue') : status'[freeSlotQueue'[k]] = "running"
      BY <1>6, <3>2 DEF FreeInv
    <3> QED BY <2>1, <2>2, <3>2, <3>4, <3>5 DEF FreeInv, Contains
  <2> QED BY <2>3, <2>4
<1>18. OfferInv'
  <2> SUFFICES ASSUME ~scheduled, NEW c \in offered \intersect Running, NEW team \in Teams,
                      ~Contains(todo', c), NEW g \in Uninvited(team)'
               PROVE  Cardinality(PlayersOf(g)') > FreeSlotsForTeam(c, team)'
    BY <1>6 DEF OfferInv, Running, Contains
  <2>1. g \in Uninvited(team) \ pool /\ PlayersOf(g)' = PlayersOf(g)
    <3>1. \A h \in Groups : invitedTo'[h] = IF h \in pool THEN b ELSE invitedTo[h]
      BY <1>14 DEF Sent
    <3>2. UNCHANGED groupInfo /\ b \in BattleGrounds /\ g \in Uninvited(team)'
      BY <1>6, <1>7
    <3> QED BY <3>1, <3>2, WaitingFewer
  <2>2. c \in BattleGrounds
    BY DEF Running
  <2>3. CASE c = b
    <3>1. g \notin sent[team]
      BY <2>1 DEF pool
    <3>2. PlayerCount(sent[team]) + Cardinality(PlayersOf(g)) > FreeSlotsForTeam(b, team)
      BY <1>9, <2>1, <3>1
    <3>3. invited'[b][team] = invited[b][team] + PlayerCount(sent[team])
      BY <1>10, <1>14 DEF Sent
    <3>4. Cardinality(PlayersOf(g)) \in Nat /\ Cardinality(PlayersOf(g)) >= 1
      BY <2>1, Finite, NonEmpty DEF Uninvited, PlayersOf
    <3>5. PlayerCount(sent[team]) \in Nat /\ PlayerCount(sent[team]) <= FreeSlotsForTeam(b, team)
      BY <1>9, <1>10
    <3>6. FreeSlotsForTeam(b, team)' = MaxPlayersPerTeam - invited'[b][team] \/ FreeSlotsForTeam(b, team)' = 0
      BY DEF FreeSlotsForTeam
    <3>7. FreeSlotsForTeam(b, team) = MaxPlayersPerTeam - invited[b][team] /\ invited[b][team] \in Nat
      BY <1>8
    <3> QED BY <2>1, <2>3, <3>2, <3>3, <3>4, <3>5, <3>6, <3>7, Places
  <2>4. CASE c # b
    <3>1. ~Contains(todo, c) /\ FreeSlotsForTeam(c, team)' = FreeSlotsForTeam(c, team)
      BY <1>7, <1>14, <2>2, <2>4 DEF Sent, FreeSlotsForTeam
    <3> QED BY <2>1, <3>1 DEF OfferInv
  <2> QED BY <2>3, <2>4
<1> QED BY <1>14, <1>15, <1>16, <1>17, <1>18 DEF Sent

\* The sequence r is of b and of what q has, each once.
Prepended(r, b, q, S) ==
    /\ r \in Seq(S)
    /\ \A k \in 1 .. Len(r) : /\ r[k] = b \/ \E i \in 1 .. Len(q) : r[k] = q[i]
                              /\ \A l \in 1 .. Len(r) : r[k] = r[l] => k = l
    /\ \A c : c = b \/ Contains(q, c) => Contains(r, c)

\* A battleground comes first in the queue of those with free slots.
LEMMA WithFirst ==
    ASSUME NEW S, NEW q \in Seq(S), NEW b \in S,
           \A i \in 1 .. Len(q) : q[i] # b,
           \A i, j \in 1 .. Len(q) : q[i] = q[j] => i = j,
           NEW r, r = <<b>> \o q
    PROVE  Prepended(r, b, q, S)
<1>1. /\ r \in Seq(S) /\ Len(q) \in Nat /\ Len(r) = 1 + Len(q) /\ r[1] = b
      /\ \A i \in 1 .. Len(q) : r[i + 1] = q[i]
  OBVIOUS
<1>2. \A k \in 1 .. Len(r) : k = 1 \/ (k - 1 \in 1 .. Len(q) /\ r[k] = q[k - 1])
  BY <1>1
<1>3. \A k \in 1 .. Len(r) : r[k] = b \/ \E i \in 1 .. Len(q) : r[k] = q[i]
  BY ONLY <1>1, <1>2
<1>4. ASSUME NEW k \in 1 .. Len(r), NEW l \in 1 .. Len(r), r[k] = r[l]
      PROVE  k = l
  <2>1. k = 1 => l = 1
    BY <1>1, <1>2, <1>4
  <2>2. l = 1 => k = 1
    BY <1>1, <1>2, <1>4
  <2>3. k # 1 /\ l # 1 => k - 1 = l - 1
    BY <1>2, <1>4
  <2> QED BY <2>1, <2>2, <2>3
<1>5. \A c : c = b \/ Contains(q, c) => Contains(r, c)
  <2>1. \A i \in 1 .. Len(q) : i + 1 \in 1 .. Len(r)
    BY <1>1
  <2>2. 1 \in 1 .. Len(r)
    BY <1>1
  <2> QED BY <1>1, <2>1, <2>2 DEF Contains
<1> QED BY <1>1, <1>3, <1>4, <1>5 DEF Prepended

\* A battleground opens for groups that wait.
LEMMA NextCreateNewBattleGround ==
    ASSUME QueueInv, NEW b \in BattleGrounds, CreateNewBattleGround(b)
    PROVE  QueueInv'
<1> USE DEF QueueInv
<1>1. /\ phase = "fill" /\ todo = <<>> /\ status[b] = "none"
      /\ InviteGroupsToBG(UNION {Opening(team) : team \in Teams}, b)
      /\ status' = [status EXCEPT ![b] = "running"]
      /\ freeSlotQueue' = <<b>> \o freeSlotQueue /\ phase' = "maps"
      /\ UNCHANGED <<todo, scheduled, joins, groupInfo, offline, place, bgInstanceID, members,
                     untimed, struck, offered>>
  BY DEF CreateNewBattleGround
<1> DEFINE sent == [team \in Teams |-> Opening(team)]
           pool == UNION {sent[team] : team \in Teams}
<1>2. {Opening(team) : team \in Teams} = {sent[team] : team \in Teams}
  OBVIOUS
<1>3. InviteGroupsToBG(pool, b)
  BY <1>1, <1>2
<1>4. ASSUME NEW team \in Teams
      PROVE  sent[team] \subseteq Uninvited(team) /\ PlayerCount(sent[team]) <= MaxPlayersPerTeam
  <2>1. MinPlayersPerTeam \in Int
    BY SizesAssumption
  <2>2. sent[team] = Selected(team, MinPlayersPerTeam, MaxPlayersPerTeam)
    BY DEF Opening
  <2> HIDE DEF sent
  <2> QED BY <2>1, <2>2, SelectedGroups, Places
<1> HIDE DEF sent
<1>5. ASSUME NEW team \in Teams
      PROVE  Cardinality({p \in Players : groupInfo[p] \in pool} \intersect team)
                     = PlayerCount(sent[team])
  BY <1>4, SentByTeam DEF PlayerCount
<1>6. \A g \in pool : g \in Groups /\ PlayersOf(g) # {} /\ invitedTo[g] = NoBattleGround
  BY <1>4 DEF Uninvited
<1> HIDE DEF pool
<1>7. /\ status'[b] = "running"
      /\ \A c \in BattleGrounds : c # b => status'[c] = status[c]
      /\ status' \in [BattleGrounds -> {"none", "running", "leave", "deleted"}]
  BY <1>1 DEF TypeOK
<1>8. \A team \in Teams :
          invited[b][team] + Cardinality({p \in Players : groupInfo[p] \in pool} \intersect team)
              <= MaxPlayersPerTeam
  <2> SUFFICES ASSUME NEW team \in Teams
               PROVE  invited[b][team]
                          + Cardinality({p \in Players : groupInfo[p] \in pool} \intersect team)
                      <= MaxPlayersPerTeam
    OBVIOUS
  <2>1. invited[b][team] = 0
    BY <1>1 DEF StatusInv
  <2>2. PlayerCount(sent[team]) \in Nat
    BY CountFewer
  <2> QED BY <1>4, <1>5, <2>1, <2>2, Places
<1>9. Sent(pool, b)
  <2>1. Sends(pool, b)
    BY <1>1, <1>3, <1>6, <1>7, <1>8 DEF Sends
  <2> QED BY <2>1, InvitedGroups
<1>10. /\ freeSlotQueue \in Seq(BattleGrounds)
       /\ \A i \in 1 .. Len(freeSlotQueue) : freeSlotQueue[i] # b
       /\ \A i, j \in 1 .. Len(freeSlotQueue) : freeSlotQueue[i] = freeSlotQueue[j] => i = j
  BY <1>1 DEF TypeOK, FreeInv
<1>11. /\ freeSlotQueue' \in Seq(BattleGrounds)
       /\ \A k \in 1 .. Len(freeSlotQueue') :
             /\ freeSlotQueue'[k] = b \/ \E i \in 1 .. Len(freeSlotQueue) : freeSlotQueue'[k] = freeSlotQueue[i]
             /\ \A l \in 1 .. Len(freeSlotQueue') : freeSlotQueue'[k] = freeSlotQueue'[l] => k = l
       /\ \A c : c = b \/ Contains(freeSlotQueue, c) => Contains(freeSlotQueue', c)
  <2>1. PICK r : r = <<b>> \o freeSlotQueue
    OBVIOUS
  <2>2. /\ r \in Seq(BattleGrounds)
        /\ \A k \in 1 .. Len(r) : /\ r[k] = b \/ \E i \in 1 .. Len(freeSlotQueue) : r[k] = freeSlotQueue[i]
                                  /\ \A l \in 1 .. Len(r) : r[k] = r[l] => k = l
        /\ \A c : c = b \/ Contains(freeSlotQueue, c) => Contains(r, c)
    <3>1. Prepended(r, b, freeSlotQueue, BattleGrounds)
      BY <1>10, <2>1, WithFirst
    <3> QED BY <3>1 DEF Prepended
  <2> QED BY <1>1, <2>1, <2>2
<1>12. TypeOK'
  <2>1. /\ invitedTo' \in [Groups -> BattleGrounds \union {NoBattleGround}]
        /\ removeInviteTime' \in [Groups -> 0 .. MaxJoins]
        /\ slot' \in [Players -> BattleGrounds \union {NotQueued, NoBattleGround}]
        /\ events' \subseteq [player : Players, bg : BattleGrounds, time : 0 .. MaxJoins, group : Groups]
        /\ invited' \in [BattleGrounds -> [Teams -> Nat]]
    BY <1>9 DEF Sent
  <2>2. phase' \in {"maps", "fill"}
    BY <1>1
  <2> QED BY <1>1, <1>7, <1>11, <2>1, <2>2, Zenon DEF TypeOK
<1>13. StatusInv'
  <2>1. \A c \in BattleGrounds : c # b => invited'[c] = invited[c]
    BY <1>9 DEF Sent
  <2>2. \A c \in BattleGrounds : status'[c] = "none" => c # b /\ status[c] = "none"
    BY <1>7
  <2>3. \A c \in offered : c \in BattleGrounds /\ status'[c] # "none"
    BY <1>7 DEF StatusInv, TypeOK
  <2> QED BY <1>1, <2>1, <2>2, <2>3 DEF StatusInv
<1>14. FreeInv'
  <2>1. \A k \in 1 .. Len(freeSlotQueue') : status'[freeSlotQueue'[k]] = "running"
    <3>1. \A i \in 1 .. Len(freeSlotQueue) :
              freeSlotQueue[i] \in BattleGrounds /\ status'[freeSlotQueue[i]] = "running"
      BY <1>7, <1>10, ElementOfSeq DEF FreeInv
    <3> QED BY <1>7, <1>11, <3>1
  <2>2. \A c \in Running' : ~Contains(freeSlotQueue', c) => Cardinality(members'[c]) >= 2 * MaxPlayersPerTeam
    BY <1>1, <1>7, <1>11 DEF FreeInv, Running
  <2>3. todo' = <<>> /\ \A i \in 1 .. Len(todo') : status'[todo'[i]] = "running"
    BY <1>1
  <2> QED BY <1>11, <2>1, <2>2, <2>3 DEF FreeInv
<1>15. OfferInv'
  <2> SUFFICES ASSUME ~scheduled, NEW c \in offered \intersect Running', NEW team \in Teams,
                      NEW g \in Uninvited(team)'
               PROVE  Cardinality(PlayersOf(g)') > FreeSlotsForTeam(c, team)'
    BY <1>1 DEF OfferInv
  <2>1. g \in Uninvited(team) \ pool /\ PlayersOf(g)' = PlayersOf(g)
    <3>1. \A h \in Groups : invitedTo'[h] = IF h \in pool THEN b ELSE invitedTo[h]
      BY <1>9 DEF Sent
    <3>2. UNCHANGED groupInfo
      BY <1>1
    <3> QED BY <3>1, <3>2, WaitingFewer
  <2>2. c \in BattleGrounds /\ c # b /\ c \in Running
    BY <1>1, <1>7 DEF Running, StatusInv
  <2>3. FreeSlotsForTeam(c, team)' = FreeSlotsForTeam(c, team)
    BY <1>9, <2>2 DEF Sent, FreeSlotsForTeam
  <2>4. ~Contains(todo, c)
    BY <1>1 DEF Contains
  <2> QED BY <2>1, <2>2, <2>3, <2>4 DEF OfferInv
<1> QED BY <1>9, <1>12, <1>13, <1>14, <1>15 DEF Sent

\* No match, and the update is over.
LEMMA NextNoMatch ==
    ASSUME QueueInv, NoMatch
    PROVE  QueueInv'
<1> USE DEF QueueInv
<1>1. /\ todo = <<>> /\ phase' = "maps"
      /\ UNCHANGED <<todo, scheduled, joins, groupInfo, offline, invitedTo, removeInviteTime, untimed,
                     struck, events, place, slot, bgInstanceID, status, freeSlotQueue, invited, members,
                     offered>>
  BY DEF NoMatch, queueVars, bgVars
<1>2. TypeOK'
  <2>1. phase' \in {"maps", "fill"}
    BY <1>1
  <2> QED BY <1>1, <2>1, Zenon DEF TypeOK
<1>3. JoinInv' /\ EventInv' /\ InvitationTimed' /\ StatusInv'
  BY <1>1 DEF JoinInv, EventInv, InvitationTimed, StatusInv, PlayersOf, Invited
<1>4. SlotsAgree' /\ KnownInv' /\ PlacesCounted'
  BY <1>1, AllSame, CountsStay
<1>5. FreeInv' /\ OfferInv'
  BY <1>1 DEF FreeInv, OfferInv, Running, Contains, Uninvited, PlayersOf, FreeSlotsForTeam
<1> QED BY <1>2, <1>3, <1>4, <1>5

-----------------------------------------------------------------------------
(* Players that join and leave. *)

\* A new group has no players yet, and no invitation.
LEMMA NextJoin ==
    ASSUME QueueInv, NEW S \in SUBSET Players, Join(S)
    PROVE  QueueInv'
<1> USE DEF QueueInv
<1>1. /\ phase = "maps" /\ joins < MaxJoins /\ joins' = joins + 1 /\ scheduled' = TRUE /\ S # {}
      /\ \A p \in S : /\ place[p] = World /\ slot[p] = NotQueued
                      /\ bgInstanceID[p] = NoBattleGround /\ groupInfo[p] = NoGroup
      /\ groupInfo' = [p \in Players |-> IF p \in S THEN joins' ELSE groupInfo[p]]
      /\ offline' = offline \ S
      /\ slot' = [p \in Players |-> IF p \in S THEN NoBattleGround ELSE slot[p]]
      /\ UNCHANGED <<phase, todo, offered, invitedTo, removeInviteTime, events, place, bgInstanceID,
                     status, freeSlotQueue, invited, members, untimed, struck>>
  BY DEF Join, updateVars, bgVars
<1>2. PICK new : new = joins + 1
  OBVIOUS
<1>3. /\ new \in Groups /\ joins' = new /\ joins \in Nat /\ new \in 0 .. MaxJoins
      /\ new # NoGroup /\ ~(new <= joins) /\ new \in Nat
  BY <1>1, <1>2, SizesAssumption DEF TypeOK, Groups, NoGroup
<1>4. \A p \in Players :
          /\ groupInfo'[p] = IF p \in S THEN new ELSE groupInfo[p]
          /\ slot'[p] = IF p \in S THEN NoBattleGround ELSE slot[p]
          /\ groupInfo[p] # new
          /\ p \in S => groupInfo[p] = NoGroup
  <2>1. \A p \in Players : groupInfo[p] # new
    BY <1>3 DEF JoinInv
  <2> QED BY <1>1, <1>3, <2>1
<1>5. PlayersOf(new) = {} /\ invitedTo[new] = NoBattleGround
  BY <1>3, <1>4 DEF PlayersOf, JoinInv
<1>6. \A p \in Players : Invited(p)' <=> Invited(p)
  BY <1>1, <1>3, <1>4, <1>5 DEF Invited
<1>7. JoinInv'
  <2>1. \A p \in Players : groupInfo'[p] # NoGroup =>
            groupInfo'[p] <= joins' /\ bgInstanceID'[p] = NoBattleGround
    <3> SUFFICES ASSUME NEW p \in Players, groupInfo'[p] # NoGroup
                 PROVE  groupInfo'[p] <= joins' /\ bgInstanceID'[p] = NoBattleGround
      OBVIOUS
    <3>1. CASE p \in S
      BY <1>1, <1>3, <1>4, <3>1
    <3>2. CASE p \notin S
      <4>1. groupInfo[p] \in Nat /\ groupInfo[p] <= joins /\ bgInstanceID[p] = NoBattleGround
        BY <1>4, <3>2, Places DEF JoinInv, TypeOK
      <4> QED BY <1>1, <1>2, <1>3, <1>4, <3>2, <4>1
    <3> QED BY <3>1, <3>2
  <2>2. \A g \in Groups : PlayersOf(g)' = {} => PlayersOf(g) = {}
    BY <1>4, Places DEF PlayersOf
  <2> QED BY <1>1, <2>1, <2>2 DEF JoinInv
<1>8. SlotsAgree' /\ KnownInv'
  <2>1. ASSUME NEW p \in Players
        PROVE  Same(p) \/ (Knows(p)' /\ (p \notin struck' => Agrees(p)'))
    <3>1. CASE p \in S
      <4>1. /\ groupInfo'[p] = new /\ slot'[p] = NoBattleGround /\ p \notin offline'
            /\ place'[p] = World /\ bgInstanceID'[p] = NoBattleGround
        BY <1>1, <1>4, <3>1
      <4>2. SlotOf(p)' = NoBattleGround
        BY <1>1, <1>3, <1>5, <4>1, Places DEF SlotOf
      <4> QED BY <4>1, <4>2, Places DEF Knows, Agrees
    <3>2. CASE p \notin S
      BY <1>1, <1>4, <3>2 DEF Same
    <3> QED BY <3>1, <3>2
  <2>2. \A p \in Players, b \in BattleGrounds : place'[p] = b => p \in members'[b]
    BY <1>1 DEF SlotsAgree
  <2> QED BY <2>1, <2>2, SlotsStay
<1>9. EventInv'
  <2> SUFFICES ASSUME NEW e \in events
               PROVE  /\ e.time <= new
                      /\ groupInfo'[e.player] \in {NoGroup, e.group} \/ e.time < groupInfo'[e.player]
    BY <1>1, <1>3 DEF EventInv
  <2>1. e.player \in Players /\ e.time \in Nat /\ e.time <= joins
    BY DEF TypeOK, EventInv
  <2>2. e.time < new
    BY <1>2, <1>3, <2>1
  <2>3. groupInfo'[e.player] = new \/ groupInfo'[e.player] = groupInfo[e.player]
    BY <1>4, <2>1
  <2> QED BY <1>3, <2>1, <2>2, <2>3 DEF EventInv
<1>10. InvitationTimed'
  <2> SUFFICES ASSUME NEW p \in Players, Invited(p), place[p] # Offline,
                      p \notin untimed, p \notin struck
               PROVE  [player |-> p, bg |-> invitedTo[groupInfo'[p]],
                       time |-> removeInviteTime[groupInfo'[p]], group |-> groupInfo'[p]] \in events
    BY <1>1, <1>6 DEF InvitationTimed
  <2>1. groupInfo'[p] = groupInfo[p]
    BY <1>4 DEF Invited
  <2> QED BY <2>1 DEF InvitationTimed
<1>11. PlacesCounted'
  <2>1. ASSUME NEW b \in BattleGrounds
        PROVE  Coming(b)' = Coming(b)
    <3>1. \A p \in Players : Invited(p) => groupInfo'[p] = groupInfo[p]
      BY <1>4 DEF Invited
    <3> QED BY <1>1, <1>6, <3>1 DEF Coming, OnTheWay, InvitedAmong
  <2> QED BY <1>1, <2>1 DEF PlacesCounted
<1>12. StatusInv' /\ FreeInv' /\ OfferInv'
  BY <1>1, FreeStays DEF StatusInv, OfferInv
<1>13. TypeOK'
  <2>1. groupInfo' \in [Players -> Groups \union {NoGroup}]
    BY <1>1, <1>3 DEF TypeOK
  <2>2. slot' \in [Players -> BattleGrounds \union {NotQueued, NoBattleGround}]
    BY <1>1 DEF TypeOK
  <2>3. {offline', untimed', struck'} \subseteq SUBSET Players
    BY <1>1 DEF TypeOK
  <2>4. joins' \in 0 .. MaxJoins /\ scheduled' \in BOOLEAN
    BY <1>1, <1>3
  <2> QED BY <1>1, <2>1, <2>2, <2>3, <2>4, Zenon DEF TypeOK
<1> QED BY <1>7, <1>8, <1>9, <1>10, <1>11, <1>12, <1>13

\* The places of players who leave b, or do not stay, are free again, and the next
\* update looks at b.
LEMMA Freed ==
    ASSUME QueueInv, NEW b \in BattleGrounds, NEW S, S \subseteq Players, phase = "maps",
           PlacesFreed(S, b), status[b] \in {"running", "leave"},
           UNCHANGED <<phase, todo, offered, groupInfo, invitedTo, status>>,
           members' \in [BattleGrounds -> SUBSET Players],
           \A c \in BattleGrounds : c # b => members'[c] = members[c],
           S \intersect members[b] = {} => members[b] \subseteq members'[b]
    PROVE  /\ invited' \in [BattleGrounds -> [Teams -> Nat]]
           /\ \A c \in BattleGrounds : c # b => invited'[c] = invited[c]
           /\ \A team \in Teams :
                 invited'[b][team] = invited[b][team] - Cardinality((S \intersect members[b]) \intersect team)
           /\ scheduled' \in BOOLEAN /\ freeSlotQueue' \in Seq(BattleGrounds)
           /\ StatusInv' /\ FreeInv' /\ OfferInv'
<1> USE DEF QueueInv
<1> DEFINE A == S \intersect members[b]
<1>1. /\ invited' = [invited EXCEPT ![b] = [team \in Teams |-> @[team] - Cardinality(A \intersect team)]]
      /\ scheduled' = (scheduled \/ (A # {} /\ status[b] = "running"))
      /\ freeSlotQueue' = IF A = {} \/ status[b] # "running" \/ Contains(freeSlotQueue, b)
                          THEN freeSlotQueue ELSE <<b>> \o freeSlotQueue
  BY DEF PlacesFreed
<1>2. members[b] \subseteq Players /\ A \subseteq members[b] /\ (A = {} => members[b] \subseteq members'[b])
  BY DEF TypeOK
<1> HIDE DEF A
<1>3. /\ \A c \in BattleGrounds : c # b => invited'[c] = invited[c]
      /\ \A team \in Teams : invited'[b][team] = invited[b][team] - Cardinality(A \intersect team)
  BY <1>1 DEF TypeOK
<1>4. ASSUME NEW team \in Teams
      PROVE  invited[b][team] - Cardinality(A \intersect team) \in Nat
  <2> DEFINE M == members[b] \intersect team
             G == Coming(b) \intersect team
             X == A \intersect team
  <2>1. Cardinality(M) + Cardinality(G) <= invited[b][team] /\ invited[b][team] \in Nat
    BY Counts
  <2>2. X \subseteq M /\ M \subseteq Players /\ G \subseteq Players
    BY <1>2 DEF Coming, OnTheWay, InvitedAmong
  <2> HIDE DEF M, G, X
  <2>3. /\ Cardinality(X) <= Cardinality(M) /\ Cardinality(X) \in Nat
        /\ Cardinality(M) \in Nat /\ Cardinality(G) \in Nat
    BY <2>2, Fewer, Finite
  <2>4. invited[b][team] - Cardinality(X) \in Nat
    BY <2>1, <2>3
  <2> QED BY <2>4 DEF X
<1>5. invited' \in [BattleGrounds -> [Teams -> Nat]]
  <2>1. [team \in Teams |-> invited[b][team] - Cardinality(A \intersect team)] \in [Teams -> Nat]
    BY <1>4
  <2> QED BY <1>1, <2>1 DEF TypeOK
<1>6. scheduled' \in BOOLEAN
  BY <1>1, Zenon DEF TypeOK
<1>7. StatusInv'
  <2>1. \A c \in BattleGrounds : status[c] = "none" => invited'[c] = invited[c]
    BY <1>3
  <2> QED BY <2>1 DEF StatusInv
<1>8. freeSlotQueue \in Seq(BattleGrounds)
  BY DEF TypeOK
<1>9. ASSUME NEW c \in Running, ~Contains(freeSlotQueue, c), c = b => A = {}
      PROVE  Cardinality(members'[c]) >= 2 * MaxPlayersPerTeam
  <2>1. c \in BattleGrounds /\ Cardinality(members[c]) >= 2 * MaxPlayersPerTeam
    BY <1>9 DEF FreeInv, Running
  <2>2. members[c] \subseteq members'[c] /\ members'[c] \subseteq Players /\ members[c] \subseteq Players
    BY <1>2, <1>9, <2>1 DEF TypeOK
  <2>3. /\ Cardinality(members[c]) <= Cardinality(members'[c])
        /\ Cardinality(members[c]) \in Nat /\ Cardinality(members'[c]) \in Nat
    BY <2>2, Fewer, Finite
  <2> QED BY <2>1, <2>3, Places
<1>10. freeSlotQueue' \in Seq(BattleGrounds) /\ FreeInv'
  <2>1. CASE A = {} \/ status[b] # "running" \/ Contains(freeSlotQueue, b)
    <3>1. freeSlotQueue' = freeSlotQueue
      BY <1>1, <2>1
    <3>2. \A c \in Running : ~Contains(freeSlotQueue, c) => Cardinality(members'[c]) >= 2 * MaxPlayersPerTeam
      BY <1>9, <2>1 DEF Running
    <3> QED BY <1>8, <3>1, <3>2 DEF FreeInv, Running
  <2>2. CASE ~(A = {} \/ status[b] # "running" \/ Contains(freeSlotQueue, b))
    <3>1. /\ \A i \in 1 .. Len(freeSlotQueue) : freeSlotQueue[i] # b
          /\ \A i, j \in 1 .. Len(freeSlotQueue) : freeSlotQueue[i] = freeSlotQueue[j] => i = j
      BY <2>2 DEF Contains, FreeInv
    <3>2. PICK r : r = <<b>> \o freeSlotQueue
      OBVIOUS
    <3>3. /\ r \in Seq(BattleGrounds)
          /\ \A k \in 1 .. Len(r) : /\ r[k] = b \/ \E i \in 1 .. Len(freeSlotQueue) : r[k] = freeSlotQueue[i]
                                    /\ \A l \in 1 .. Len(r) : r[k] = r[l] => k = l
          /\ \A c : c = b \/ Contains(freeSlotQueue, c) => Contains(r, c)
      <4>1. Prepended(r, b, freeSlotQueue, BattleGrounds)
        BY <1>8, <3>1, <3>2, WithFirst
      <4> QED BY <4>1 DEF Prepended
    <3>4. freeSlotQueue' = r
      BY <1>1, <2>2, <3>2
    <3>5. \A k \in 1 .. Len(r) : status[r[k]] = "running"
      BY <2>2, <3>3 DEF FreeInv
    <3>6. \A c \in Running : ~Contains(r, c) => Cardinality(members'[c]) >= 2 * MaxPlayersPerTeam
      BY <1>9, <3>3
    <3>7. phase' = "maps" => todo' = <<>>
      BY DEF FreeInv
    <3>8. \A i \in 1 .. Len(todo') : status'[todo'[i]] = "running"
      BY DEF FreeInv
    <3> QED BY <3>3, <3>4, <3>5, <3>6, <3>7, <3>8 DEF FreeInv, Running
  <2> QED BY <2>1, <2>2
<1>11. OfferInv'
  <2>1. ~scheduled' => ~scheduled /\ (A = {} \/ status[b] # "running")
    BY <1>1, Zenon
  <2>2. Running' = Running
    BY DEF Running
  <2>3. A = {} => invited'[b] = invited[b]
    <3> SUFFICES ASSUME A = {} PROVE invited'[b] = invited[b]
      OBVIOUS
    <3>1. ASSUME NEW team \in Teams
          PROVE  invited'[b][team] = invited[b][team]
      <4>1. Cardinality(A \intersect team) = 0 /\ invited[b][team] \in Nat
        BY FS_EmptySet DEF TypeOK
      <4> QED BY <1>3, <4>1
    <3>2. invited[b] \in [Teams -> Nat] /\ invited'[b] \in [Teams -> Nat]
      BY <1>5 DEF TypeOK
    <3> QED BY <3>1, <3>2
  <2>4. ~scheduled' => \A c \in Running' : invited'[c] = invited[c]
    BY <1>3, <2>1, <2>3 DEF Running
  <2>5. ASSUME NEW team \in Teams, NEW g \in Uninvited(team)'
        PROVE  g \in Uninvited(team) /\ PlayersOf(g)' = PlayersOf(g)
    BY DEF Uninvited, PlayersOf
  <2> QED BY <2>1, <2>2, <2>4, <2>5, OfferStays
<1> QED BY <1>3, <1>5, <1>6, <1>7, <1>10, <1>11 DEF A

\* Players leave a battleground for another map, or for good.  Who is in the world,
\* but not in that battleground, is struck.
LEMMA NextLeave ==
    ASSUME QueueInv, NEW b \in BattleGrounds, NEW S, S \subseteq members[b], S # {}, phase = "maps",
           RemovePlayersAtLeave(S, b),
           UNCHANGED <<phase, todo, offered, joins, groupInfo, invitedTo, removeInviteTime, untimed,
                       offline, status>>,
           place' \in [Players -> BattleGrounds \union {World, Far, Offline}],
           \A p \in Players : IF p \in S /\ place[p] = b THEN place'[p] \in {Far, Offline}
                              ELSE place'[p] = place[p],
           struck' \subseteq Players, struck \subseteq struck',
           \A p \in S : InWorld(p) /\ place[p] # b /\ slot[p] # NotQueued => p \in struck',
           events' \subseteq events,
           \A e \in events \ events' : e.player \in S /\ place[e.player] = b
    PROVE  QueueInv'
<1> USE DEF QueueInv
<1> DEFINE found == {p \in S : InWorld(p)}
<1>1. /\ PlacesFreed(S, b) /\ members' = [members EXCEPT ![b] = @ \ S]
      /\ slot' = [p \in Players |-> IF p \in found \intersect members[b] THEN NotQueued ELSE slot[p]]
      /\ bgInstanceID' = [p \in Players |-> IF p \in found THEN NoBattleGround ELSE bgInstanceID[p]]
  BY DEF RemovePlayersAtLeave
<1>2. /\ S \subseteq Players /\ members[b] \subseteq Players /\ S \intersect members[b] = S
      /\ \A p \in Players : p \in found <=> p \in S /\ place[p] \notin {Far, Offline}
  BY DEF TypeOK, InWorld
<1>3. /\ \A p \in Players : /\ slot'[p] = IF p \in found THEN NotQueued ELSE slot[p]
                            /\ bgInstanceID'[p] = IF p \in found THEN NoBattleGround ELSE bgInstanceID[p]
      /\ \A c \in BattleGrounds : members'[c] = IF c = b THEN members[c] \ S ELSE members[c]
      /\ members' \in [BattleGrounds -> SUBSET Players]
      /\ slot' \in [Players -> BattleGrounds \union {NotQueued, NoBattleGround}]
      /\ bgInstanceID' \in [Players -> BattleGrounds \union {NoBattleGround}]
  BY <1>1, <1>2 DEF TypeOK
<1> HIDE DEF found
<1>4. status[b] \in {"running", "leave"}
  <2>1. Alliance \in Teams /\ members[b] # {}
    BY DEF Teams
  <2> QED BY <2>1 DEF PlacesCounted
<1>5. /\ invited' \in [BattleGrounds -> [Teams -> Nat]]
      /\ \A c \in BattleGrounds : c # b => invited'[c] = invited[c]
      /\ \A team \in Teams : invited'[b][team] = invited[b][team] - Cardinality(S \intersect team)
      /\ scheduled' \in BOOLEAN /\ freeSlotQueue' \in Seq(BattleGrounds)
      /\ StatusInv' /\ FreeInv' /\ OfferInv'
  <2>1. /\ S \subseteq Players /\ PlacesFreed(S, b) /\ status[b] \in {"running", "leave"}
        /\ UNCHANGED <<phase, todo, offered, groupInfo, invitedTo, status>>
        /\ members' \in [BattleGrounds -> SUBSET Players]
        /\ \A c \in BattleGrounds : c # b => members'[c] = members[c]
        /\ S \intersect members[b] # {}
    BY <1>1, <1>2, <1>3, <1>4
  <2>2. /\ invited' \in [BattleGrounds -> [Teams -> Nat]]
        /\ \A c \in BattleGrounds : c # b => invited'[c] = invited[c]
        /\ \A team \in Teams : invited'[b][team] =
               invited[b][team] - Cardinality((S \intersect members[b]) \intersect team)
        /\ scheduled' \in BOOLEAN /\ freeSlotQueue' \in Seq(BattleGrounds)
        /\ StatusInv' /\ FreeInv' /\ OfferInv'
    BY <2>1, Freed
  <2> QED BY <1>2, <2>2
<1>6. \A p \in Players : place[p] = b => InWorld(p)
  BY Places DEF InWorld
<1>7. ASSUME NEW p \in S, place[p] = b, p \notin struck
      PROVE  groupInfo[p] = NoGroup
  BY <1>2, <1>7, Places DEF SlotsAgree, Agrees, JoinInv
<1>8. JoinInv'
  <2>1. \A p \in Players : groupInfo[p] # NoGroup => bgInstanceID'[p] = NoBattleGround
    BY <1>3 DEF JoinInv
  <2>2. \A p \in Players : place'[p] = Offline => bgInstanceID'[p] = NoBattleGround
    BY <1>2, <1>3, <1>6 DEF JoinInv, InWorld
  <2> QED BY <2>1, <2>2 DEF JoinInv, PlayersOf
<1>9. SlotsAgree' /\ KnownInv'
  <2>1. ASSUME NEW p \in Players
        PROVE  Same(p) \/ (Knows(p)' /\ (p \notin struck' => Agrees(p)'))
    <3>1. CASE p \in found
      <4>1. /\ slot'[p] = NotQueued /\ bgInstanceID'[p] = NoBattleGround
            /\ InWorld(p) /\ p \in S /\ p \notin offline'
        BY <1>2, <1>3, <3>1 DEF KnownInv, Knows, InWorld
      <4>2. Knows(p)'
        BY <4>1 DEF Knows
      <4>3. CASE place[p] = b
        <5>1. place'[p] \in {Far, Offline}
          BY <4>1, <4>3
        <5>2. p \notin struck => SlotOf(p)' = NotQueued /\ groupInfo'[p] = NoGroup
          BY <1>7, <4>1, <4>3 DEF SlotOf
        <5>3. p \notin struck' => Agrees(p)'
          BY <4>1, <5>1, <5>2, Places DEF Agrees
        <5> QED BY <4>2, <5>3
      <4>4. CASE place[p] # b /\ p \notin struck'
        <5>1. slot[p] = NotQueued
          BY <4>1, <4>4
        <5>2. bgInstanceID[p] = NoBattleGround
          <6>1. bgInstanceID[p] # NoBattleGround => slot[p] = bgInstanceID[p]
            BY DEF KnownInv, Knows
          <6>2. bgInstanceID[p] # NotQueued
            BY Places DEF TypeOK
          <6> QED BY <5>1, <6>1, <6>2
        <5>3. p \in struck => p \in struck'
          OBVIOUS
        <5> QED BY <4>1, <4>4, <5>1, <5>2, <5>3 DEF Same
      <4> QED BY <4>2, <4>3, <4>4
    <3>2. CASE p \notin found
      <4>1. place[p] # b \/ p \notin S
        BY <1>2, <1>6, <3>2 DEF InWorld
      <4>2. place'[p] = place[p] /\ (p \in struck => p \in struck')
        BY <4>1
      <4> QED BY <1>3, <3>2, <4>2 DEF Same
    <3> QED BY <3>1, <3>2
  <2>2. ASSUME NEW p \in Players, NEW c \in BattleGrounds, place'[p] = c
        PROVE  p \in members'[c]
    <3>1. ~(p \in S /\ place[p] = b) /\ place[p] = c
      BY <2>2, Places
    <3> QED BY <1>3, <3>1 DEF SlotsAgree
  <2> QED BY <2>1, <2>2, SlotsStay
<1>10. EventInv'
  BY DEF EventInv
<1>11. InvitationTimed'
  <2> SUFFICES ASSUME NEW p \in Players, Invited(p), place'[p] # Offline,
                      p \notin untimed, p \notin struck'
               PROVE  [player |-> p, bg |-> invitedTo[groupInfo[p]],
                       time |-> removeInviteTime[groupInfo[p]], group |-> groupInfo[p]] \in events'
    BY DEF InvitationTimed, Invited
  <2>1. ~(p \in S /\ place[p] = b) /\ p \notin struck
    BY <1>7 DEF Invited
  <2>2. place[p] # Offline
    BY <2>1
  <2>3. PICK e \in events : e = [player |-> p, bg |-> invitedTo[groupInfo[p]],
                                 time |-> removeInviteTime[groupInfo[p]], group |-> groupInfo[p]]
    BY <2>1, <2>2 DEF InvitationTimed
  <2>4. e.player = p
    BY <2>3
  <2> QED BY <2>1, <2>3, <2>4
<1>12. \A c \in BattleGrounds : Coming(c)' = Coming(c)
  <2>1. ASSUME NEW p \in Players, NEW c \in BattleGrounds
        PROVE  place'[p] = Far /\ bgInstanceID'[p] = c <=> place[p] = Far /\ bgInstanceID[p] = c
    <3>1. CASE p \in found
      BY <1>2, <1>3, <3>1, Places
    <3>2. CASE p \notin found
      BY <1>2, <1>3, <1>6, <3>2 DEF InWorld
    <3> QED BY <3>1, <3>2
  <2> QED BY <2>1 DEF Coming, OnTheWay, InvitedAmong, Invited
<1>13. PlacesCounted'
  <2> SUFFICES ASSUME NEW c \in BattleGrounds, NEW team \in Teams
               PROVE  /\ Cardinality(members'[c] \intersect team)
                             + Cardinality(Coming(c)' \intersect team) <= invited'[c][team]
                      /\ invited'[c][team] <= MaxPlayersPerTeam
                      /\ members'[c] \union Coming(c)' # {} => status'[c] \in {"running", "leave"}
    BY DEF PlacesCounted
  <2> DEFINE M == members[c] \intersect team
             G == Coming(c) \intersect team
             X == S \intersect team
  <2>1. /\ Cardinality(M) + Cardinality(G) <= invited[c][team]
        /\ invited[c][team] \in Nat /\ invited[c][team] <= MaxPlayersPerTeam
        /\ members[c] \union Coming(c) # {} => status[c] \in {"running", "leave"}
    BY Counts
  <2>2. Coming(c)' \intersect team = G /\ M \subseteq Players /\ G \subseteq Players
    BY <1>12 DEF TypeOK, Coming, OnTheWay, InvitedAmong
  <2>3. CASE c = b
    <3>1. /\ members'[c] \intersect team = M \ X /\ X \subseteq M
          /\ invited'[c][team] = invited[c][team] - Cardinality(X)
      BY <1>3, <1>5, <2>3
    <3> HIDE DEF M, G, X
    <3>2. /\ Cardinality(M \ X) = Cardinality(M) - Cardinality(X)
          /\ Cardinality(M) \in Nat /\ Cardinality(X) \in Nat /\ Cardinality(G) \in Nat
      BY <2>2, <3>1, NotCounted, Finite
    <3>3. Cardinality(M \ X) + Cardinality(G) <= invited'[c][team] /\ invited'[c][team] <= MaxPlayersPerTeam
      BY <2>1, <3>1, <3>2, Places
    <3> QED BY <1>4, <2>2, <2>3, <3>1, <3>3
  <2>4. CASE c # b
    BY <1>3, <1>5, <1>12, <2>1, <2>4
  <2> QED BY <2>3, <2>4
<1>14. TypeOK'
  <2>1. offline \in SUBSET Players /\ untimed \in SUBSET Players /\ struck' \in SUBSET Players
    BY DEF TypeOK
  <2>2. {offline', untimed', struck'} \subseteq SUBSET Players
    BY <2>1
  <2>3. events' \subseteq [player : Players, bg : BattleGrounds, time : 0 .. MaxJoins, group : Groups]
    BY DEF TypeOK
  <2> QED BY <1>3, <1>5, <2>2, <2>3, Zenon DEF TypeOK
<1> QED BY <1>5, <1>8, <1>9, <1>10, <1>11, <1>13, <1>14

LEMMA NextLeaveBattleground ==
    ASSUME QueueInv, NEW p \in Players, NEW b \in BattleGrounds, LeaveBattleground(p, b)
    PROVE  QueueInv'
<1>1. /\ place[p] = b /\ phase = "maps" /\ RemovePlayersAtLeave({p}, b)
      /\ place' = [place EXCEPT ![p] = Far]
      /\ UNCHANGED <<phase, todo, offered, joins, groupInfo, invitedTo, removeInviteTime, untimed,
                     offline, status, events, struck>>
  BY DEF LeaveBattleground, updateVars, queueVars
<1>2. {p} \subseteq members[b] /\ {p} # {}
  BY <1>1 DEF QueueInv, SlotsAgree
<1>3. /\ place' \in [Players -> BattleGrounds \union {World, Far, Offline}]
      /\ \A q \in Players : IF q \in {p} /\ place[q] = b THEN place'[q] \in {Far, Offline}
                            ELSE place'[q] = place[q]
      /\ struck' \subseteq Players
  BY <1>1 DEF QueueInv, TypeOK
<1> QED BY <1>1, <1>2, <1>3, NextLeave

LEMMA NextLogoutMember ==
    ASSUME QueueInv, NEW p \in Players, NEW b \in BattleGrounds, LogoutMember(p, b)
    PROVE  QueueInv'
<1>1. /\ place[p] = b /\ bgInstanceID[p] = b /\ phase = "maps" /\ RemovePlayersAtLeave({p}, b)
      /\ PlayerLoggedOut(p)
      /\ UNCHANGED <<phase, todo, offered, joins, groupInfo, invitedTo, removeInviteTime, untimed,
                     status, struck>>
  BY DEF LogoutMember, updateVars
<1>2. /\ place' = [place EXCEPT ![p] = Offline]
      /\ events' = {e \in events : e.player # p}
      /\ offline' = IF slot[p] # NotQueued /\ groupInfo[p] # NoGroup THEN offline \union {p}
                    ELSE offline
  BY <1>1 DEF PlayerLoggedOut
<1>3. groupInfo[p] = NoGroup
  BY <1>1, Places DEF QueueInv, JoinInv
<1>4. /\ place' \in [Players -> BattleGrounds \union {World, Far, Offline}]
      /\ \A q \in Players : IF q \in {p} /\ place[q] = b THEN place'[q] \in {Far, Offline}
                            ELSE place'[q] = place[q]
      /\ struck' \subseteq Players
  BY <1>1, <1>2 DEF QueueInv, TypeOK
<1>5. /\ UNCHANGED offline /\ events' \subseteq events
      /\ \A e \in events \ events' : e.player \in {p} /\ place[e.player] = b
  BY <1>1, <1>2, <1>3
<1>6. {p} \subseteq members[b] /\ {p} # {}
  BY <1>1 DEF QueueInv, SlotsAgree
<1> QED BY <1>1, <1>4, <1>5, <1>6, NextLeave

LEMMA NextRemoveAllPlayers ==
    ASSUME QueueInv, NEW b \in BattleGrounds, RemoveAllPlayers(b)
    PROVE  QueueInv'
<1>1. PICK S : S = members[b]
  OBVIOUS
<1>2. /\ S # {} /\ phase = "maps" /\ RemovePlayersAtLeave(S, b)
      /\ place' = [q \in Players |-> IF q \in S /\ place[q] = b THEN Far ELSE place[q]]
      /\ struck' = struck \union {q \in S : InWorld(q) /\ place[q] # b /\ slot[q] # NotQueued}
      /\ UNCHANGED <<phase, todo, offered, joins, groupInfo, invitedTo, removeInviteTime, untimed,
                     offline, status, events>>
  BY <1>1 DEF RemoveAllPlayers, updateVars, queueVars
<1>3. /\ place' \in [Players -> BattleGrounds \union {World, Far, Offline}]
      /\ \A q \in Players : IF q \in S /\ place[q] = b THEN place'[q] \in {Far, Offline}
                            ELSE place'[q] = place[q]
  BY <1>2 DEF QueueInv, TypeOK
<1>4. /\ struck' \subseteq Players /\ struck \subseteq struck'
      /\ \A q \in S : InWorld(q) /\ place[q] # b /\ slot[q] # NotQueued => q \in struck'
  <2>1. S \subseteq Players /\ struck \subseteq Players
    BY <1>1 DEF QueueInv, TypeOK
  <2> QED BY <1>2, <2>1
<1> QED BY <1>1, <1>2, <1>3, <1>4, NextLeave

\* One that was on the way to b is in m_Players now; when it was there already, by
\* an earlier log-out on the way, its second place may be free again.
LEMMA Arrived ==
    ASSUME TypeOK, JoinInv, PlacesCounted, NEW p \in Players, NEW b \in BattleGrounds,
           place[p] = Far, bgInstanceID[p] = b, place'[p] # Far,
           \A q \in Players : q # p => place'[q] = place[q] /\ bgInstanceID'[q] = bgInstanceID[q],
           UNCHANGED <<groupInfo, invitedTo, status>>,
           \A c \in BattleGrounds : members'[c] = IF c = b THEN members[c] \union {p} ELSE members[c],
           \A c \in BattleGrounds : c # b => invited'[c] = invited[c],
           \A team \in Teams :
               \/ invited'[b][team] = invited[b][team]
               \/ /\ p \in members[b]
                  /\ invited'[b][team] = invited[b][team] - Cardinality({p} \intersect team)
    PROVE  PlacesCounted'
<1>1. \A c \in BattleGrounds : Coming(c)' = IF c = b THEN Coming(c) \ {p} ELSE Coming(c)
  <2>1. \A c \in BattleGrounds : InvitedAmong(Players, c)' = InvitedAmong(Players, c)
    BY DEF InvitedAmong, Invited
  <2>2. \A c \in BattleGrounds : p \notin InvitedAmong(Players, c)
    BY Places DEF InvitedAmong, Invited, JoinInv
  <2>3. \A c \in BattleGrounds : OnTheWay(c)' = IF c = b THEN OnTheWay(c) \ {p} ELSE OnTheWay(c)
    BY DEF OnTheWay
  <2> QED BY <2>1, <2>2, <2>3 DEF Coming
<1>2. p \in Coming(b)
  BY DEF Coming, OnTheWay
<1> SUFFICES ASSUME NEW c \in BattleGrounds, NEW team \in Teams
             PROVE  /\ Cardinality(members'[c] \intersect team)
                           + Cardinality(Coming(c)' \intersect team) <= invited'[c][team]
                    /\ invited'[c][team] <= MaxPlayersPerTeam
                    /\ members'[c] \union Coming(c)' # {} => status'[c] \in {"running", "leave"}
  BY DEF PlacesCounted
<1> DEFINE M == members[c] \intersect team
           G == Coming(c) \intersect team
           X == {p} \intersect team
<1>3. /\ Cardinality(M) + Cardinality(G) <= invited[c][team]
      /\ invited[c][team] \in Nat /\ invited[c][team] <= MaxPlayersPerTeam
      /\ members[c] \union Coming(c) # {} => status[c] \in {"running", "leave"}
  BY Counts
<1>4. M \subseteq Players /\ G \subseteq Players /\ X \subseteq Players
  BY DEF TypeOK, Coming, OnTheWay, InvitedAmong
<1>5. CASE c = b
  <2>1. /\ members'[c] \intersect team = M \union X /\ Coming(c)' \intersect team = G \ X
        /\ X \subseteq G
        /\ p \in members[b] => X \subseteq M
        /\ p \notin members[b] => M \intersect X = {}
    BY <1>1, <1>2, <1>5
  <2>2. \/ invited'[c][team] = invited[c][team]
        \/ p \in members[b] /\ invited'[c][team] = invited[c][team] - Cardinality(X)
    BY <1>5
  <2>3. status'[c] \in {"running", "leave"}
    BY <1>2, <1>3, <1>5
  <2> HIDE DEF M, G, X
  <2>4. /\ Cardinality(G \ X) = Cardinality(G) - Cardinality(X)
        /\ Cardinality(M) \in Nat /\ Cardinality(X) \in Nat /\ Cardinality(G) \in Nat
    BY <1>4, <2>1, NotCounted, Finite
  <2>5. /\ Cardinality(M) + Cardinality(G) <= invited[c][team]
        /\ invited[c][team] \in Nat /\ invited[c][team] <= MaxPlayersPerTeam
    BY <1>3
  <2>6. CASE p \in members[b]
    <3>1. Cardinality(M \union X) = Cardinality(M)
      <4>1. M \union X = M
        BY <2>1, <2>6
      <4> QED BY <4>1
    <3>2. Cardinality(M \union X) + Cardinality(G \ X) <= invited'[c][team]
      <4>1. CASE invited'[c][team] = invited[c][team]
        BY <2>5, <2>4, <3>1, <4>1
      <4>2. CASE invited'[c][team] = invited[c][team] - Cardinality(X)
        BY <2>5, <2>4, <3>1, <4>2
      <4> QED BY <2>2, <4>1, <4>2
    <3>3. invited'[c][team] <= MaxPlayersPerTeam
      BY <2>5, <2>2, <2>4, Places
    <3> QED BY <2>1, <2>3, <3>2, <3>3
  <2>7. CASE p \notin members[b]
    <3>1. Cardinality(M \union X) = Cardinality(M) + Cardinality(X)
      BY <1>4, <2>1, <2>7, Together
    <3>2. Cardinality(M \union X) + Cardinality(G \ X) <= invited'[c][team]
      BY <1>3, <2>2, <2>4, <2>7, <3>1
    <3> QED BY <1>3, <2>1, <2>2, <2>3, <2>7, <3>2
  <2> QED BY <2>6, <2>7
<1>6. CASE c # b
  BY <1>1, <1>3, <1>6
<1> QED BY <1>5, <1>6

\* Who logs out on the way to a battleground stays in its m_Players, offline.
LEMMA NextLogoutOnTheWay ==
    ASSUME QueueInv, NEW p \in Players, NEW b \in BattleGrounds, LogoutOnTheWay(p, b)
    PROVE  QueueInv'
<1> USE DEF QueueInv
<1>1. /\ phase = "maps" /\ place[p] = Far /\ bgInstanceID[p] = b /\ PlacesFreed({p}, b)
      /\ members' = IF slot[p] = b THEN [members EXCEPT ![b] = @ \union {p}] ELSE members
      /\ slot' = [slot EXCEPT ![p] = NotQueued]
      /\ bgInstanceID' = [bgInstanceID EXCEPT ![p] = NoBattleGround]
      /\ place' = [place EXCEPT ![p] = Offline]
      /\ events' = {e \in events : e.player # p}
      /\ offline' = IF slot[p] # NotQueued /\ groupInfo[p] # NoGroup THEN offline \union {p}
                    ELSE offline
      /\ UNCHANGED <<phase, todo, offered, joins, groupInfo, invitedTo, removeInviteTime, status,
                     untimed, struck>>
  BY DEF LogoutOnTheWay, PlayerLoggedOut, updateVars
<1>2. slot[p] = b /\ groupInfo[p] = NoGroup /\ offline' = offline /\ p \notin offline
  BY <1>1, Places DEF KnownInv, Knows, JoinInv
<1>3. /\ place' \in [Players -> BattleGrounds \union {World, Far, Offline}]
      /\ bgInstanceID' \in [Players -> BattleGrounds \union {NoBattleGround}]
      /\ slot' \in [Players -> BattleGrounds \union {NotQueued, NoBattleGround}]
      /\ members' \in [BattleGrounds -> SUBSET Players]
      /\ \A c \in BattleGrounds : members'[c] = IF c = b THEN members[c] \union {p} ELSE members[c]
      /\ \A q \in Players :
            /\ place'[q] = IF q = p THEN Offline ELSE place[q]
            /\ bgInstanceID'[q] = IF q = p THEN NoBattleGround ELSE bgInstanceID[q]
            /\ slot'[q] = IF q = p THEN NotQueued ELSE slot[q]
  BY <1>1, <1>2 DEF TypeOK
<1>4. status[b] \in {"running", "leave"}
  <2>1. Alliance \in Teams /\ p \in Coming(b)
    BY <1>1 DEF Teams, Coming, OnTheWay
  <2> QED BY <2>1 DEF PlacesCounted
<1>5. /\ invited' \in [BattleGrounds -> [Teams -> Nat]]
      /\ \A c \in BattleGrounds : c # b => invited'[c] = invited[c]
      /\ \A team \in Teams : invited'[b][team] = invited[b][team]
             - Cardinality(({p} \intersect members[b]) \intersect team)
      /\ scheduled' \in BOOLEAN /\ freeSlotQueue' \in Seq(BattleGrounds)
      /\ StatusInv' /\ FreeInv' /\ OfferInv'
  <2>1. {p} \subseteq Players
    OBVIOUS
  <2>2. /\ \A c \in BattleGrounds : c # b => members'[c] = members[c]
        /\ members[b] \subseteq members'[b]
    BY <1>3
  <2> QED BY <1>1, <1>3, <1>4, <2>1, <2>2, Freed
<1>6. PlacesCounted'
  <2>1. ASSUME NEW team \in Teams
        PROVE  \/ invited'[b][team] = invited[b][team]
               \/ /\ p \in members[b]
                  /\ invited'[b][team] = invited[b][team] - Cardinality({p} \intersect team)
    <3>1. CASE p \in members[b]
      <4>1. ({p} \intersect members[b]) \intersect team = {p} \intersect team
        BY <3>1
      <4> QED BY <1>5, <3>1, <4>1
    <3>2. CASE p \notin members[b]
      <4>1. ({p} \intersect members[b]) \intersect team = {}
        BY <3>2
      <4>2. invited[b][team] \in Nat /\ Cardinality({}) = 0
        BY FS_EmptySet DEF TypeOK
      <4>3. invited'[b][team] = invited[b][team] - Cardinality({})
        BY <1>5, <4>1
      <4> QED BY <4>2, <4>3
    <3> QED BY <3>1, <3>2
  <2>2. place'[p] # Far
    BY <1>3, Places
  <2>3. \A q \in Players : q # p => place'[q] = place[q] /\ bgInstanceID'[q] = bgInstanceID[q]
    BY <1>3
  <2>4. \A c \in BattleGrounds : members'[c] = IF c = b THEN members[c] \union {p} ELSE members[c]
    BY <1>3
  <2>5. \A c \in BattleGrounds : c # b => invited'[c] = invited[c]
    BY <1>5
  <2>6. place[p] = Far /\ bgInstanceID[p] = b /\ UNCHANGED <<groupInfo, invitedTo, status>>
    BY <1>1
  <2> QED BY <2>1, <2>2, <2>3, <2>4, <2>5, <2>6, Arrived
<1>7. JoinInv' /\ EventInv'
  BY <1>1, <1>3 DEF JoinInv, EventInv, PlayersOf
<1>8. SlotsAgree' /\ KnownInv'
  <2>1. ASSUME NEW q \in Players
        PROVE  Same(q) \/ (Knows(q)' /\ (q \notin struck' => Agrees(q)'))
    <3>1. CASE q = p
      <4>1. SlotOf(q)' = NotQueued
        BY <1>3, <3>1 DEF SlotOf
      <4> QED BY <1>1, <1>2, <1>3, <3>1, <4>1, Places DEF Knows, Agrees
    <3>2. CASE q # p
      BY <1>1, <1>2, <1>3, <3>2 DEF Same
    <3> QED BY <3>1, <3>2
  <2>2. \A q \in Players, c \in BattleGrounds : place'[q] = c => q \in members'[c]
    BY <1>3, Places DEF SlotsAgree
  <2> QED BY <2>1, <2>2, SlotsStay
<1>9. InvitationTimed'
  <2> SUFFICES ASSUME NEW q \in Players, Invited(q), place'[q] # Offline,
                      q \notin untimed, q \notin struck
               PROVE  [player |-> q, bg |-> invitedTo[groupInfo[q]],
                       time |-> removeInviteTime[groupInfo[q]], group |-> groupInfo[q]] \in events'
    BY <1>1 DEF InvitationTimed, Invited
  <2>1. q # p /\ place[q] # Offline
    BY <1>3
  <2>2. PICK e \in events : e = [player |-> q, bg |-> invitedTo[groupInfo[q]],
                                 time |-> removeInviteTime[groupInfo[q]], group |-> groupInfo[q]]
    BY <2>1 DEF InvitationTimed
  <2>3. e.player = q
    BY <2>2
  <2> QED BY <1>1, <2>1, <2>2, <2>3
<1>10. TypeOK'
  <2>1. offline \in SUBSET Players /\ untimed \in SUBSET Players /\ struck \in SUBSET Players
    BY DEF TypeOK
  <2>2. {offline', untimed', struck'} \subseteq SUBSET Players
    BY <1>1, <1>2, <2>1
  <2>3. events' \subseteq [player : Players, bg : BattleGrounds, time : 0 .. MaxJoins, group : Groups]
    BY <1>1 DEF TypeOK
  <2> QED BY <1>1, <1>3, <1>5, <2>2, <2>3, Zenon DEF TypeOK
<1> QED BY <1>5, <1>6, <1>7, <1>8, <1>9, <1>10

LEMMA OffersStay ==
    ASSUME OfferInv, UNCHANGED <<todo, offered, scheduled, groupInfo, invitedTo, invited, status>>
    PROVE  OfferInv'
BY DEF OfferInv, Running, Contains, Uninvited, PlayersOf, FreeSlotsForTeam

\* A player on the way to another map keeps everything.
LEMMA NextFarTeleport ==
    ASSUME QueueInv, NEW p \in Players, FarTeleport(p)
    PROVE  QueueInv'
<1> USE DEF QueueInv
<1>1. /\ InWorld(p) /\ bgInstanceID[p] = NoBattleGround
      /\ place' = [place EXCEPT ![p] = Far]
      /\ UNCHANGED <<phase, todo, offered, scheduled, joins, groupInfo, offline, invitedTo,
                     removeInviteTime, untimed, struck, events, slot, bgInstanceID, status,
                     freeSlotQueue, invited, members>>
  BY DEF FarTeleport, updateVars, queueVars, bgVars
<1>2. /\ place' \in [Players -> BattleGrounds \union {World, Far, Offline}]
      /\ \A q \in Players : place'[q] = IF q = p THEN Far ELSE place[q]
  BY <1>1 DEF TypeOK
<1>3. TypeOK'
  BY <1>1, <1>2, Zenon DEF TypeOK
<1>4. \A q \in Players : place'[q] = Offline <=> place[q] = Offline
  BY <1>1, <1>2, Places DEF InWorld
<1>5. SlotsAgree' /\ KnownInv'
  <2>1. ASSUME NEW q \in Players
        PROVE  Same(q) \/ (Knows(q)' /\ (q \notin struck' => Agrees(q)'))
    <3>1. CASE q = p
      <4>1. SlotOf(q)' = SlotOf(q)
        BY <1>1, <1>4 DEF SlotOf
      <4>2. Knows(q)'
        BY <1>1, <1>4, <3>1, <4>1 DEF KnownInv, Knows
      <4>3. q \notin struck => Agrees(q)'
        BY <1>1, <1>2, <1>4, <3>1, <4>1, Places DEF SlotsAgree, Agrees
      <4> QED BY <1>1, <4>2, <4>3
    <3>2. CASE q # p
      BY <1>1, <1>2, <3>2 DEF Same
    <3> QED BY <3>1, <3>2
  <2>2. \A q \in Players, c \in BattleGrounds : place'[q] = c => q \in members'[c]
    BY <1>1, <1>2, Places DEF SlotsAgree
  <2> QED BY <2>1, <2>2, SlotsStay
<1>6. JoinInv' /\ EventInv' /\ InvitationTimed'
  BY <1>1, <1>4 DEF JoinInv, EventInv, InvitationTimed, PlayersOf, Invited
<1>7. PlacesCounted' /\ OfferInv'
  <2>1. \A q \in Players, c \in BattleGrounds :
            place'[q] = Far /\ bgInstanceID'[q] = c <=> place[q] = Far /\ bgInstanceID[q] = c
    BY <1>1, <1>2, Places
  <2> QED BY <1>1, <2>1, CountsStay, OffersStay
<1>8. StatusInv' /\ FreeInv'
  BY <1>1, FreeStays DEF StatusInv
<1> QED BY <1>3, <1>5, <1>6, <1>7, <1>8

\* Who arrives in the battleground has its slot.
LEMMA NextWorldportAck ==
    ASSUME QueueInv, NEW p \in Players, WorldportAck(p)
    PROVE  QueueInv'
<1> USE DEF QueueInv
<1> DEFINE there == IF bgInstanceID[p] = NoBattleGround THEN World ELSE bgInstanceID[p]
<1>1. /\ place[p] = Far /\ place' = [place EXCEPT ![p] = there]
      /\ members' = [b \in BattleGrounds |->
            IF bgInstanceID[p] = b /\ slot[p] = b THEN members[b] \union {p} ELSE members[b]]
      /\ UNCHANGED <<phase, todo, offered, scheduled, joins, groupInfo, offline, invitedTo,
                     removeInviteTime, untimed, struck, events, slot, bgInstanceID, status,
                     freeSlotQueue, invited>>
  BY DEF WorldportAck, updateVars, queueVars, bgVars
<1>2. /\ place' \in [Players -> BattleGrounds \union {World, Far, Offline}]
      /\ there \in BattleGrounds \union {World}
      /\ \A q \in Players : place'[q] = IF q = p THEN there ELSE place[q]
  BY <1>1 DEF TypeOK
<1>3. \A c \in BattleGrounds : bgInstanceID[p] = c => slot[p] = c /\ there = c
  BY Places DEF KnownInv, Knows
<1>4. bgInstanceID[p] = NoBattleGround => there = World
  OBVIOUS
<1> HIDE DEF there
<1>5. /\ members' \in [BattleGrounds -> SUBSET Players]
      /\ \A b \in BattleGrounds : members[b] \subseteq members'[b] /\ members'[b] \subseteq Players
      /\ \A b \in BattleGrounds :
            members'[b] = IF bgInstanceID[p] = b THEN members[b] \union {p} ELSE members[b]
  BY <1>1, <1>3 DEF TypeOK
<1>6. TypeOK'
  BY <1>1, <1>2, <1>5, Zenon DEF TypeOK
<1>7. \A q \in Players : place'[q] = Offline <=> place[q] = Offline
  BY <1>1, <1>2, Places
<1>8. SlotsAgree' /\ KnownInv'
  <2>1. ASSUME NEW q \in Players
        PROVE  Same(q) \/ (Knows(q)' /\ (q \notin struck' => Agrees(q)'))
    <3>1. CASE q = p
      <4>1. SlotOf(q)' = SlotOf(q)
        BY <1>1, <1>7 DEF SlotOf
      <4>2. bgInstanceID[p] \in BattleGrounds \/ bgInstanceID[p] = NoBattleGround
        BY DEF TypeOK
      <4>3. Knows(q)'
        BY <1>1, <1>2, <1>3, <1>7, <3>1, <4>1, <4>2 DEF KnownInv, Knows
      <4>4. \A c \in BattleGrounds : place'[q] = c <=> bgInstanceID'[q] = c /\ place'[q] # Far
        BY <1>1, <1>2, <1>3, <1>4, <3>1, <4>2, Places
      <4>5. q \notin struck => Agrees(q)'
        BY <1>1, <1>7, <4>1, <4>4 DEF SlotsAgree, Agrees
      <4> QED BY <1>1, <4>3, <4>5
    <3>2. CASE q # p
      BY <1>1, <1>2, <3>2 DEF Same
    <3> QED BY <3>1, <3>2
  <2>2. ASSUME NEW q \in Players, NEW c \in BattleGrounds, place'[q] = c
        PROVE  q \in members'[c]
    <3>1. CASE q = p
      <4>1. bgInstanceID[p] = c
        <5>1. bgInstanceID[p] \in BattleGrounds \/ bgInstanceID[p] = NoBattleGround
          BY DEF TypeOK
        <5> QED BY <1>2, <1>3, <1>4, <2>2, <3>1, <5>1, Places
      <4> QED BY <1>5, <3>1, <4>1
    <3>2. CASE q # p
      BY <1>2, <1>5, <2>2, <3>2 DEF SlotsAgree
    <3> QED BY <3>1, <3>2
  <2> QED BY <2>1, <2>2, SlotsStay
<1>9. JoinInv' /\ EventInv' /\ InvitationTimed'
  BY <1>1, <1>7 DEF JoinInv, EventInv, InvitationTimed, PlayersOf, Invited
<1>10. PlacesCounted'
  <2>1. CASE bgInstanceID[p] = NoBattleGround
    <3>1. members' = members
      <4>1. \A b \in BattleGrounds : members'[b] = members[b]
        BY <1>5, <2>1, Places
      <4> QED BY <1>5, <4>1 DEF TypeOK
    <3>2. \A q \in Players, c \in BattleGrounds :
              place'[q] = Far /\ bgInstanceID'[q] = c <=> place[q] = Far /\ bgInstanceID[q] = c
      BY <1>1, <1>2, <2>1, Places
    <3> QED BY <1>1, <3>1, <3>2, CountsStay
  <2>2. CASE bgInstanceID[p] # NoBattleGround
    <3>1. PICK b \in BattleGrounds : bgInstanceID[p] = b
      BY <2>2 DEF TypeOK
    <3>2. place'[p] # Far
      BY <1>2, Places
    <3>3. \A c \in BattleGrounds : members'[c] = IF c = b THEN members[c] \union {p} ELSE members[c]
      BY <1>5, <3>1
    <3>4. \A q \in Players : q # p => place'[q] = place[q] /\ bgInstanceID'[q] = bgInstanceID[q]
      BY <1>1, <1>2
    <3>5. \A c \in BattleGrounds : invited'[c] = invited[c]
      BY <1>1
    <3> QED BY <1>1, <3>1, <3>2, <3>3, <3>4, <3>5, Arrived
  <2> QED BY <2>1, <2>2
<1>11. StatusInv' /\ OfferInv'
  BY <1>1, OffersStay DEF StatusInv
<1>12. FreeInv'
  <2>1. ASSUME NEW b \in Running', ~Contains(freeSlotQueue, b)
        PROVE  Cardinality(members'[b]) >= 2 * MaxPlayersPerTeam
    <3>1. b \in BattleGrounds /\ Cardinality(members[b]) >= 2 * MaxPlayersPerTeam
      BY <1>1, <2>1 DEF FreeInv, Running
    <3>2. /\ Cardinality(members[b]) <= Cardinality(members'[b])
          /\ Cardinality(members[b]) \in Nat /\ Cardinality(members'[b]) \in Nat
      <4>1. members[b] \subseteq members'[b] /\ members'[b] \subseteq Players /\ members[b] \subseteq Players
        BY <1>5, <3>1
      <4> QED BY <4>1, Finite, Fewer
    <3> QED BY <3>1, <3>2, Places
  <2> QED BY <1>1, <2>1 DEF FreeInv, Contains
<1> QED BY <1>6, <1>8, <1>9, <1>10, <1>11, <1>12

\* Who logs out keeps the place in the queue, and its events are gone.
LEMMA NextLogoutPlayer ==
    ASSUME QueueInv, NEW p \in Players, LogoutPlayer(p)
    PROVE  QueueInv'
<1> USE DEF QueueInv
<1>1. /\ place[p] # Offline /\ bgInstanceID[p] = NoBattleGround
      /\ slot' = [slot EXCEPT ![p] = NotQueued]
      /\ place' = [place EXCEPT ![p] = Offline]
      /\ events' = {e \in events : e.player # p}
      /\ offline' = IF slot[p] # NotQueued /\ groupInfo[p] # NoGroup THEN offline \union {p}
                    ELSE offline
      /\ UNCHANGED <<phase, todo, offered, scheduled, joins, groupInfo, invitedTo, removeInviteTime,
                     untimed, struck, bgInstanceID, status, freeSlotQueue, invited, members>>
  BY DEF LogoutPlayer, PlayerLoggedOut, updateVars, bgVars
<1>2. /\ place' \in [Players -> BattleGrounds \union {World, Far, Offline}]
      /\ slot' \in [Players -> BattleGrounds \union {NotQueued, NoBattleGround}]
      /\ \A q \in Players : /\ place'[q] = IF q = p THEN Offline ELSE place[q]
                            /\ slot'[q] = IF q = p THEN NotQueued ELSE slot[q]
  BY <1>1 DEF TypeOK
<1>3. TypeOK'
  <2>1. offline' \in SUBSET Players /\ untimed' \in SUBSET Players /\ struck' \in SUBSET Players
    BY <1>1 DEF TypeOK
  <2>2. events' \subseteq [player : Players, bg : BattleGrounds, time : 0 .. MaxJoins, group : Groups]
    BY <1>1 DEF TypeOK
  <2>3. {offline', untimed', struck'} \subseteq SUBSET Players
    BY <2>1
  <2> QED BY <1>1, <1>2, <2>2, <2>3, Zenon DEF TypeOK
<1>4. SlotsAgree' /\ KnownInv'
  <2>1. ASSUME NEW q \in Players
        PROVE  Same(q) \/ (Knows(q)' /\ (q \notin struck' => Agrees(q)'))
    <3>1. CASE q = p
      <4>1. slot'[q] = NotQueued /\ SlotOf(q)' = NotQueued /\ place'[q] = Offline
        BY <1>2, <3>1 DEF SlotOf
      <4>2. p \notin offline
        BY <1>1 DEF KnownInv, Knows
      <4>3. p \in offline' <=> slot[p] # NotQueued /\ groupInfo[p] # NoGroup
        BY <1>1, <4>2
      <4>4. Knows(q)'
        BY <1>1, <3>1, <4>1, <4>3 DEF Knows
      <4>5. p \notin struck /\ groupInfo[p] # NoGroup => slot[p] # NotQueued
        <5>1. p \notin struck /\ groupInfo[p] # NoGroup =>
                  slot[p] = invitedTo[groupInfo[p]] /\ groupInfo[p] \in Groups
          BY <1>1 DEF SlotsAgree, Agrees, SlotOf, TypeOK
        <5>2. \A g \in Groups : invitedTo[g] # NotQueued
          BY Places DEF TypeOK
        <5> QED BY <5>1, <5>2
      <4>6. q \notin struck => Agrees(q)'
        BY <1>1, <3>1, <4>1, <4>3, <4>5, Places DEF Agrees
      <4> QED BY <1>1, <4>4, <4>6
    <3>2. CASE q # p
      BY <1>1, <1>2, <3>2 DEF Same
    <3> QED BY <3>1, <3>2
  <2>2. \A q \in Players, c \in BattleGrounds : place'[q] = c => q \in members'[c]
    BY <1>1, <1>2, Places DEF SlotsAgree
  <2> QED BY <2>1, <2>2, SlotsStay
<1>5. JoinInv'
  BY <1>1, <1>2 DEF JoinInv, PlayersOf
<1>6. EventInv'
  BY <1>1 DEF EventInv
<1>7. InvitationTimed'
  <2> SUFFICES ASSUME NEW q \in Players, Invited(q), place'[q] # Offline,
                      q \notin untimed, q \notin struck
               PROVE  [player |-> q, bg |-> invitedTo[groupInfo[q]],
                       time |-> removeInviteTime[groupInfo[q]], group |-> groupInfo[q]] \in events'
    BY <1>1 DEF InvitationTimed, Invited
  <2>1. q # p /\ place[q] # Offline
    BY <1>2
  <2>2. PICK e \in events : e = [player |-> q, bg |-> invitedTo[groupInfo[q]],
                                 time |-> removeInviteTime[groupInfo[q]], group |-> groupInfo[q]]
    BY <2>1 DEF InvitationTimed
  <2>3. e.player = q
    BY <2>2
  <2> QED BY <1>1, <2>1, <2>2, <2>3
<1>8. PlacesCounted'
  <2>1. \A q \in Players, c \in BattleGrounds :
            place'[q] = Far /\ bgInstanceID'[q] = c <=> place[q] = Far /\ bgInstanceID[q] = c
    BY <1>1, <1>2, Places
  <2> QED BY <1>1, <2>1, CountsStay
<1>9. StatusInv' /\ FreeInv' /\ OfferInv'
  BY <1>1, FreeStays, OffersStay DEF StatusInv
<1> QED BY <1>3, <1>4, <1>5, <1>6, <1>7, <1>8, <1>9

\* Who logs in finds the invitation again, and no event.
LEMMA NextLogin ==
    ASSUME QueueInv, NEW p \in Players, Login(p)
    PROVE  QueueInv'
<1> USE DEF QueueInv
<1>1. /\ place[p] = Offline /\ place' = [place EXCEPT ![p] = World]
      /\ offline' = offline \ {p} /\ struck' = struck \ {p}
      /\ UNCHANGED <<phase, todo, offered, scheduled, joins, groupInfo, invitedTo, removeInviteTime,
                     events, bgInstanceID, status, freeSlotQueue, invited, members>>
  BY DEF Login, updateVars, bgVars
<1>2. /\ slot' = IF groupInfo[p] = NoGroup THEN slot
                 ELSE [slot EXCEPT ![p] = invitedTo[groupInfo[p]]]
      /\ untimed' = IF Invited(p) THEN untimed \union {p} ELSE untimed
  BY DEF Login
<1>3. /\ place' \in [Players -> BattleGrounds \union {World, Far, Offline}]
      /\ \A q \in Players : place'[q] = IF q = p THEN World ELSE place[q]
  BY <1>1 DEF TypeOK
<1>4. /\ slot[p] = NotQueued /\ bgInstanceID[p] = NoBattleGround
      /\ groupInfo[p] # NoGroup => groupInfo[p] \in Groups
                                   /\ invitedTo[groupInfo[p]] \in BattleGrounds \union {NoBattleGround}
  BY <1>1 DEF KnownInv, Knows, SlotOf, JoinInv, TypeOK
<1>5. /\ slot' \in [Players -> BattleGrounds \union {NotQueued, NoBattleGround}]
      /\ \A q \in Players : slot'[q] = IF q = p /\ groupInfo[p] # NoGroup THEN invitedTo[groupInfo[p]]
                                       ELSE slot[q]
  BY <1>2, <1>4 DEF TypeOK
<1>6. TypeOK'
  <2>1. untimed \in SUBSET Players /\ offline \in SUBSET Players /\ struck \in SUBSET Players
    BY DEF TypeOK
  <2>2. untimed' \in SUBSET Players /\ offline' \in SUBSET Players /\ struck' \in SUBSET Players
    BY <1>1, <1>2, <2>1
  <2>3. {offline', untimed', struck'} \subseteq SUBSET Players
    BY <2>2
  <2> QED BY <1>1, <1>3, <1>5, <2>3, Zenon DEF TypeOK
<1>7. SlotsAgree' /\ KnownInv'
  <2>1. ASSUME NEW q \in Players
        PROVE  Same(q) \/ (Knows(q)' /\ (q \notin struck' => Agrees(q)'))
    <3>1. CASE q = p
      <4>1. /\ SlotOf(q)' = slot'[q] /\ bgInstanceID'[q] = NoBattleGround
            /\ q \notin offline' /\ place'[q] = World
        BY <1>1, <1>3, <1>4, <1>5, <3>1, Places DEF SlotOf
      <4> QED BY <4>1, Places DEF Knows, Agrees
    <3>2. CASE q # p
      BY <1>1, <1>3, <1>5, <3>2 DEF Same
    <3> QED BY <3>1, <3>2
  <2>2. \A q \in Players, c \in BattleGrounds : place'[q] = c => q \in members'[c]
    BY <1>1, <1>3, Places DEF SlotsAgree
  <2> QED BY <2>1, <2>2, SlotsStay
<1>8. JoinInv' /\ EventInv'
  BY <1>1, <1>3, Places DEF JoinInv, PlayersOf, EventInv
<1>9. InvitationTimed'
  <2> SUFFICES ASSUME NEW q \in Players, Invited(q), place'[q] # Offline,
                      q \notin untimed', q \notin struck'
               PROVE  [player |-> q, bg |-> invitedTo[groupInfo[q]],
                       time |-> removeInviteTime[groupInfo[q]], group |-> groupInfo[q]] \in events
    BY <1>1 DEF InvitationTimed, Invited
  <2>1. q # p /\ q \notin untimed
    BY <1>2
  <2>2. place[q] # Offline /\ q \notin struck
    BY <1>1, <1>3, <2>1
  <2> QED BY <2>1, <2>2 DEF InvitationTimed
<1>10. PlacesCounted'
  <2>1. \A q \in Players, c \in BattleGrounds :
            place'[q] = Far /\ bgInstanceID'[q] = c <=> place[q] = Far /\ bgInstanceID[q] = c
    BY <1>1, <1>3, <1>4, Places
  <2> QED BY <1>1, <2>1, CountsStay
<1>11. StatusInv' /\ FreeInv' /\ OfferInv'
  BY <1>1, FreeStays, OffersStay DEF StatusInv
<1> QED BY <1>6, <1>7, <1>8, <1>9, <1>10, <1>11

\* A battleground that ends, or is deleted when nobody is to have a place in it.
LEMMA NextClosed ==
    ASSUME QueueInv, NEW b \in BattleGrounds, NEW v \in {"leave", "deleted"}, phase = "maps",
           status[b] \in {"running", "leave"}, v = "deleted" => members[b] \union Coming(b) = {},
           status' = [status EXCEPT ![b] = v], freeSlotQueue' = RemoveFirst(freeSlotQueue, b),
           UNCHANGED <<phase, todo, offered, scheduled, joins, groupInfo, offline, invitedTo,
                       removeInviteTime, untimed, struck, events, place, slot, bgInstanceID, invited,
                       members>>
    PROVE  QueueInv'
<1> USE DEF QueueInv
<1>1. /\ status' \in [BattleGrounds -> {"none", "running", "leave", "deleted"}]
      /\ status'[b] = v /\ \A c \in BattleGrounds : c # b => status'[c] = status[c]
  BY DEF TypeOK
<1>2. /\ freeSlotQueue \in Seq(BattleGrounds) /\ todo = <<>>
      /\ \A i, j \in 1 .. Len(freeSlotQueue) : freeSlotQueue[i] = freeSlotQueue[j] => i = j
  BY DEF TypeOK, FreeInv
<1>3. /\ freeSlotQueue' \in Seq(BattleGrounds)
      /\ \A k \in 1 .. Len(freeSlotQueue') :
            /\ freeSlotQueue'[k] # b
            /\ \E i \in 1 .. Len(freeSlotQueue) : freeSlotQueue'[k] = freeSlotQueue[i]
            /\ \A l \in 1 .. Len(freeSlotQueue') : freeSlotQueue'[k] = freeSlotQueue'[l] => k = l
      /\ \A c : c # b /\ Contains(freeSlotQueue, c) => Contains(freeSlotQueue', c)
  BY <1>2, WithoutFirst
<1>4. TypeOK'
  BY <1>1, <1>3, Zenon DEF TypeOK
<1>5. JoinInv' /\ EventInv' /\ InvitationTimed' /\ SlotsAgree' /\ KnownInv'
  BY AllSame DEF JoinInv, EventInv, InvitationTimed, PlayersOf, Invited
<1>6. PlacesCounted'
  <2>1. \A c \in BattleGrounds : Coming(c)' = Coming(c)
    BY DEF Coming, OnTheWay, InvitedAmong, Invited
  <2>2. \A c \in BattleGrounds, team \in Teams :
            members[c] \union Coming(c) # {} => status'[c] \in {"running", "leave"}
    BY <1>1 DEF PlacesCounted
  <2> QED BY <2>1, <2>2 DEF PlacesCounted
<1>7. StatusInv'
  <2>1. \A c \in BattleGrounds : status'[c] = "none" => status[c] = "none"
    BY <1>1
  <2>2. \A c \in offered : c \in BattleGrounds
    BY DEF TypeOK
  <2> QED BY <2>1, <2>2 DEF StatusInv
<1>8. Running' = Running \ {b}
  BY <1>1 DEF Running
<1>9. FreeInv'
  <2>1. \A i \in 1 .. Len(freeSlotQueue) :
            freeSlotQueue[i] \in BattleGrounds /\ status[freeSlotQueue[i]] = "running"
    BY <1>2, ElementOfSeq DEF FreeInv
  <2>2. \A k \in 1 .. Len(freeSlotQueue') : status'[freeSlotQueue'[k]] = "running"
    BY <1>1, <1>3, <2>1
  <2>3. \A c \in Running' : ~Contains(freeSlotQueue', c) => Cardinality(members'[c]) >= 2 * MaxPlayersPerTeam
    BY <1>3, <1>8 DEF FreeInv
  <2>4. todo' = <<>> /\ \A i \in 1 .. Len(todo') : status'[todo'[i]] = "running"
    BY <1>2
  <2> QED BY <1>3, <2>2, <2>3, <2>4 DEF FreeInv
<1>10. OfferInv'
  <2>1. ASSUME NEW team \in Teams, NEW g \in Uninvited(team)'
        PROVE  g \in Uninvited(team) /\ PlayersOf(g)' = PlayersOf(g)
    BY DEF Uninvited, PlayersOf
  <2> QED BY <1>8, <2>1, OfferStays
<1> QED BY <1>4, <1>5, <1>6, <1>7, <1>9, <1>10

LEMMA NextEndBattleGround ==
    ASSUME QueueInv, NEW b \in BattleGrounds, EndBattleGround(b)
    PROVE  QueueInv'
<1>1. /\ phase = "maps" /\ status[b] = "running" /\ status' = [status EXCEPT ![b] = "leave"]
      /\ freeSlotQueue' = RemoveFirst(freeSlotQueue, b)
      /\ UNCHANGED <<phase, todo, offered, scheduled, joins, groupInfo, offline, invitedTo,
                     removeInviteTime, untimed, struck, events, place, slot, bgInstanceID, invited,
                     members>>
  BY DEF EndBattleGround, updateVars, queueVars
<1> QED BY <1>1, NextClosed

LEMMA NextDeleteBattleGround ==
    ASSUME QueueInv, NEW b \in BattleGrounds, DeleteBattleGround(b)
    PROVE  QueueInv'
<1>1. /\ phase = "maps" /\ status[b] \in {"running", "leave"} /\ members[b] = {}
      /\ \A team \in Teams : invited[b][team] = 0
      /\ status' = [status EXCEPT ![b] = "deleted"]
      /\ freeSlotQueue' = RemoveFirst(freeSlotQueue, b)
      /\ UNCHANGED <<phase, todo, offered, scheduled, joins, groupInfo, offline, invitedTo,
                     removeInviteTime, untimed, struck, events, place, slot, bgInstanceID, invited,
                     members>>
  BY DEF DeleteBattleGround, updateVars, queueVars
<1>2. Coming(b) = {}
  <2> SUFFICES ASSUME NEW p \in Coming(b) PROVE FALSE
    OBVIOUS
  <2>1. PICK team \in Teams : p \in team
    BY DEF Coming, OnTheWay, InvitedAmong, Players, Teams
  <2>2. Coming(b) \intersect team \subseteq Players /\ Coming(b) \intersect team # {}
    BY <2>1 DEF Coming, OnTheWay, InvitedAmong
  <2>3. Cardinality(Coming(b) \intersect team) >= 1 /\ Cardinality(Coming(b) \intersect team) \in Nat
    BY <2>2, NonEmpty, Finite
  <2>4. Cardinality(members[b] \intersect team) = 0
    BY <1>1, FS_EmptySet
  <2>5. Cardinality(members[b] \intersect team) + Cardinality(Coming(b) \intersect team) <= 0
    BY <1>1, <2>1 DEF QueueInv, PlacesCounted
  <2> QED BY <2>3, <2>4, <2>5
<1> QED BY <1>1, <1>2, NextClosed

-----------------------------------------------------------------------------
(* The invariant, and what it gives. *)

LEMMA InitQueueInv == Init => QueueInv
<1> SUFFICES ASSUME Init PROVE QueueInv
  OBVIOUS
<1> USE DEF Init
<1>1. TypeOK
  <2>1. <<>> \in Seq(BattleGrounds)
    OBVIOUS
  <2>2. joins \in 0 .. MaxJoins /\ removeInviteTime \in [Groups -> 0 .. MaxJoins]
    BY SizesAssumption
  <2>3. groupInfo \in [Players -> Groups \union {NoGroup}]
    OBVIOUS
  <2>4. invitedTo \in [Groups -> BattleGrounds \union {NoBattleGround}]
    OBVIOUS
  <2>5. {offline, untimed, struck} \subseteq SUBSET Players /\ offered \subseteq BattleGrounds
    OBVIOUS
  <2>6. events \subseteq [player : Players, bg : BattleGrounds, time : 0 .. MaxJoins, group : Groups]
    OBVIOUS
  <2>7. /\ place \in [Players -> BattleGrounds \union {World, Far, Offline}]
        /\ slot \in [Players -> BattleGrounds \union {NotQueued, NoBattleGround}]
        /\ bgInstanceID \in [Players -> BattleGrounds \union {NoBattleGround}]
    OBVIOUS
  <2>8. /\ status \in [BattleGrounds -> {"none", "running", "leave", "deleted"}]
        /\ invited \in [BattleGrounds -> [Teams -> Nat]]
        /\ members \in [BattleGrounds -> SUBSET Players]
    OBVIOUS
  <2>9. phase \in {"maps", "fill"} /\ scheduled \in BOOLEAN
    OBVIOUS
  <2>10. todo \in Seq(BattleGrounds) /\ freeSlotQueue \in Seq(BattleGrounds)
    BY <2>1
  <2> QED BY <2>2, <2>3, <2>4, <2>5, <2>6, <2>7, <2>8, <2>9, <2>10, Zenon DEF TypeOK
<1>2. JoinInv /\ EventInv /\ InvitationTimed
  BY Places DEF JoinInv, EventInv, InvitationTimed, Invited
<1>6. SlotsAgree /\ KnownInv
  <2>1. \A p \in Players : SlotOf(p) = NotQueued
    BY DEF SlotOf
  <2> QED BY <2>1, Places DEF SlotsAgree, KnownInv, Agrees, Knows
<1>3. \A b \in BattleGrounds : Coming(b) = {}
  BY Places DEF Coming, OnTheWay, InvitedAmong, Invited
<1>4. PlacesCounted
  <2>1. \A b \in BattleGrounds, team \in Teams :
            /\ Coming(b) \intersect team = {} /\ members[b] \intersect team = {}
            /\ members[b] \union Coming(b) = {} /\ invited[b][team] = 0
    BY <1>3
  <2>2. Cardinality({}) = 0
    BY FS_EmptySet
  <2> SUFFICES ASSUME NEW b \in BattleGrounds, NEW team \in Teams
               PROVE  /\ Cardinality(members[b] \intersect team)
                             + Cardinality(Coming(b) \intersect team) <= invited[b][team]
                      /\ invited[b][team] <= MaxPlayersPerTeam
                      /\ members[b] \union Coming(b) = {}
    BY DEF PlacesCounted
  <2>3. /\ Cardinality(Coming(b) \intersect team) = 0 /\ Cardinality(members[b] \intersect team) = 0
        /\ members[b] \union Coming(b) = {} /\ invited[b][team] = 0
    BY <2>1, <2>2
  <2>5. 0 + 0 <= 0 /\ 0 <= MaxPlayersPerTeam
    BY Places
  <2> QED BY ONLY <2>3, <2>5
<1>5. StatusInv /\ FreeInv /\ OfferInv
  BY DEF StatusInv, FreeInv, OfferInv, Running, Contains
<1> QED BY <1>1, <1>2, <1>4, <1>5, <1>6 DEF QueueInv

LEMMA NextQueueInv == QueueInv /\ [Next]_vars => QueueInv'
<1> SUFFICES ASSUME QueueInv, [Next]_vars PROVE QueueInv'
  OBVIOUS
<1>1. CASE Update
  BY <1>1, NextBeginUpdate, NextFillPlayersToBG, NextCreateNewBattleGround, NextNoMatch DEF Update
<1>2. CASE \E S \in SUBSET Players : Join(S)
  BY <1>2, NextJoin
<1>3. CASE \E p \in Players : PlayerStep(p)
  BY <1>3, NextLeaveQueue, NextEnterBattleGround, NextFarTeleport, NextWorldportAck,
     NextLogoutPlayer, NextLogin, NextLeaveBattleground, NextLogoutMember, NextLogoutOnTheWay
     DEF PlayerStep
<1>4. CASE \E e \in events : TimeOut(e)
  BY <1>4, NextTimeOut
<1>5. CASE \E b \in BattleGrounds : BattleGroundUpdate(b)
  BY <1>5, NextEndBattleGround, NextRemoveAllPlayers, NextDeleteBattleGround DEF BattleGroundUpdate
<1>6. CASE UNCHANGED vars
  <2>1. UNCHANGED <<phase, todo, scheduled, joins, groupInfo, offline, invitedTo, removeInviteTime,
                    events, place, slot, bgInstanceID, status, invited, members, freeSlotQueue,
                    untimed, struck, offered>>
    BY <1>6 DEF vars
  <2>2. TypeOK'
    BY <2>1, Zenon DEF QueueInv, TypeOK
  <2>3. JoinInv' /\ EventInv' /\ InvitationTimed' /\ StatusInv'
    BY <2>1 DEF QueueInv, JoinInv, EventInv, InvitationTimed, StatusInv, PlayersOf, Invited
  <2>4. SlotsAgree' /\ KnownInv' /\ PlacesCounted' /\ FreeInv' /\ OfferInv'
    BY <2>1, AllSame, CountsStay, FreeStays, OffersStay DEF QueueInv
  <2> QED BY <2>2, <2>3, <2>4 DEF QueueInv
<1> QED BY <1>1, <1>2, <1>3, <1>4, <1>5, <1>6 DEF Next

\* The inductive invariant: what player, queue and battleground know of each
\* other, through every call of the battleground manager, in any order.
THEOREM Invariance == Spec => []QueueInv
<1>1. Init => QueueInv
  BY InitQueueInv
<1>2. QueueInv /\ [Next]_vars => QueueInv'
  BY NextQueueInv
<1> QED BY <1>1, <1>2, PTL DEF Spec

\* The state has the types the code declares; the counts of the invited, which
\* the code keeps in unsigned numbers, never fall below zero.
THEOREM TypeCorrect == Spec => []TypeOK
<1>1. QueueInv => TypeOK
  BY DEF QueueInv
<1> QED BY <1>1, Invariance, PTL

\* The slots of m_bgBattleGroundQueueID agree with the queue and with the
\* battlegrounds, over log-outs and invitations of groups, for everybody but who
\* was struck by the end of a battleground it had logged out to; and whoever is in
\* the map of a battleground is in its m_Players.
THEOREM SlotsKept == Spec => []SlotsAgree
<1>1. QueueInv => SlotsAgree
  BY DEF QueueInv
<1> QED BY <1>1, Invariance, PTL

\* InviteGroupToBG and RemovePlayerAtLeave count: nobody who is to have a place
\* is missing, also after a log-out on the way to the battleground, and no more
\* players of a team are invited than there are places.
THEOREM PlacesKept == Spec => []PlacesCounted
<1>1. QueueInv => PlacesCounted
  BY DEF QueueInv
<1> QED BY <1>1, Invariance, PTL

\* Every invitation of a player who is online has the BGQueueRemoveEvent that
\* ends it, unless the player has logged in since, or was struck.
THEOREM InvitationsEnd == Spec => []InvitationTimed
<1>1. QueueInv => InvitationTimed
  BY DEF QueueInv
<1> QED BY <1>1, Invariance, PTL

\* BattleGroundQueue::Update, which is scheduled when a place gets free or a
\* group joins, leaves no group outside that has room in a battleground it tried.
THEOREM PlacesOffered == Spec => []FreePlaceOffered
<1>1. QueueInv => FreePlaceOffered
  <2> SUFFICES ASSUME QueueInv, phase = "maps", ~scheduled,
                      NEW b \in offered \intersect Running, NEW team \in Teams,
                      NEW g \in Uninvited(team)
               PROVE  Cardinality(PlayersOf(g)) > FreeSlotsForTeam(b, team)
    BY DEF FreePlaceOffered
  <2>1. ~Contains(todo, b)
    BY DEF QueueInv, FreeInv, Contains
  <2> QED BY <2>1 DEF QueueInv, OfferInv
<1> QED BY <1>1, Invariance, PTL

\* An event removes nobody from a group that the player has joined later.
LEMMA OwnGroup ==
    ASSUME QueueInv, [Next]_vars, NEW e \in events \ events',
           groupInfo[e.player] # NoGroup, groupInfo'[e.player] = NoGroup
    PROVE  groupInfo[e.player] = e.group
<1>1. e \in events /\ e.player \in Players
  BY DEF QueueInv, TypeOK
<1>2. CASE \E f \in events : TimeOut(f)
  <2>1. PICK f \in events : TimeOut(f)
    BY <1>2
  <2>2. f = e
    BY <2>1 DEF TimeOut
  <2>3. groupInfo' # groupInfo
    OBVIOUS
  <2>4. removeInviteTime[groupInfo[e.player]] = e.time /\ invitedTo[groupInfo[e.player]] = e.bg
    BY <2>1, <2>2, <2>3 DEF TimeOut, queueVars
  <2>5. /\ groupInfo[e.player] \in Groups /\ e.bg # NoBattleGround
        /\ e.time \in Nat /\ Groups \subseteq Nat
    BY <1>1, Places DEF QueueInv, TypeOK
  <2>6. groupInfo[e.player] <= e.time
    BY <2>4, <2>5 DEF QueueInv, JoinInv
  <2>7. groupInfo[e.player] = e.group \/ e.time < groupInfo[e.player]
    BY <1>1 DEF QueueInv, EventInv
  <2>8. PICK t \in Nat : t = e.time
    BY <2>5
  <2>9. PICK g \in Nat : g = groupInfo[e.player]
    BY <2>5
  <2>10. g <= t
    BY <2>6, <2>8, <2>9
  <2>11. ~(t < g)
    BY ONLY <2>10, t \in Nat, g \in Nat
  <2> QED BY <2>7, <2>8, <2>9, <2>11
<1>3. CASE UNCHANGED groupInfo
  BY <1>3
<1>4. CASE events \subseteq events'
  BY <1>4
<1>5. UNCHANGED groupInfo \/ events \subseteq events' \/ \E f \in events : TimeOut(f)
  <2>1. CASE Update
    BY <2>1 DEF Update, BeginUpdate, FillPlayersToBG, CreateNewBattleGround, NoMatch, InviteGroupsToBG
  <2>2. CASE \E S \in SUBSET Players : Join(S)
    BY <2>2 DEF Join
  <2>3. CASE \E p \in Players : PlayerStep(p)
    BY <2>3 DEF PlayerStep, LeaveQueue, EnterBattleGround, FarTeleport, WorldportAck, LogoutPlayer,
                Login, LeaveBattleground, LogoutMember, LogoutOnTheWay, queueVars
  <2>4. CASE \E b \in BattleGrounds : BattleGroundUpdate(b)
    BY <2>4 DEF BattleGroundUpdate, EndBattleGround, RemoveAllPlayers, DeleteBattleGround, queueVars
  <2>5. CASE UNCHANGED vars
    BY <2>5 DEF vars
  <2> QED BY <2>1, <2>2, <2>3, <2>4, <2>5 DEF Next
<1> QED BY <1>2, <1>3, <1>4, <1>5

\* BGQueueRemoveEvent::Execute compares RemoveInviteTime: an event that is too
\* late never takes the place that its player has got again.
THEOREM EventsOfOwnGroup == Spec => TimeOutOfOwnGroup
<1> DEFINE A == \A e \in events \ events' :
                    groupInfo[e.player] # NoGroup /\ groupInfo'[e.player] = NoGroup
                        => groupInfo[e.player] = e.group
<1>1. QueueInv /\ [Next]_vars => [A]_vars
  BY OwnGroup
<1> HIDE DEF A
<1>2. Spec => [][A]_vars
  BY <1>1, Invariance, PTL DEF Spec
<1> QED BY <1>2 DEF TimeOutOfOwnGroup, A
=============================================================================
