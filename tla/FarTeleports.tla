---------------------------- MODULE FarTeleports ----------------------------
(***************************************************************************)
(* The far teleports of a character.  TeleportTo takes it out of its map,  *)
(* at once or, while the maps are updated, at the end of the update; it is *)
(* nowhere until the client has loaded the other map and                   *)
(* HandleMoveWorldportAckOpcode puts it there.  The other map may refuse   *)
(* it by then: the way back is another far teleport, which may be refused  *)
(* as well.  LogoutPlayer does not wait for the client but answers for it, *)
(* as long as the character is on the way; who is nowhere after that is    *)
(* not saved.  CharacterLogin relies on it that this does not happen.      *)
(*                                                                         *)
(* The maps are those of the continents, which refuse nobody, and dungeons *)
(* (one instance each: the one the character would come to).  Battle-      *)
(* grounds are left out: BattleGroundQueue keeps them alive for those who  *)
(* are on the way.  So are game masters, transports and coordinates that   *)
(* are not valid, which TeleportTo does not accept.                        *)
(***************************************************************************)
EXTENDS FiniteSets

CONSTANTS Continents, Dungeons, Home

ASSUME HomeAssumption == Home \in Continents /\ Continents \intersect Dungeons = {}

VARIABLES
    status,           \* "out", in the "world", or in the loop of a "logout"
    asyncMapUpdating,
    scheduled,        \* the character's entry in m_scheduledFarTeleports
    currMap,          \* the map it is in (IsInWorld() && FindMap())
    mapId,            \* m_mapId: that map, or the last one that was set
    far,              \* mSemaphoreTeleport_Far
    dest,             \* m_teleport_dest
    instanceValid,    \* m_InstanceValid
    permitted,        \* dungeons that CanPlayerEnter lets its group into
    admitting,        \* dungeons that are not full, in combat or being reset
    savedMap          \* the map in the tables

transferVars == <<status, asyncMapUpdating, scheduled, currMap, mapId, far, dest,
                  instanceValid, permitted, admitting, savedMap>>

placeVars == <<currMap, mapId, far, dest, instanceValid>>
doorVars  == <<permitted, admitting>>

Maps == Continents \union Dungeons

NoMap == "no map"
ASSUME NoMapAssumption == NoMap \notin Maps

\* Map::CanEnter, which Map::Add asks too.
CanEnter(m) == m \in Continents \union admitting

\* The checks of TeleportTo and, once more, of ExecuteTeleportFar: CanPlayerEnter
\* and, if the map exists, CanEnter.
MayTeleportTo(m) == m \in Continents \union (permitted \intersect admitting)

\* ExecuteTeleportFar, when the checks are passed.
ExecuteTeleportFar(m) ==
    /\ currMap' = NoMap
    /\ far' = TRUE
    /\ dest' = m

-----------------------------------------------------------------------------
\* TeleportTo another map (to the home, with TELE_TO_FORCE_MAP_CHANGE, from any),
\* by a spell, an area trigger or the timer of an invalid instance.  During the
\* update of the maps it is scheduled; a later teleport replaces it.
TeleportTo(m) ==
    /\ status = "world"
    /\ currMap # NoMap
    /\ m # currMap \/ m = Home
    /\ MayTeleportTo(m)
    /\ IF asyncMapUpdating
       THEN scheduled' = m /\ UNCHANGED <<currMap, far, dest>>
       ELSE ExecuteTeleportFar(m) /\ UNCHANGED scheduled
    /\ UNCHANGED <<status, asyncMapUpdating, mapId, instanceValid, doorVars, savedMap>>

BeginMaps ==
    /\ status # "logout"
    /\ ~asyncMapUpdating
    /\ asyncMapUpdating' = TRUE
    /\ UNCHANGED <<status, scheduled, placeVars, doorVars, savedMap>>

\* The end of the update: ExecuteDelayedPlayerTeleports, where others that come
\* first may have filled the dungeon.
EndMaps ==
    /\ asyncMapUpdating
    /\ asyncMapUpdating' = FALSE
    /\ IF scheduled # NoMap /\ MayTeleportTo(scheduled)
       THEN ExecuteTeleportFar(scheduled)
       ELSE UNCHANGED <<currMap, dest>> /\ far' = (far /\ scheduled = NoMap)
    /\ scheduled' = NoMap
    /\ UNCHANGED <<status, mapId, instanceValid, doorVars, savedMap>>

\* What the dungeons and the character's group allow changes at any time but
\* inside of LogoutPlayer, which runs on the world thread between two updates.
DoorsChange(doors, groups) ==
    /\ status # "logout"
    /\ admitting' = doors
    /\ permitted' = groups
    /\ UNCHANGED <<status, asyncMapUpdating, scheduled, placeVars, savedMap>>

\* A reset of the dungeon or the loss of the group makes the instance invalid;
\* the group may take the character back.
InstanceValidity(valid) ==
    /\ status = "world"
    /\ currMap \in Dungeons
    /\ instanceValid' = valid
    /\ UNCHANGED <<status, asyncMapUpdating, scheduled, currMap, mapId, far, dest, doorVars,
                   savedMap>>

-----------------------------------------------------------------------------
\* A plausible slip: the old position is read when the map is already set.
MoveWorldportAck_late_position ==
    /\ far
    /\ mapId' = dest
    /\ instanceValid' = (instanceValid \/ dest \notin Dungeons)
    /\ IF CanEnter(dest)
       THEN currMap' = dest /\ far' = FALSE /\ UNCHANGED dest
       ELSE far' = FALSE /\ UNCHANGED <<currMap, dest>>

\* A plausible slip: who is refused tries the same map again.
MoveWorldportAck_same_again ==
    /\ far
    /\ mapId' = dest
    /\ instanceValid' = (instanceValid \/ dest \notin Dungeons)
    /\ IF CanEnter(dest)
       THEN currMap' = dest /\ far' = FALSE
       ELSE UNCHANGED <<currMap, far>>
    /\ UNCHANGED dest

\* HandleMoveWorldportAckOpcode, on the world thread: into the map, or back to
\* the old position, and if that may not be entered either, home.  The way back
\* to a map with the id that is set already would be a near teleport, which needs
\* a map and finds none.
MoveWorldportAck ==
    /\ far
    /\ mapId' = dest
    /\ instanceValid' = (instanceValid \/ dest \notin Dungeons)
    /\ IF CanEnter(dest)
       THEN currMap' = dest /\ far' = FALSE /\ UNCHANGED dest
       ELSE IF mapId = dest
       THEN far' = FALSE /\ UNCHANGED <<currMap, dest>>
       ELSE ExecuteTeleportFar(IF MayTeleportTo(mapId) THEN mapId ELSE Home)

\* The client has loaded the map.
WorldportAck ==
    /\ status = "world"
    /\ ~asyncMapUpdating
    /\ MoveWorldportAck
    /\ UNCHANGED <<status, asyncMapUpdating, scheduled, doorVars, savedMap>>

-----------------------------------------------------------------------------
\* LoadFromDB sets the map; when Map::Add refuses the character, it is teleported
\* through the exit of the dungeon, which leads to a continent, or home.
Login(exit) ==
    /\ status = "out"
    /\ ~asyncMapUpdating
    /\ status' = "world"
    /\ mapId' = savedMap
    /\ instanceValid' = TRUE
    /\ IF CanEnter(savedMap)
       THEN currMap' = savedMap /\ far' = FALSE /\ dest' = NoMap
       ELSE ExecuteTeleportFar(exit)
    /\ UNCHANGED <<asyncMapUpdating, scheduled, doorVars, savedMap>>

\* LogoutPlayer begins: out of an invalid instance, or of whatever way the
\* character is on, to its home.
BeginLogout ==
    /\ status = "world"
    /\ ~asyncMapUpdating
    /\ status' = "logout"
    /\ IF instanceValid THEN UNCHANGED <<currMap, far, dest>> ELSE ExecuteTeleportFar(Home)
    /\ UNCHANGED <<asyncMapUpdating, scheduled, mapId, instanceValid, doorVars, savedMap>>

\* The loop that finishes the teleports.
FinishTransfer ==
    /\ status = "logout"
    /\ MoveWorldportAck
    /\ UNCHANGED <<status, asyncMapUpdating, scheduled, doorVars, savedMap>>

\* The rest of LogoutPlayer: who is in a map is saved there or, from the dungeon
\* of a group that is no raid, at its exit; who is in none is not saved.
EndLogout(where) ==
    /\ status = "logout"
    /\ ~far
    /\ status' = "out"
    /\ savedMap' = IF currMap = NoMap THEN savedMap
                ELSE IF currMap \in Dungeons THEN where
                ELSE currMap
    /\ where \in Continents \union {currMap}
    /\ currMap' = NoMap
    /\ UNCHANGED <<asyncMapUpdating, scheduled, mapId, far, dest, instanceValid, doorVars>>

-----------------------------------------------------------------------------
TransferInit ==
    /\ status = "out"
    /\ asyncMapUpdating = FALSE
    /\ scheduled = NoMap
    /\ currMap = NoMap
    /\ mapId = Home
    /\ far = FALSE
    /\ dest = NoMap
    /\ instanceValid = TRUE
    /\ permitted = Dungeons
    /\ admitting = Dungeons
    /\ savedMap = Home

LogoutStep == FinishTransfer \/ \E m \in Maps : EndLogout(m)

TransferNext ==
    \/ \E m \in Maps : TeleportTo(m)
    \/ BeginMaps \/ EndMaps
    \/ \E doors, groups \in SUBSET Dungeons : DoorsChange(doors, groups)
    \/ \E valid \in BOOLEAN : InstanceValidity(valid)
    \/ WorldportAck
    \/ \E exit \in Continents : Login(exit)
    \/ BeginLogout \/ LogoutStep

TransferSpec == TransferInit /\ [][TransferNext]_transferVars

\* LogoutPlayer runs to its end.
FairTransferSpec == TransferSpec /\ WF_transferVars(LogoutStep)

-----------------------------------------------------------------------------
\* The state has the types the code declares.
TransferTypeOK ==
    /\ status \in {"out", "world", "logout"}
    /\ {asyncMapUpdating, far, instanceValid} \subseteq BOOLEAN
    /\ {scheduled, currMap, dest} \subseteq Maps \union {NoMap}
    /\ {mapId, savedMap} \subseteq Maps
    /\ permitted \subseteq Dungeons /\ admitting \subseteq Dungeons

\* "This should fix players being able to logout and login back with full hp at
\* death position" (LogoutPlayer): a character in memory is in a map or on the way
\* to one, never in neither, so that the loop of a log-out brings it into a map and
\* it is saved - whichever maps refuse it on its way, forth and back.
NeverLost == status # "out" => (currMap = NoMap <=> far)

\* "Stop teleportation else we would try this again and again in LogoutPlayer":
\* a log-out ends, although the loop that finishes the teleports starts new ones.
LogoutEnds == status = "logout" ~> status = "out"
=============================================================================
