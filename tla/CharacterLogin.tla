--------------------------- MODULE CharacterLogin ---------------------------
(***************************************************************************)
(* The sessions of one account and the characters they log in and out:     *)
(* World keeps the connected session in m_sessions and those that lost     *)
(* their socket with a character in the world in m_disconnectedSessions; a *)
(* log-in is a query holder on the serial queue of the character, on which *)
(* its saves are too, and a callback in a later (or the same) tick.        *)
(*                                                                         *)
(* Sessions are numbered in the order in which the client opened them.     *)
(* What a character carries is its version: it grows while the character   *)
(* plays, a save writes it and a log-in reads it.  dbQueue is what         *)
(* AsyncDatabase guarantees for one serial id: first in, first out.        *)
(*                                                                         *)
(* Other accounts, the login queue, bots and the master player are left    *)
(* out.                                                                    *)
(***************************************************************************)
EXTENDS Integers, Sequences, FiniteSetsExt

CONSTANTS
    Chars,         \* the characters of the account
    Delay,         \* ticks that a session stays after its socket is lost
    MaxSessions,   \* bound: sessions opened
    MaxRequests,   \* bound: login requests
    MaxVersion     \* bound: version of a character

ASSUME DelayAssumption == Delay \in Nat
ASSUME BoundsAssumption == {MaxSessions, MaxRequests, MaxVersion} \subseteq Nat

VARIABLES
    phase,         \* where the world thread is in World::Update
    stop,          \* World::m_stopEvent
    final,         \* World::Shutdown has kicked everybody
    opened,        \* sessions opened so far
    addQueue,      \* addSessQueue
    current,       \* m_sessions[account]
    disconnected,  \* m_disconnectedSessions
    timer,         \* m_disconnectTimer of each session, in ticks
    open,          \* sessions whose socket is not closed
    loading,       \* m_playerLoading of each session
    player,        \* _player of each session
    session,       \* Player::GetSession of each character in memory
    place,         \* where each character is
    version,       \* the version of each character, in memory or when it left
    requests,      \* login requests so far
    logins,        \* how often each character was loaded
    dbQueue,       \* the operations submitted with the serial id of each character
    saved,         \* the version of each character in the tables
    callbacks      \* callbacks of login query holders

vars == <<phase, stop, final, opened, addQueue, current, disconnected, timer, open,
          loading, player, session, place, version, requests, logins,
          dbQueue, saved, callbacks>>

worldVars  == <<addQueue, current, disconnected, timer>>
playerVars == <<player, session, place>>
loginVars  == <<requests, logins, callbacks>>

Sessions == 1 .. MaxSessions
Versions == 0 .. MaxVersion
NoSession == 0
NoChar == "no character"

ASSUME NoCharAssumption == NoChar \notin Chars

Phases == {"add", "sessions", "disconnected", "maps", "results", "end"}

\* Far: IsBeingTeleportedFar(), on the way between two maps.  FarTeleports shows
\* that a character in memory is always in one of the two.
Places == {"none", "world", "far"}

Save(v) == [op |-> "save", version |-> v]

\* A LoginQueryHolder remembers, for the properties, whether its character
\* was in memory when the holder was made and how often it had been loaded.
Load(c) == [op |-> "load", offline |-> session[c] = NoSession, logins |-> logins[c]]

IsSave(x) == x.op = "save"

InWorld(s) == player[s] # NoChar /\ place[player[s]] = "world"

-----------------------------------------------------------------------------
\* LogoutPlayer(true) of each session in S.  Teleports under way are finished
\* first, which brings the character into a map (FarTeleports), so that it is
\* saved.
LogoutPlayers(S) ==
    LET out == {player[s] : s \in S} \ {NoChar} IN
    /\ player' = [s \in Sessions |-> IF s \in S THEN NoChar ELSE player[s]]
    /\ session' = [c \in Chars |-> IF c \in out THEN NoSession ELSE session[c]]
    /\ place' = [c \in Chars |-> IF c \in out THEN "none" ELSE place[c]]
    /\ dbQueue' = [c \in Chars |-> IF c \in out
                                   THEN Append(dbQueue[c], Save(version[c]))
                                   ELSE dbQueue[c]]

\* ForcePlayerLogoutDelay keeps the character of s in the world for a while.
LogoutDelayed(s) == ~stop /\ InWorld(s)

\* The session s leaves m_sessions: with its character to the disconnected
\* ones, or it is deleted, and its destructor logs the character out.
Retire(s) ==
    /\ IF LogoutDelayed(s)
       THEN /\ disconnected' = disconnected \union {s}
            /\ timer' = [timer EXCEPT ![s] = Delay]
            /\ UNCHANGED <<loading, playerVars, dbQueue>>
       ELSE /\ LogoutPlayers({s})
            /\ loading' = [loading EXCEPT ![s] = FALSE]
            /\ UNCHANGED <<disconnected, timer>>

-----------------------------------------------------------------------------
\* The client opens a connection; a network thread calls World::AddSession.
Connect ==
    /\ phase # "end"
    /\ opened < MaxSessions
    /\ opened' = opened + 1
    /\ addQueue' = Append(addQueue, opened + 1)
    /\ open' = open \union {opened + 1}
    /\ UNCHANGED <<phase, stop, final, current, disconnected, timer, loading, playerVars,
                   version, loginVars, dbQueue, saved>>

\* The connection ends, from either side, at any time.
CloseSocket(s) ==
    /\ s \in open
    /\ open' = open \ {s}
    /\ UNCHANGED <<phase, stop, final, opened, worldVars, loading, playerVars, version,
                   loginVars, dbQueue, saved>>

\* A signal, a console or the shutdown timer: World::StopNow.
StopNow ==
    /\ ~stop
    /\ stop' = TRUE
    /\ UNCHANGED <<phase, final, opened, worldVars, open, loading, playerVars, version,
                   loginVars, dbQueue, saved>>

-----------------------------------------------------------------------------
\* AddSession_: refused while the account's session is loading a character;
\* otherwise the old session is kicked and retired at once.
AddSession ==
    /\ phase = "add"
    /\ addQueue # <<>>
    /\ addQueue' = Tail(addQueue)
    /\ IF current # NoSession /\ loading[current]
       THEN /\ open' = open \ {Head(addQueue)}
            /\ UNCHANGED <<current, disconnected, timer, loading, playerVars, dbQueue>>
       ELSE /\ current' = Head(addQueue)
            /\ IF current = NoSession
               THEN UNCHANGED <<open, disconnected, timer, loading, playerVars, dbQueue>>
               ELSE open' = open \ {current} /\ Retire(current)
    /\ UNCHANGED <<phase, stop, final, opened, version, loginVars, saved>>

AllSessionsAdded ==
    /\ phase = "add"
    /\ addQueue = <<>>
    /\ phase' = "sessions"
    /\ UNCHANGED <<stop, final, opened, worldVars, open, loading, playerVars, version,
                   loginVars, dbQueue, saved>>

\* ProcessPackets handles packets only while the socket is open.
CanProcessPackets == phase = "sessions" /\ current \in open

\* HandlePlayerLoginOpcode: the holder goes to the character's serial queue.
HandlePlayerLoginOpcode(c) ==
    /\ CanProcessPackets
    /\ requests < MaxRequests
    /\ ~loading[current]
    /\ player[current] = NoChar
    /\ requests' = requests + 1
    /\ loading' = [loading EXCEPT ![current] = TRUE]
    /\ dbQueue' = [dbQueue EXCEPT ![c] = Append(@, Load(c))]
    /\ UNCHANGED <<phase, stop, final, opened, worldVars, open, playerVars, version,
                   logins, saved, callbacks>>

\* HandleLogoutRequestOpcode where the character may leave at once.
HandleLogoutRequestOpcode ==
    /\ CanProcessPackets
    /\ InWorld(current)
    /\ LogoutPlayers({current})
    /\ UNCHANGED <<phase, stop, final, opened, worldVars, open, loading, version,
                   loginVars, saved>>

\* HandleMoveWorldportAckOpcode: the client has loaded the other map.  That
\* map may refuse the character, which is then on the way to another one.
HandleMoveWorldportAckOpcode(where) ==
    /\ CanProcessPackets
    /\ player[current] # NoChar
    /\ place[player[current]] = "far"
    /\ place' = [place EXCEPT ![player[current]] = where]
    /\ UNCHANGED <<phase, stop, final, opened, worldVars, open, loading, player, session,
                   version, loginVars, dbQueue, saved>>

\* WorldSession::Update, nothing to be done.
SessionStays ==
    /\ phase = "sessions"
    /\ current = NoSession \/ current \in open
    /\ phase' = "disconnected"
    /\ UNCHANGED <<stop, final, opened, worldVars, open, loading, playerVars, version,
                   loginVars, dbQueue, saved>>

\* ShouldLogOut: 20 seconds have passed since the request to log out.
SessionLogsOut ==
    /\ phase = "sessions"
    /\ current \in open
    /\ player[current] # NoChar
    /\ ~loading[current]
    /\ LogoutPlayers({current})
    /\ phase' = "disconnected"
    /\ UNCHANGED <<stop, final, opened, worldVars, open, loading, version, loginVars, saved>>

\* The socket is closed: the session leaves m_sessions, even while it loads
\* a character.
SessionClosed ==
    /\ phase = "sessions"
    /\ current # NoSession
    /\ current \notin open
    /\ current' = NoSession
    /\ Retire(current)
    /\ phase' = "disconnected"
    /\ UNCHANGED <<stop, final, opened, addQueue, open, version, loginVars, saved>>

\* CharacterScreenIdleKick.
SessionIdle ==
    /\ phase = "sessions"
    /\ current \in open
    /\ player[current] = NoChar
    /\ ~loading[current]
    /\ current' = NoSession
    /\ open' = open \ {current}
    /\ phase' = "disconnected"
    /\ UNCHANGED <<stop, final, opened, addQueue, disconnected, timer, loading, playerVars,
                   version, loginVars, dbQueue, saved>>

\* A plausible slip: the timer is not counted down.
UpdateDisconnected_for_ever ==
    /\ phase = "disconnected"
    /\ LET over == {s \in disconnected : ~InWorld(s) \/ timer[s] < 1} IN
       /\ disconnected' = disconnected \ over
       /\ open' = open \ over
       /\ LogoutPlayers(over)
    /\ phase' = IF final THEN "end" ELSE "maps"
    /\ UNCHANGED <<stop, final, opened, addQueue, current, timer, loading, version,
                   loginVars, saved>>

\* WorldSession::UpdateDisconnected of each disconnected session; the ones
\* whose character has left the world, or whose time is over, are deleted.
UpdateDisconnected ==
    /\ phase = "disconnected"
    /\ LET over == {s \in disconnected : ~InWorld(s) \/ timer[s] < 1} IN
       /\ disconnected' = disconnected \ over
       /\ open' = open \ over
       /\ timer' = [s \in Sessions |-> IF s \in disconnected \ over THEN timer[s] - 1 ELSE timer[s]]
       /\ LogoutPlayers(over)
    /\ phase' = IF final THEN "end" ELSE "maps"
    /\ UNCHANGED <<stop, final, opened, addQueue, current, loading, version, loginVars, saved>>

-----------------------------------------------------------------------------
\* The character gains something that its next save will write.
Play(c) ==
    /\ phase = "maps"
    /\ place[c] = "world"
    /\ version[c] < MaxVersion
    /\ version' = [version EXCEPT ![c] = @ + 1]
    /\ UNCHANGED <<phase, stop, final, opened, worldVars, open, loading, playerVars,
                   loginVars, dbQueue, saved>>

\* The version of the last save of c that was submitted.
LastSaved(c) ==
    LET saves == {k \in 1 .. Len(dbQueue[c]) : IsSave(dbQueue[c][k])}
    IN  IF saves = {} THEN saved[c] ELSE dbQueue[c][Max(saves)].version

\* Player::Update, when m_nextSave has run out (a save of what is already
\* submitted is left out).
SavePeriodically(c) ==
    /\ phase = "maps"
    /\ place[c] = "world"
    /\ LastSaved(c) # version[c]
    /\ dbQueue' = [dbQueue EXCEPT ![c] = Append(@, Save(version[c]))]
    /\ UNCHANGED <<phase, stop, final, opened, worldVars, open, loading, playerVars,
                   version, loginVars, saved>>

\* A far teleport is executed: the character is out of its map until the client
\* has loaded the other one.
TeleportFar(c) ==
    /\ phase = "maps"
    /\ place[c] = "world"
    /\ place' = [place EXCEPT ![c] = "far"]
    /\ UNCHANGED <<phase, stop, final, opened, worldVars, open, loading, player, session,
                   version, loginVars, dbQueue, saved>>

MapsUpdated ==
    /\ phase = "maps"
    /\ phase' = "results"
    /\ UNCHANGED <<stop, final, opened, worldVars, open, loading, playerVars, version,
                   loginVars, dbQueue, saved>>

-----------------------------------------------------------------------------
\* HandlePlayerLoginCallback finds no session of the account, or
\* HandlePlayerLogin one that expects no character: the holder is dropped.
DropHolder ==
    /\ phase = "results"
    /\ callbacks # <<>>
    /\ callbacks' = Tail(callbacks)
    /\ \/ current = NoSession /\ UNCHANGED loading
       \/ /\ current # NoSession
          /\ player[current] # NoChar \/ ~loading[current]
          /\ loading' = [loading EXCEPT ![current] = FALSE]
    /\ UNCHANGED <<phase, stop, final, opened, worldVars, open, playerVars, version,
                   requests, logins, dbQueue, saved>>

\* HandlePlayerLogin goes on with the holder's character, whichever
\* character the session asked for.
ExpectsCharacter ==
    /\ phase = "results"
    /\ callbacks # <<>>
    /\ current # NoSession
    /\ player[current] = NoChar
    /\ loading[current]

\* A plausible slip: the session that had the character keeps it.
TakeOver_keeps_old ==
    /\ ExpectsCharacter
    /\ LET c == Head(callbacks).char IN
       /\ place[c] = "world"
       /\ player' = [player EXCEPT ![current] = c]
       /\ session' = [session EXCEPT ![c] = current]
    /\ loading' = [loading EXCEPT ![current] = FALSE]
    /\ callbacks' = Tail(callbacks)
    /\ UNCHANGED <<phase, stop, final, opened, worldVars, open, place, version,
                   requests, logins, dbQueue, saved>>

\* A plausible slip: m_playerLoading is reset only for a new character.
TakeOver_keeps_loading ==
    /\ ExpectsCharacter
    /\ LET c == Head(callbacks).char IN
       /\ place[c] = "world"
       /\ player' = [player EXCEPT ![session[c]] = NoChar, ![current] = c]
       /\ session' = [session EXCEPT ![c] = current]
    /\ callbacks' = Tail(callbacks)
    /\ UNCHANGED <<phase, stop, final, opened, worldVars, open, place, version, loading,
                   requests, logins, dbQueue, saved>>

\* The character is in the world, with a disconnected session: it goes over
\* to this one, and what the holder read is not used.
TakeOver ==
    /\ ExpectsCharacter
    /\ LET c == Head(callbacks).char IN
       /\ place[c] = "world"
       /\ player' = [player EXCEPT ![session[c]] = NoChar, ![current] = c]
       /\ session' = [session EXCEPT ![c] = current]
    /\ loading' = [loading EXCEPT ![current] = FALSE]
    /\ callbacks' = Tail(callbacks)
    /\ UNCHANGED <<phase, stop, final, opened, worldVars, open, place, version,
                   requests, logins, dbQueue, saved>>

\* The character is in memory and not in the world, or LoadFromDB fails: the
\* client is kicked.
RefuseLogin ==
    /\ ExpectsCharacter
    /\ place[Head(callbacks).char] # "world"
    /\ open' = open \ {current}
    /\ loading' = [loading EXCEPT ![current] = FALSE]
    /\ callbacks' = Tail(callbacks)
    /\ UNCHANGED <<phase, stop, final, opened, worldVars, playerVars, version,
                   requests, logins, dbQueue, saved>>

\* LoadFromDB: a new Player from what the holder read.  Map::Add may refuse
\* it; then it is teleported.
LoadFromDB(where) ==
    /\ ExpectsCharacter
    /\ LET h == Head(callbacks) IN
       /\ session[h.char] = NoSession
       /\ player' = [player EXCEPT ![current] = h.char]
       /\ session' = [session EXCEPT ![h.char] = current]
       /\ place' = [place EXCEPT ![h.char] = where]
       /\ version' = [version EXCEPT ![h.char] = h.version]
       /\ logins' = [logins EXCEPT ![h.char] = @ + 1]
    /\ loading' = [loading EXCEPT ![current] = FALSE]
    /\ callbacks' = Tail(callbacks)
    /\ UNCHANGED <<phase, stop, final, opened, worldVars, open, requests, dbQueue, saved>>

\* A plausible slip: KickAll passes over the connected sessions.
EndTick_kicks_disconnected ==
    /\ phase = "results"
    /\ callbacks = <<>>
    /\ phase' = "add"
    /\ final' = stop
    /\ open' = IF stop THEN open \ disconnected ELSE open
    /\ UNCHANGED <<stop, opened, worldVars, loading, playerVars, version, loginVars,
                   dbQueue, saved>>

\* The end of World::Update; when the world is stopped, World::Shutdown
\* closes every socket and runs UpdateSessions a last time.
EndTick ==
    /\ phase = "results"
    /\ callbacks = <<>>
    /\ phase' = "add"
    /\ final' = stop
    /\ open' = IF stop THEN open \ (disconnected \union {current}) ELSE open
    /\ UNCHANGED <<stop, opened, worldVars, loading, playerVars, version, loginVars,
                   dbQueue, saved>>

-----------------------------------------------------------------------------
\* A plausible slip: the operations of a character keep no order.
DatabaseStep_any_order(c) ==
    \E k \in 1 .. Len(dbQueue[c]) :
        LET x == dbQueue[c][k] IN
        /\ dbQueue' = [dbQueue EXCEPT ![c] = SubSeq(@, 1, k - 1) \o SubSeq(@, k + 1, Len(@))]
        /\ IF IsSave(x)
           THEN saved' = [saved EXCEPT ![c] = x.version] /\ UNCHANGED callbacks
           ELSE /\ callbacks' = Append(callbacks, [char |-> c, version |-> saved[c],
                                                   offline |-> x.offline, logins |-> x.logins])
                /\ UNCHANGED saved
        /\ UNCHANGED <<phase, stop, final, opened, worldVars, open, loading, playerVars,
                       version, requests, logins>>

\* A worker executes the oldest operation of the serial queue: it writes the
\* tables, or reads them and adds a callback to the result queue.
DatabaseStep(c) ==
    /\ dbQueue[c] # <<>>
    /\ dbQueue' = [dbQueue EXCEPT ![c] = Tail(@)]
    /\ LET x == Head(dbQueue[c]) IN
       IF IsSave(x)
       THEN saved' = [saved EXCEPT ![c] = x.version] /\ UNCHANGED callbacks
       ELSE /\ callbacks' = Append(callbacks, [char |-> c, version |-> saved[c],
                                               offline |-> x.offline, logins |-> x.logins])
            /\ UNCHANGED saved
    /\ UNCHANGED <<phase, stop, final, opened, worldVars, open, loading, playerVars,
                   version, requests, logins>>

-----------------------------------------------------------------------------
Init ==
    /\ phase = "add"
    /\ stop = FALSE
    /\ final = FALSE
    /\ opened = 0
    /\ addQueue = <<>>
    /\ current = NoSession
    /\ disconnected = {}
    /\ timer = [s \in Sessions |-> 0]
    /\ open = {}
    /\ loading = [s \in Sessions |-> FALSE]
    /\ player = [s \in Sessions |-> NoChar]
    /\ session = [c \in Chars |-> NoSession]
    /\ place = [c \in Chars |-> "none"]
    /\ version = [c \in Chars |-> 0]
    /\ requests = 0
    /\ logins = [c \in Chars |-> 0]
    /\ dbQueue = [c \in Chars |-> <<>>]
    /\ saved = [c \in Chars |-> 0]
    /\ callbacks = <<>>

ClientStep == Connect \/ \E s \in Sessions : CloseSocket(s)

WorldStep ==
    \/ AddSession \/ AllSessionsAdded
    \/ \E c \in Chars : HandlePlayerLoginOpcode(c)
    \/ HandleLogoutRequestOpcode
    \/ \E where \in {"world", "far"} : HandleMoveWorldportAckOpcode(where)
    \/ SessionStays \/ SessionLogsOut \/ SessionClosed \/ SessionIdle
    \/ UpdateDisconnected
    \/ \E c \in Chars : Play(c) \/ SavePeriodically(c) \/ TeleportFar(c)
    \/ MapsUpdated
    \/ DropHolder \/ TakeOver \/ RefuseLogin
    \/ \E where \in {"world", "far"} : LoadFromDB(where)
    \/ EndTick

Next ==
    \/ ClientStep
    \/ StopNow
    \/ WorldStep
    \/ \E c \in Chars : DatabaseStep(c)

Spec == Init /\ [][Next]_vars

\* The world thread and the database workers go on; the client need not do
\* anything, and nobody has to stop the world.
FairSpec ==
    /\ Spec
    /\ WF_vars(WorldStep)
    /\ \A c \in Chars : WF_vars(DatabaseStep(c))

-----------------------------------------------------------------------------
SessionsInUse ==
    {addQueue[k] : k \in 1 .. Len(addQueue)} \union disconnected \union ({current} \ {NoSession})

\* What the database is asked to do, and what it calls back with.
Operations ==
    [op : {"save"}, version : Versions] \union [op : {"load"}, offline : BOOLEAN, logins : Nat]

Holders == [char : Chars, version : Versions, offline : BOOLEAN, logins : Nat]

\* The state has the types the code declares; m_disconnectTimer is unsigned.
TypeOK ==
    /\ phase \in Phases
    /\ {stop, final} \subseteq BOOLEAN
    /\ opened \in 0 .. MaxSessions
    /\ addQueue \in Seq(Sessions)
    /\ current \in Sessions \union {NoSession}
    /\ disconnected \subseteq Sessions
    /\ timer \in [Sessions -> 0 .. Delay]
    /\ open \subseteq Sessions
    /\ loading \in [Sessions -> BOOLEAN]
    /\ player \in [Sessions -> Chars \union {NoChar}]
    /\ session \in [Chars -> Sessions \union {NoSession}]
    /\ place \in [Chars -> Places]
    /\ version \in [Chars -> Versions]
    /\ requests \in 0 .. MaxRequests
    /\ logins \in [Chars -> Nat]
    /\ dbQueue \in [Chars -> Seq(Operations)]
    /\ saved \in [Chars -> Versions]
    /\ callbacks \in Seq(Holders)

\* A session and its character point at each other, and no character in
\* memory points at a session that has been deleted: not after a take-over,
\* not after the destructor of a session logged a character out.  A session
\* that loads a character, which the account's next session may not replace,
\* is the connected one and has no character yet.
OwnersAgree ==
    /\ \A s \in Sessions, c \in Chars : player[s] = c <=> session[c] = s
    /\ \A c \in Chars :
           /\ session[c] \in SessionsInUse \union {NoSession}
           /\ place[c] = "none" <=> session[c] = NoSession
    /\ \A s \in Sessions : loading[s] => s = current /\ player[s] = NoChar

\* A session is not left in the state of loading: as long as it is in it, a
\* holder is on its way through the database or the result queue, and the callback
\* of any holder ends it - that of a session which was replaced as well, so that
\* holders of several sessions may be under way and answer the wrong one.
LoadingIsUnderway ==
    \A s \in Sessions : loading[s] =>
        \/ callbacks # <<>>
        \/ \E c \in Chars : \E k \in 1 .. Len(dbQueue[c]) : ~IsSave(dbQueue[c][k])

\* A log-in that was requested while the character was out of memory, and
\* that no other log-in overtook, loads what the character had when it left:
\* whatever made it leave has saved it (log-out, kick, second session, expired
\* timer, stop), and the load was executed after that save and before any
\* other.  This is what the serial queues are for.
OfflineLoginReadsLastSave ==
    [][\A where \in Places :
          LoadFromDB(where) =>
              LET h == Head(callbacks) IN
              h.offline /\ h.logins = logins[h.char] => h.version = version[h.char]]_vars

\* When World::Shutdown has returned, only characters whose socket was lost
\* before are still in memory.
ShutdownLogsOutConnected ==
    phase = "end" => \A c \in Chars : session[c] \in disconnected \union {NoSession}

\* A session does not stay for ever in the state in which the account's next
\* session is refused.
LoadingEnds == \A s \in Sessions : loading[s] ~> ~loading[s] \/ phase = "end"

\* A character whose client is gone is logged out or taken over.
UnattendedLeaves ==
    \A s \in Sessions : (s \in disconnected) ~> (s \notin disconnected \/ phase = "end")

\* "Must be serialized in a transaction with the player GUID, or it can lead
\* to duping by relogging before the query completes" (Player.cpp): a
\* character in memory is never older than its last save.
LoadsLastSave == \A c \in Chars : session[c] # NoSession => version[c] >= LastSaved(c)
=============================================================================
