----------------------- MODULE CharacterLogin_proofs -----------------------
(***************************************************************************)
(* Proofs about CharacterLogin, for any characters, sessions, requests and *)
(* length of the stay after a lost socket.                                 *)
(*                                                                         *)
(* LoginInv adds to the types which session a character has and that both  *)
(* know it, that the sessions still to be added are younger than those     *)
(* that were added, what the last round of Shutdown has already done, and, *)
(* for a log-in that nothing overtook, that no save of its character comes *)
(* after its load: not in the serial queue, nor once it has been executed. *)
(***************************************************************************)
EXTENDS CharacterLogin, FarTeleports, SequenceTheorems, TLAPS

\* A session and its character point at each other; who loads is the
\* connected session; only the connected session and the disconnected ones
\* have a character.
PairInv ==
    /\ \A s \in Sessions, c \in Chars : player[s] = c <=> session[c] = s
    /\ \A c \in Chars : place[c] = "none" <=> session[c] = NoSession
    /\ \A s \in Sessions : loading[s] => s = current /\ player[s] = NoChar
    /\ \A s \in Sessions : player[s] # NoChar => s \in disconnected \union {current}

\* Sessions are added in the order in which they were opened.
OrderInv ==
    /\ \A k \in 1 .. Len(addQueue) : addQueue[k] <= opened
    /\ \A k, l \in 1 .. Len(addQueue) : k < l => addQueue[k] < addQueue[l]
    /\ \A s \in disconnected \union {current} :
           s <= opened /\ \A k \in 1 .. Len(addQueue) : s < addQueue[k]

\* In the last round the connected session has no character, or it was
\* kicked and has not been updated since.
FinalInv ==
    /\ final => stop /\ phase \in {"add", "sessions", "disconnected", "end"}
    /\ phase = "end" => final
    /\ final /\ current # NoSession =>
          \/ player[current] = NoChar
          \/ phase \in {"add", "sessions"} /\ current \notin open

\* Requested while the character was out of memory, and not overtaken by
\* another log-in: this holds of a load as well as of its callback.
Fresh(x, times) == x.offline /\ x.logins = times

\* No save comes after the k-th operation of the queue q.
NoSaveAfter(q, k) == \A l \in 1 .. Len(q) : k < l => ~IsSave(q[l])

LoadsInv ==
    \A c \in Chars : \A k \in 1 .. Len(dbQueue[c]) :
        ~IsSave(dbQueue[c][k]) =>
            /\ dbQueue[c][k].logins <= logins[c]
            /\ Fresh(dbQueue[c][k], logins[c]) =>
                  session[c] = NoSession /\ NoSaveAfter(dbQueue[c], k)

HoldersInv ==
    \A k \in 1 .. Len(callbacks) :
        LET h == callbacks[k] IN
        /\ h.logins <= logins[h.char]
        /\ Fresh(h, logins[h.char]) =>
              /\ session[h.char] = NoSession
              /\ h.version = saved[h.char]
              /\ NoSaveAfter(dbQueue[h.char], 0)

LoginInv == TypeOK /\ PairInv /\ OrderInv /\ FinalInv /\ LoadsInv /\ HoldersInv

-----------------------------------------------------------------------------
\* Sessions are numbers, and NoSession is not one of them.
LEMMA SessionNumbers ==
    /\ MaxSessions \in Nat /\ MaxRequests \in Nat /\ MaxVersion \in Nat /\ Delay \in Nat
    /\ Sessions \subseteq Nat /\ NoSession \notin Sessions
    /\ NoChar \notin Chars /\ 0 \in Versions
BY BoundsAssumption, DelayAssumption, NoCharAssumption DEF Sessions, NoSession, Versions

\* The state after the log-out of the sessions in S, character by character.
LoggedOut(S) ==
    /\ player' = [s \in Sessions |-> IF s \in S THEN NoChar ELSE player[s]]
    /\ session' = [c \in Chars |-> IF session[c] \in S THEN NoSession ELSE session[c]]
    /\ place' = [c \in Chars |-> IF session[c] \in S THEN "none" ELSE place[c]]
    /\ dbQueue' = [c \in Chars |-> IF session[c] \in S
                                   THEN Append(dbQueue[c], Save(version[c]))
                                   ELSE dbQueue[c]]

LEMMA LogoutEffect ==
    ASSUME TypeOK, PairInv, NEW S \in SUBSET Sessions, LogoutPlayers(S)
    PROVE  LoggedOut(S)
<1> DEFINE out == {player[s] : s \in S} \ {NoChar}
<1>1. \A c \in Chars : c \in out <=> session[c] \in S
  BY SessionNumbers DEF PairInv, TypeOK
<1>2. /\ player' = [s \in Sessions |-> IF s \in S THEN NoChar ELSE player[s]]
      /\ session' = [c \in Chars |-> IF c \in out THEN NoSession ELSE session[c]]
      /\ place' = [c \in Chars |-> IF c \in out THEN "none" ELSE place[c]]
      /\ dbQueue' = [c \in Chars |-> IF c \in out
                                     THEN Append(dbQueue[c], Save(version[c]))
                                     ELSE dbQueue[c]]
  BY DEF LogoutPlayers
<1> HIDE DEF out
<1> QED BY <1>1, <1>2 DEF LoggedOut

\* A log-out keeps the types of what it changes.
LEMMA LogoutTypes ==
    ASSUME TypeOK, NEW S, LoggedOut(S)
    PROVE  /\ player' \in [Sessions -> Chars \union {NoChar}]
           /\ session' \in [Chars -> Sessions \union {NoSession}]
           /\ place' \in [Chars -> Places]
           /\ dbQueue' \in [Chars -> Seq(Operations)]
<1>1. ASSUME NEW c \in Chars PROVE Append(dbQueue[c], Save(version[c])) \in Seq(Operations)
  <2>1. dbQueue[c] \in Seq(Operations) /\ Save(version[c]) \in Operations
    BY DEF TypeOK, Save, Operations
  <2> HIDE DEF Operations
  <2> QED BY <2>1, AppendProperties
<1>2. dbQueue' \in [Chars -> Seq(Operations)]
  BY <1>1 DEF LoggedOut, TypeOK
<1>3. /\ player' \in [Sessions -> Chars \union {NoChar}]
      /\ session' \in [Chars -> Sessions \union {NoSession}]
      /\ place' \in [Chars -> Places]
  BY DEF LoggedOut, TypeOK, Places
<1> QED BY <1>2, <1>3

\* What becomes of a session that leaves m_sessions.
LEMMA RetireEffect ==
    ASSUME TypeOK, PairInv, NEW s \in Sessions, Retire(s)
    PROVE  \/ /\ LogoutDelayed(s)
              /\ disconnected' = disconnected \union {s}
              /\ timer' = [timer EXCEPT ![s] = Delay]
              /\ UNCHANGED <<loading, player, session, place, dbQueue>>
           \/ /\ LoggedOut({s})
              /\ loading' = [loading EXCEPT ![s] = FALSE]
              /\ UNCHANGED <<disconnected, timer>>
<1>1. CASE LogoutDelayed(s)
  BY <1>1 DEF Retire, playerVars
<1>2. CASE ~LogoutDelayed(s)
  <2>1. LoggedOut({s})
    BY <1>2, LogoutEffect DEF Retire
  <2> QED BY <1>2, <2>1 DEF Retire
<1> QED BY <1>1, <1>2

LEMMA RetireTypes ==
    ASSUME TypeOK, PairInv, NEW s \in Sessions, Retire(s)
    PROVE  /\ disconnected' \subseteq Sessions /\ timer' \in [Sessions -> 0 .. Delay]
           /\ loading' \in [Sessions -> BOOLEAN]
           /\ player' \in [Sessions -> Chars \union {NoChar}]
           /\ session' \in [Chars -> Sessions \union {NoSession}]
           /\ place' \in [Chars -> Places]
           /\ dbQueue' \in [Chars -> Seq(Operations)]
<1>1. CASE LogoutDelayed(s)
  <2>1. /\ disconnected' = disconnected \union {s} /\ timer' = [timer EXCEPT ![s] = Delay]
        /\ UNCHANGED <<loading, player, session, place, dbQueue>>
    BY <1>1 DEF Retire, playerVars
  <2>2. disconnected' \subseteq Sessions /\ timer' \in [Sessions -> 0 .. Delay]
    BY <2>1, SessionNumbers DEF TypeOK
  <2> QED BY <2>1, <2>2, Zenon DEF TypeOK
<1>2. CASE ~LogoutDelayed(s)
  <2>1. /\ LogoutPlayers({s}) /\ loading' = [loading EXCEPT ![s] = FALSE]
        /\ UNCHANGED <<disconnected, timer>>
    BY <1>2 DEF Retire
  <2>2. loading' \in [Sessions -> BOOLEAN]
    BY <2>1, Zenon DEF TypeOK
  <2>3. disconnected' \subseteq Sessions /\ timer' \in [Sessions -> 0 .. Delay]
    BY <2>1, Zenon DEF TypeOK
  <2> QED BY <2>1, <2>2, <2>3, LogoutEffect, LogoutTypes
<1> QED BY <1>1, <1>2

\* The head of the queue of sessions to be added, and the rest.
LEMMA NextToAdd ==
    ASSUME TypeOK, addQueue # <<>>
    PROVE  /\ Head(addQueue) = addQueue[1] /\ Head(addQueue) \in Sessions
           /\ Tail(addQueue) \in Seq(Sessions)
           /\ Len(addQueue) \in Nat \ {0} /\ Len(Tail(addQueue)) = Len(addQueue) - 1
           /\ \A k \in 1 .. Len(Tail(addQueue)) : Tail(addQueue)[k] = addQueue[k + 1]
BY HeadTailProperties, EmptySeq, LenProperties DEF TypeOK

\* The first callback, and the others.
LEMMA NextCallback ==
    ASSUME TypeOK, callbacks # <<>>
    PROVE  /\ Head(callbacks) = callbacks[1] /\ Head(callbacks) \in Holders
           /\ Tail(callbacks) \in Seq(Holders)
           /\ Len(callbacks) \in Nat \ {0} /\ Len(Tail(callbacks)) = Len(callbacks) - 1
           /\ \A k \in 1 .. Len(Tail(callbacks)) : Tail(callbacks)[k] = callbacks[k + 1]
BY HeadTailProperties, EmptySeq, LenProperties DEF TypeOK

\* The first operation in the serial queue of c, and the others.
LEMMA NextOperation ==
    ASSUME TypeOK, NEW c \in Chars, dbQueue[c] # <<>>
    PROVE  /\ Head(dbQueue[c]) = dbQueue[c][1] /\ Head(dbQueue[c]) \in Operations
           /\ Tail(dbQueue[c]) \in Seq(Operations)
           /\ Len(dbQueue[c]) \in Nat \ {0} /\ Len(Tail(dbQueue[c])) = Len(dbQueue[c]) - 1
           /\ \A k \in 1 .. Len(Tail(dbQueue[c])) : Tail(dbQueue[c])[k] = dbQueue[c][k + 1]
<1>1. dbQueue[c] \in Seq(Operations)
  BY DEF TypeOK
<1> HIDE DEF Operations
<1> QED BY <1>1, HeadTailProperties, EmptySeq, LenProperties

-----------------------------------------------------------------------------
\* The types, action by action.
LEMMA TypesOfClient ==
    ASSUME TypeOK, ClientStep \/ StopNow
    PROVE  TypeOK'
<1>1. CASE Connect
  <2>1. opened + 1 \in Sessions /\ opened' \in 0 .. MaxSessions
    BY <1>1, SessionNumbers DEF Connect, TypeOK, Sessions
  <2>2. addQueue' \in Seq(Sessions) /\ open' \subseteq Sessions
    BY <1>1, <2>1, AppendProperties DEF Connect, TypeOK
  <2> QED BY <1>1, <2>1, <2>2, Zenon DEF Connect, TypeOK, playerVars, loginVars
<1>2. CASE \E s \in Sessions : CloseSocket(s)
  <2>1. open' \subseteq Sessions
    BY <1>2 DEF CloseSocket, TypeOK
  <2> QED BY <1>2, <2>1, Zenon DEF CloseSocket, TypeOK, worldVars, playerVars, loginVars
<1>3. CASE StopNow
  <2>1. {stop', final'} \subseteq BOOLEAN
    BY <1>3, Zenon DEF StopNow, TypeOK
  <2> QED BY <1>3, <2>1, Zenon DEF StopNow, TypeOK, worldVars, playerVars, loginVars
<1> QED BY <1>1, <1>2, <1>3 DEF ClientStep

LEMMA TypesOfAdding ==
    ASSUME TypeOK, PairInv, AddSession
    PROVE  TypeOK'
<1>1. /\ Head(addQueue) \in Sessions /\ addQueue' \in Seq(Sessions)
      /\ UNCHANGED <<phase, stop, final, opened, version, requests, logins, callbacks, saved>>
  BY NextToAdd DEF AddSession, loginVars
<1>2. current' \in Sessions \union {NoSession} /\ open' \subseteq Sessions
  BY <1>1 DEF AddSession, TypeOK
<1>3. /\ disconnected' \subseteq Sessions /\ timer' \in [Sessions -> 0 .. Delay]
      /\ loading' \in [Sessions -> BOOLEAN]
      /\ player' \in [Sessions -> Chars \union {NoChar}]
      /\ session' \in [Chars -> Sessions \union {NoSession}]
      /\ place' \in [Chars -> Places]
      /\ dbQueue' \in [Chars -> Seq(Operations)]
  <2>1. CASE UNCHANGED <<disconnected, timer, loading, playerVars, dbQueue>>
    BY <2>1, Zenon DEF TypeOK, playerVars
  <2>2. CASE current # NoSession /\ Retire(current)
    BY <2>2, RetireTypes DEF TypeOK
  <2> QED BY <2>1, <2>2, Zenon DEF AddSession
<1> QED BY <1>1, <1>2, <1>3, Zenon DEF TypeOK

\* The updates of the sessions.
SessionStep ==
    \/ AllSessionsAdded
    \/ \E c \in Chars : HandlePlayerLoginOpcode(c)
    \/ HandleLogoutRequestOpcode
    \/ \E where \in {"world", "far"} : HandleMoveWorldportAckOpcode(where)
    \/ SessionStays \/ SessionLogsOut \/ SessionClosed \/ SessionIdle
    \/ UpdateDisconnected

LEMMA TypesOfSessions ==
    ASSUME TypeOK, PairInv, SessionStep
    PROVE  TypeOK'
<1>1. phase' \in Phases
  BY Zenon DEF SessionStep, Phases, TypeOK, AllSessionsAdded, HandlePlayerLoginOpcode,
     HandleLogoutRequestOpcode, HandleMoveWorldportAckOpcode, SessionStays, SessionLogsOut,
     SessionClosed, SessionIdle, UpdateDisconnected
<1>2. CASE AllSessionsAdded \/ SessionStays
  BY <1>1, <1>2, Zenon DEF TypeOK, AllSessionsAdded, SessionStays, worldVars, playerVars, loginVars
<1>3. ASSUME NEW c \in Chars, HandlePlayerLoginOpcode(c) PROVE TypeOK'
  <2>1. current \in Sessions /\ requests' \in 0 .. MaxRequests
    BY <1>3, SessionNumbers DEF HandlePlayerLoginOpcode, CanProcessPackets, TypeOK
  <2>2. loading' \in [Sessions -> BOOLEAN]
    BY <1>3, Zenon DEF HandlePlayerLoginOpcode, TypeOK
  <2>3. Load(c) \in Operations
    BY <1>3 DEF Load, Operations, TypeOK
  <2>4. Append(dbQueue[c], Load(c)) \in Seq(Operations)
    <3>1. dbQueue[c] \in Seq(Operations)
      BY DEF TypeOK
    <3> HIDE DEF Operations
    <3> QED BY <2>3, <3>1, AppendProperties
  <2>5. dbQueue' \in [Chars -> Seq(Operations)]
    BY <1>3, <2>4, Zenon DEF HandlePlayerLoginOpcode, TypeOK
  <2> QED BY <1>1, <1>3, <2>1, <2>2, <2>5, Zenon
          DEF HandlePlayerLoginOpcode, TypeOK, worldVars, playerVars
<1>4. CASE HandleLogoutRequestOpcode \/ SessionLogsOut
  <2>1. current \in Sessions /\ LogoutPlayers({current})
    BY <1>4 DEF HandleLogoutRequestOpcode, SessionLogsOut, CanProcessPackets, TypeOK
  <2>2. LoggedOut({current})
    BY <2>1, LogoutEffect
  <2>3. /\ player' \in [Sessions -> Chars \union {NoChar}]
        /\ session' \in [Chars -> Sessions \union {NoSession}]
        /\ place' \in [Chars -> Places]
        /\ dbQueue' \in [Chars -> Seq(Operations)]
    BY <2>2, LogoutTypes
  <2> QED BY <1>1, <1>4, <2>3, Zenon
          DEF HandleLogoutRequestOpcode, SessionLogsOut, TypeOK, worldVars, loginVars
<1>5. ASSUME NEW where \in {"world", "far"}, HandleMoveWorldportAckOpcode(where) PROVE TypeOK'
  <2>1. place' \in [Chars -> Places]
    BY <1>5 DEF HandleMoveWorldportAckOpcode, TypeOK, Places
  <2> QED BY <1>1, <1>5, <2>1, Zenon
          DEF HandleMoveWorldportAckOpcode, TypeOK, worldVars, loginVars
<1>6. CASE SessionClosed
  <2>1. current \in Sessions /\ Retire(current) /\ current' = NoSession
    BY <1>6 DEF SessionClosed, TypeOK
  <2>2. /\ disconnected' \subseteq Sessions /\ timer' \in [Sessions -> 0 .. Delay]
        /\ loading' \in [Sessions -> BOOLEAN]
        /\ player' \in [Sessions -> Chars \union {NoChar}]
        /\ session' \in [Chars -> Sessions \union {NoSession}]
        /\ place' \in [Chars -> Places]
        /\ dbQueue' \in [Chars -> Seq(Operations)]
    BY <2>1, RetireTypes
  <2>3. current' \in Sessions \union {NoSession}
    BY <2>1
  <2> QED BY <1>1, <1>6, <2>2, <2>3, Zenon DEF SessionClosed, TypeOK, loginVars
<1>7. CASE SessionIdle
  <2>1. current' \in Sessions \union {NoSession} /\ open' \subseteq Sessions
    BY <1>7 DEF SessionIdle, TypeOK
  <2> QED BY <1>1, <1>7, <2>1, Zenon DEF SessionIdle, TypeOK, playerVars, loginVars
<1>8. CASE UpdateDisconnected
  <2> DEFINE over == {s \in disconnected : ~InWorld(s) \/ timer[s] < 1}
  <2>1. over \in SUBSET Sessions
    BY DEF TypeOK
  <2>2. LoggedOut(over)
    BY <1>8, <2>1, LogoutEffect DEF UpdateDisconnected
  <2>3. /\ player' \in [Sessions -> Chars \union {NoChar}]
        /\ session' \in [Chars -> Sessions \union {NoSession}]
        /\ place' \in [Chars -> Places]
        /\ dbQueue' \in [Chars -> Seq(Operations)]
    BY <2>2, LogoutTypes
  <2>4. timer' \in [Sessions -> 0 .. Delay]
    <3>1. \A s \in disconnected \ over : timer[s] >= 1
      BY SessionNumbers DEF TypeOK
    <3>2. timer' = [s \in Sessions |-> IF s \in disconnected \ over THEN timer[s] - 1 ELSE timer[s]]
      BY <1>8 DEF UpdateDisconnected
    <3> HIDE DEF over
    <3> QED BY <3>1, <3>2, SessionNumbers DEF TypeOK
  <2>5. disconnected' \subseteq Sessions /\ open' \subseteq Sessions
    BY <1>8 DEF UpdateDisconnected, TypeOK
  <2> QED BY <1>1, <1>8, <2>3, <2>4, <2>5, Zenon DEF UpdateDisconnected, TypeOK, loginVars
<1> QED BY <1>2, <1>3, <1>4, <1>5, <1>6, <1>7, <1>8 DEF SessionStep

\* The updates of the maps, and the end of the tick.
MapStep ==
    \/ \E c \in Chars : Play(c) \/ SavePeriodically(c) \/ TeleportFar(c)
    \/ MapsUpdated \/ EndTick

LEMMA TypesOfMaps ==
    ASSUME TypeOK, MapStep
    PROVE  TypeOK'
<1>1. ASSUME NEW c \in Chars, Play(c) PROVE TypeOK'
  <2>1. version' \in [Chars -> Versions]
    BY <1>1, SessionNumbers DEF Play, TypeOK, Versions
  <2> QED BY <1>1, <2>1, Zenon DEF Play, TypeOK, worldVars, playerVars, loginVars
<1>2. ASSUME NEW c \in Chars, SavePeriodically(c) PROVE TypeOK'
  <2>1. Append(dbQueue[c], Save(version[c])) \in Seq(Operations)
    <3>1. dbQueue[c] \in Seq(Operations) /\ Save(version[c]) \in Operations
      BY DEF TypeOK, Save, Operations
    <3> HIDE DEF Operations
    <3> QED BY <3>1, AppendProperties
  <2>2. dbQueue' \in [Chars -> Seq(Operations)]
    BY <1>2, <2>1, Zenon DEF SavePeriodically, TypeOK
  <2> QED BY <1>2, <2>2, Zenon DEF SavePeriodically, TypeOK, worldVars, playerVars, loginVars
<1>3. ASSUME NEW c \in Chars, TeleportFar(c) PROVE TypeOK'
  <2>1. place' \in [Chars -> Places]
    BY <1>3 DEF TeleportFar, TypeOK, Places
  <2> QED BY <1>3, <2>1, Zenon DEF TeleportFar, TypeOK, worldVars, loginVars
<1>4. CASE MapsUpdated
  BY <1>4, Zenon DEF MapsUpdated, TypeOK, Phases, worldVars, playerVars, loginVars
<1>5. CASE EndTick
  <2>1. phase' \in Phases /\ {stop', final'} \subseteq BOOLEAN /\ open' \subseteq Sessions
    BY <1>5, Zenon DEF EndTick, TypeOK, Phases
  <2> QED BY <1>5, <2>1, Zenon DEF EndTick, TypeOK, worldVars, playerVars, loginVars
<1> QED BY <1>1, <1>2, <1>3, <1>4, <1>5 DEF MapStep

\* The callbacks of log-ins.
ResultStep ==
    \/ DropHolder \/ TakeOver \/ RefuseLogin
    \/ \E where \in {"world", "far"} : LoadFromDB(where)

LEMMA TypesOfResults ==
    ASSUME TypeOK, PairInv, ResultStep
    PROVE  TypeOK'
<1>1. /\ callbacks # <<>> /\ callbacks' = Tail(callbacks)
      /\ UNCHANGED <<phase, stop, final, opened, worldVars, requests, dbQueue, saved>>
  BY DEF ResultStep, DropHolder, TakeOver, RefuseLogin, LoadFromDB, ExpectsCharacter
<1> DEFINE c == Head(callbacks).char
<1>2. callbacks' \in Seq(Holders) /\ c \in Chars /\ Head(callbacks).version \in Versions
  BY <1>1, NextCallback DEF Holders
<1>3. loading' \in [Sessions -> BOOLEAN]
  BY Zenon DEF ResultStep, DropHolder, TakeOver, RefuseLogin, LoadFromDB, TypeOK
<1>4. CASE DropHolder \/ RefuseLogin
  <2>1. open' \subseteq Sessions
    BY <1>4 DEF DropHolder, RefuseLogin, TypeOK
  <2> QED BY <1>1, <1>2, <1>3, <1>4, <2>1, Zenon
          DEF DropHolder, RefuseLogin, TypeOK, worldVars, playerVars
<1>5. CASE TakeOver
  <2>1. current \in Sessions
    BY <1>5 DEF TakeOver, ExpectsCharacter, TypeOK
  <2>2. /\ player' = [player EXCEPT ![session[c]] = NoChar, ![current] = c]
        /\ session' = [session EXCEPT ![c] = current]
    BY <1>5 DEF TakeOver
  <2> HIDE DEF c
  <2>3. /\ player' \in [Sessions -> Chars \union {NoChar}]
        /\ session' \in [Chars -> Sessions \union {NoSession}]
    BY <1>2, <2>1, <2>2 DEF TypeOK
  <2> QED BY <1>1, <1>2, <1>3, <1>5, <2>3, Zenon DEF TakeOver, TypeOK, worldVars
<1>6. ASSUME NEW where \in {"world", "far"}, LoadFromDB(where) PROVE TypeOK'
  <2>1. current \in Sessions
    BY <1>6 DEF LoadFromDB, ExpectsCharacter, TypeOK
  <2>2. /\ player' = [player EXCEPT ![current] = c]
        /\ session' = [session EXCEPT ![c] = current]
        /\ place' = [place EXCEPT ![c] = where]
        /\ version' = [version EXCEPT ![c] = Head(callbacks).version]
        /\ logins' = [logins EXCEPT ![c] = @ + 1]
    BY <1>6 DEF LoadFromDB
  <2> HIDE DEF c
  <2>3. /\ player' \in [Sessions -> Chars \union {NoChar}]
        /\ session' \in [Chars -> Sessions \union {NoSession}]
    BY <1>2, <2>1, <2>2 DEF TypeOK
  <2>4. place' \in [Chars -> Places] /\ version' \in [Chars -> Versions]
    BY <1>2, <2>2 DEF TypeOK, Places
  <2>5. logins' \in [Chars -> Nat]
    BY <1>2, <2>2 DEF TypeOK
  <2> QED BY <1>1, <1>2, <1>3, <1>6, <2>3, <2>4, <2>5, Zenon
          DEF LoadFromDB, TypeOK, worldVars
<1> QED BY <1>4, <1>5, <1>6 DEF ResultStep

\* The database.
LEMMA TypesOfDatabase ==
    ASSUME TypeOK, NEW c \in Chars, DatabaseStep(c)
    PROVE  TypeOK'
<1> DEFINE x == Head(dbQueue[c])
           h == [char |-> c, version |-> saved[c], offline |-> x.offline, logins |-> x.logins]
<1>1. x \in Operations /\ Tail(dbQueue[c]) \in Seq(Operations)
  BY NextOperation DEF DatabaseStep
<1>2. dbQueue' \in [Chars -> Seq(Operations)]
  BY <1>1, Zenon DEF DatabaseStep, TypeOK
<1>3. saved' \in [Chars -> Versions] /\ callbacks' \in Seq(Holders)
  <2>1. CASE IsSave(x)
    <3>1. x.version \in Versions
      BY <1>1, <2>1 DEF Operations, IsSave
    <3>2. saved' = [saved EXCEPT ![c] = x.version] /\ UNCHANGED callbacks
      BY <2>1 DEF DatabaseStep
    <3> HIDE DEF x
    <3> QED BY <3>1, <3>2, Zenon DEF TypeOK
  <2>2. CASE ~IsSave(x)
    <3>1. h \in Holders
      BY <1>1, <2>2 DEF Operations, IsSave, Holders, TypeOK
    <3>2. callbacks' = Append(callbacks, h) /\ UNCHANGED saved
      BY <2>2 DEF DatabaseStep
    <3> HIDE DEF h, Holders
    <3> QED BY <3>1, <3>2, AppendProperties DEF TypeOK
  <2> QED BY <2>1, <2>2
<1> HIDE DEF x
<1> QED BY <1>2, <1>3, Zenon DEF DatabaseStep, TypeOK, worldVars, playerVars

-----------------------------------------------------------------------------
\* The steps that leave the sessions and their characters alone.
QuietStep ==
    \/ ClientStep \/ StopNow \/ AllSessionsAdded \/ SessionStays
    \/ \E c \in Chars : Play(c) \/ SavePeriodically(c) \/ DatabaseStep(c)
    \/ MapsUpdated \/ EndTick

LEMMA PairQuiet ==
    ASSUME PairInv, UNCHANGED <<current, disconnected, loading, player, session>>,
           \A c \in Chars : place'[c] = "none" <=> place[c] = "none"
    PROVE  PairInv'
BY DEF PairInv

LEMMA QuietUnchanged ==
    ASSUME QuietStep
    PROVE  UNCHANGED <<current, disconnected, loading, player, session, place>>
BY DEF QuietStep, ClientStep, Connect, CloseSocket, StopNow, AllSessionsAdded, SessionStays, Play,
   SavePeriodically, DatabaseStep, MapsUpdated, EndTick, worldVars, playerVars

\* A log-out of the sessions in S leaves the others as they were.
LEMMA PairLogout ==
    ASSUME TypeOK, PairInv, NEW S \in SUBSET Sessions, LoggedOut(S)
    PROVE  /\ \A s \in Sessions, c \in Chars : player'[s] = c <=> session'[c] = s
           /\ \A c \in Chars : place'[c] = "none" <=> session'[c] = NoSession
           /\ \A s \in Sessions : player'[s] = IF s \in S THEN NoChar ELSE player[s]
BY SessionNumbers DEF LoggedOut, PairInv, TypeOK

\* A session that leaves m_sessions is with the disconnected ones, or has no
\* character any more; it is not loading.
LEMMA PairRetire ==
    ASSUME TypeOK, PairInv, current # NoSession, Retire(current),
           current' \in Sessions \union {NoSession}
    PROVE  PairInv'
<1>1. current \in Sessions
  BY DEF TypeOK
<1>2. CASE /\ LogoutDelayed(current)
           /\ disconnected' = disconnected \union {current}
           /\ UNCHANGED <<loading, player, session, place, dbQueue>>
  <2>1. player[current] # NoChar
    BY <1>2 DEF LogoutDelayed, InWorld
  <2>2. \A s \in Sessions : ~loading[s]
    BY <2>1 DEF PairInv
  <2> QED BY <1>2, <2>2 DEF PairInv
<1>3. CASE /\ LoggedOut({current})
           /\ loading' = [loading EXCEPT ![current] = FALSE]
           /\ UNCHANGED disconnected
  <2>1. /\ \A s \in Sessions, c \in Chars : player'[s] = c <=> session'[c] = s
        /\ \A c \in Chars : place'[c] = "none" <=> session'[c] = NoSession
        /\ \A s \in Sessions : player'[s] = IF s \in {current} THEN NoChar ELSE player[s]
    BY <1>1, <1>3, PairLogout
  <2>2. \A s \in Sessions : ~loading'[s]
    BY <1>3, Zenon DEF PairInv, TypeOK
  <2>3. \A s \in Sessions : player'[s] # NoChar => s \in disconnected'
    BY <1>3, <2>1 DEF PairInv
  <2> QED BY <2>1, <2>2, <2>3, Zenon DEF PairInv
<1> QED BY <1>1, <1>2, <1>3, RetireEffect

LEMMA PairNext ==
    ASSUME TypeOK, TypeOK', PairInv, Next
    PROVE  PairInv'
<1>1. CASE QuietStep
  BY <1>1, QuietUnchanged, PairQuiet
<1>2. ASSUME NEW where \in {"world", "far"}, HandleMoveWorldportAckOpcode(where) PROVE PairInv'
  <2>1. \A c \in Chars : place'[c] = "none" <=> place[c] = "none"
    BY <1>2 DEF HandleMoveWorldportAckOpcode, TypeOK
  <2> QED BY <1>2, <2>1, PairQuiet DEF HandleMoveWorldportAckOpcode, worldVars
<1>3. ASSUME NEW d \in Chars, TeleportFar(d) PROVE PairInv'
  <2>1. \A c \in Chars : place'[c] = "none" <=> place[c] = "none"
    BY <1>3 DEF TeleportFar, TypeOK
  <2> QED BY <1>3, <2>1, PairQuiet DEF TeleportFar, worldVars
<1>4. ASSUME NEW c \in Chars, HandlePlayerLoginOpcode(c) PROVE PairInv'
  <2>1. /\ player[current] = NoChar /\ loading' = [loading EXCEPT ![current] = TRUE]
        /\ UNCHANGED <<current, disconnected, player, session, place>>
    BY <1>4 DEF HandlePlayerLoginOpcode, worldVars, playerVars
  <2>2. \A s \in Sessions : loading'[s] => s = current \/ loading[s]
    BY <2>1, Zenon DEF TypeOK
  <2>3. \A s \in Sessions : loading'[s] => s = current' /\ player'[s] = NoChar
    BY <2>1, <2>2 DEF PairInv
  <2> QED BY <2>1, <2>3, Zenon DEF PairInv
<1>5. CASE DropHolder \/ RefuseLogin
  <2>1. UNCHANGED <<current, disconnected, player, session, place>>
    BY <1>5 DEF DropHolder, RefuseLogin, worldVars, playerVars
  <2>2. \A s \in Sessions : loading'[s] => loading[s]
    BY <1>5, Zenon DEF DropHolder, RefuseLogin, TypeOK
  <2> QED BY <2>1, <2>2, Zenon DEF PairInv
<1>6. CASE SessionIdle
  <2>1. /\ player[current] = NoChar /\ ~loading[current]
        /\ UNCHANGED <<disconnected, loading, player, session, place>>
    BY <1>6 DEF SessionIdle, playerVars
  <2> QED BY <2>1, Zenon DEF PairInv
<1>7. CASE HandleLogoutRequestOpcode \/ SessionLogsOut
  <2>1. /\ current \in Sessions /\ LoggedOut({current}) /\ player[current] # NoChar
        /\ UNCHANGED <<current, disconnected, loading>>
    BY <1>7, LogoutEffect DEF HandleLogoutRequestOpcode, SessionLogsOut, CanProcessPackets,
       InWorld, TypeOK, worldVars
  <2>2. /\ \A s \in Sessions, c \in Chars : player'[s] = c <=> session'[c] = s
        /\ \A c \in Chars : place'[c] = "none" <=> session'[c] = NoSession
        /\ \A s \in Sessions : player'[s] = IF s \in {current} THEN NoChar ELSE player[s]
    BY <2>1, PairLogout
  <2> QED BY <2>1, <2>2 DEF PairInv
<1>8. CASE UpdateDisconnected
  <2> DEFINE over == {s \in disconnected : ~InWorld(s) \/ timer[s] < 1}
  <2>1. over \in SUBSET Sessions
    BY DEF TypeOK
  <2>2. /\ LoggedOut(over) /\ disconnected' = disconnected \ over
        /\ UNCHANGED <<current, loading>>
    BY <1>8, <2>1, LogoutEffect DEF UpdateDisconnected
  <2> HIDE DEF over
  <2>3. /\ \A s \in Sessions, c \in Chars : player'[s] = c <=> session'[c] = s
        /\ \A c \in Chars : place'[c] = "none" <=> session'[c] = NoSession
        /\ \A s \in Sessions : player'[s] = IF s \in over THEN NoChar ELSE player[s]
    BY <2>1, <2>2, PairLogout
  <2> QED BY <2>2, <2>3 DEF PairInv
<1>9. CASE SessionClosed
  <2>1. current # NoSession /\ Retire(current) /\ current' = NoSession
    BY <1>9 DEF SessionClosed
  <2> QED BY <2>1, PairRetire
<1>10. CASE AddSession
  <2>1. Head(addQueue) \in Sessions
    BY <1>10, NextToAdd DEF AddSession
  <2>2. CASE current # NoSession /\ loading[current]
    BY <1>10, <2>2, PairQuiet DEF AddSession, playerVars
  <2>3. CASE current = NoSession
    <3>1. \A s \in Sessions : ~loading[s]
      BY <2>3, SessionNumbers DEF PairInv
    <3>2. UNCHANGED <<disconnected, loading, player, session, place>>
      BY <1>10, <2>3 DEF AddSession, playerVars
    <3> QED BY <2>3, <3>1, <3>2, SessionNumbers DEF PairInv
  <2>4. CASE current # NoSession /\ ~loading[current]
    <3>1. Retire(current) /\ current' = Head(addQueue)
      BY <1>10, <2>4 DEF AddSession
    <3> QED BY <2>1, <2>4, <3>1, PairRetire
  <2> QED BY <2>2, <2>3, <2>4
<1>11. CASE TakeOver
  <2> DEFINE c == Head(callbacks).char
  <2>1. c \in Chars
    BY <1>11, NextCallback DEF TakeOver, ExpectsCharacter, Holders
  <2>2. /\ current \in Sessions /\ player[current] = NoChar /\ place[c] = "world"
        /\ player' = [player EXCEPT ![session[c]] = NoChar, ![current] = c]
        /\ session' = [session EXCEPT ![c] = current]
        /\ loading' = [loading EXCEPT ![current] = FALSE]
        /\ UNCHANGED <<current, disconnected, place>>
    BY <1>11 DEF TakeOver, ExpectsCharacter, TypeOK, worldVars
  <2> HIDE DEF c
  <2>3. \A s \in Sessions : ~loading'[s]
    BY <2>2, Zenon DEF PairInv, TypeOK
  <2>4. session[c] \in Sessions \ {current} /\ player[session[c]] = c
    <3>1. session[c] # NoSession
      BY <2>1, <2>2 DEF PairInv
    <3>2. session[c] \in Sessions
      BY <2>1, <3>1 DEF TypeOK
    <3>3. player[session[c]] = c
      BY <2>1, <3>2 DEF PairInv
    <3> QED BY <2>1, <2>2, <3>2, <3>3, SessionNumbers
  <2>5. /\ \A s \in Sessions \ {current, session[c]} : player'[s] = player[s]
        /\ player'[current] = c /\ player'[session[c]] = NoChar
        /\ \A d \in Chars \ {c} : session'[d] = session[d]
        /\ session'[c] = current
    BY <2>1, <2>2, <2>4 DEF TypeOK
  <2>6. ASSUME NEW s \in Sessions, NEW d \in Chars PROVE player'[s] = d <=> session'[d] = s
    <3>1. player[s] = d <=> session[d] = s
      BY DEF PairInv
    <3>2. player[s] = c <=> session[c] = s
      BY <2>1 DEF PairInv
    <3>3. CASE s = current
      BY <2>2, <2>5, <3>1, <3>3, SessionNumbers
    <3>4. CASE s # current
      BY <2>2, <2>4, <2>5, <3>1, <3>2, <3>4, SessionNumbers
    <3> QED BY <3>3, <3>4
  <2>7. \A d \in Chars : place'[d] = "none" <=> session'[d] = NoSession
    BY <2>1, <2>2, <2>4, <2>5, SessionNumbers DEF PairInv
  <2>8. \A s \in Sessions : player'[s] # NoChar => s \in disconnected' \union {current'}
    BY <2>2, <2>5 DEF PairInv
  <2> QED BY <2>3, <2>6, <2>7, <2>8, Zenon DEF PairInv
<1>12. ASSUME NEW where \in {"world", "far"}, LoadFromDB(where) PROVE PairInv'
  <2> DEFINE c == Head(callbacks).char
  <2>1. c \in Chars
    BY <1>12, NextCallback DEF LoadFromDB, ExpectsCharacter, Holders
  <2>2. /\ current \in Sessions /\ player[current] = NoChar /\ session[c] = NoSession
        /\ player' = [player EXCEPT ![current] = c]
        /\ session' = [session EXCEPT ![c] = current]
        /\ place' = [place EXCEPT ![c] = where]
        /\ loading' = [loading EXCEPT ![current] = FALSE]
        /\ UNCHANGED <<current, disconnected>>
    BY <1>12 DEF LoadFromDB, ExpectsCharacter, TypeOK, worldVars
  <2> HIDE DEF c
  <2>3. \A s \in Sessions : ~loading'[s]
    <3>1. loading' = [loading EXCEPT ![current] = FALSE]
      BY <2>2
    <3> QED BY <3>1, Zenon DEF PairInv, TypeOK
  <2>4. ASSUME NEW s \in Sessions, NEW d \in Chars PROVE player'[s] = d <=> session'[d] = s
    <3>1. /\ player[s] = d <=> session[d] = s
          /\ player[s] = c <=> session[c] = s
      BY <2>1 DEF PairInv
    <3>2. /\ player'[s] = IF s = current THEN c ELSE player[s]
          /\ session'[d] = IF d = c THEN current ELSE session[d]
      BY <2>1, <2>2 DEF TypeOK
    <3> QED BY <2>2, <3>1, <3>2, SessionNumbers
  <2>5. \A d \in Chars : place'[d] = "none" <=> session'[d] = NoSession
    BY <2>1, <2>2, SessionNumbers DEF PairInv, TypeOK
  <2>6. \A s \in Sessions : player'[s] # NoChar => s \in disconnected' \union {current'}
    BY <2>2 DEF PairInv, TypeOK
  <2> QED BY <2>3, <2>4, <2>5, <2>6, Zenon DEF PairInv
<1> QED BY <1>1, <1>2, <1>3, <1>4, <1>5, <1>6, <1>7, <1>8, <1>9, <1>10, <1>11, <1>12
        DEF Next, WorldStep, QuietStep

-----------------------------------------------------------------------------
\* What OrderInv needs to know of a step that opens and adds no session.
LEMMA OrderStays ==
    ASSUME TypeOK, OrderInv, UNCHANGED <<addQueue, opened>>,
           disconnected' \union {current'} \subseteq disconnected \union {current, NoSession}
    PROVE  OrderInv'
<1>1. \A k \in 1 .. Len(addQueue) : addQueue[k] \in Sessions
  BY ElementOfSeq DEF TypeOK
<1>2. \A s \in disconnected \union {current, NoSession} :
          s <= opened /\ \A k \in 1 .. Len(addQueue) : s < addQueue[k]
  <2>1. NoSession <= opened /\ \A k \in 1 .. Len(addQueue) : NoSession < addQueue[k]
    BY <1>1, SessionNumbers DEF NoSession, TypeOK, Sessions
  <2> QED BY <2>1 DEF OrderInv
<1>3. \A s \in disconnected' \union {current'} :
          s <= opened' /\ \A k \in 1 .. Len(addQueue') : s < addQueue'[k]
  BY <1>2
<1> QED BY <1>3 DEF OrderInv

\* A new socket: the session comes last in the queue.
LEMMA OrderConnect ==
    ASSUME TypeOK, OrderInv, Connect
    PROVE  OrderInv'
<1>1. /\ opened' = opened + 1 /\ opened \in Nat
      /\ addQueue' = Append(addQueue, opened + 1) /\ addQueue \in Seq(Sessions)
      /\ UNCHANGED <<current, disconnected>>
      /\ opened + 1 \in Sessions
  BY SessionNumbers DEF Connect, TypeOK, Sessions
<1>2. /\ Len(addQueue') = Len(addQueue) + 1 /\ Len(addQueue) \in Nat
      /\ \A k \in 1 .. Len(addQueue) : addQueue'[k] = addQueue[k]
      /\ addQueue'[Len(addQueue) + 1] = opened + 1
  BY <1>1, AppendProperties, LenProperties
<1>3. \A k \in 1 .. Len(addQueue) : addQueue[k] \in Nat
  BY <1>1, SessionNumbers, ElementOfSeq
<1>4. \A s \in disconnected \union {current} : s \in Nat
  BY SessionNumbers DEF TypeOK, NoSession
<1>5. \A k \in 1 .. Len(addQueue') : addQueue'[k] <= opened'
  BY <1>1, <1>2, <1>3 DEF OrderInv
<1>6. \A k, l \in 1 .. Len(addQueue') : k < l => addQueue'[k] < addQueue'[l]
  BY <1>1, <1>2, <1>3 DEF OrderInv
<1>7. \A s \in disconnected' \union {current'} :
          s <= opened' /\ \A k \in 1 .. Len(addQueue') : s < addQueue'[k]
  BY <1>1, <1>2, <1>4 DEF OrderInv
<1> QED BY <1>5, <1>6, <1>7 DEF OrderInv

\* The oldest of the queue becomes the connected session, or is refused.
LEMMA OrderAdd ==
    ASSUME TypeOK, PairInv, OrderInv, AddSession
    PROVE  OrderInv'
<1>1. /\ addQueue # <<>> /\ addQueue' = Tail(addQueue) /\ UNCHANGED opened
      /\ current' \in {current, Head(addQueue)}
  BY DEF AddSession
<1>2. disconnected' \subseteq disconnected \union ({current} \ {NoSession})
  <2>1. CASE current # NoSession /\ Retire(current)
    <3>1. current \in Sessions
      BY <2>1 DEF TypeOK
    <3> QED BY <2>1, <3>1, RetireEffect
  <2>2. CASE UNCHANGED disconnected
    BY <2>2
  <2> QED BY <2>1, <2>2 DEF AddSession
<1>3. /\ Head(addQueue) = addQueue[1] /\ Len(addQueue) \in Nat \ {0}
      /\ Len(addQueue') = Len(addQueue) - 1
      /\ \A k \in 1 .. Len(addQueue') : addQueue'[k] = addQueue[k + 1]
  BY <1>1, NextToAdd
<1>4. \A s \in disconnected' \union {current'} :
          s \in disconnected \union {current} \/ s = addQueue[1]
  BY <1>1, <1>2, <1>3
<1>5. \A s \in disconnected' \union {current'} :
          s <= opened' /\ \A k \in 1 .. Len(addQueue') : s < addQueue'[k]
  BY <1>1, <1>3, <1>4 DEF OrderInv
<1>6. \A k \in 1 .. Len(addQueue') : addQueue'[k] <= opened'
  BY <1>1, <1>3 DEF OrderInv
<1>7. \A k, l \in 1 .. Len(addQueue') : k < l => addQueue'[k] < addQueue'[l]
  BY <1>1, <1>3 DEF OrderInv
<1> QED BY <1>5, <1>6, <1>7 DEF OrderInv

LEMMA OrderNext ==
    ASSUME TypeOK, PairInv, OrderInv, Next
    PROVE  OrderInv'
<1>1. CASE Connect
  BY <1>1, OrderConnect
<1>2. CASE AddSession
  BY <1>2, OrderAdd
<1>3. CASE SessionClosed
  <2>1. /\ current \in Sessions /\ Retire(current) /\ current' = NoSession
        /\ UNCHANGED <<addQueue, opened>>
    BY <1>3 DEF SessionClosed, TypeOK
  <2>2. disconnected' \subseteq disconnected \union {current}
    BY <2>1, RetireEffect
  <2> QED BY <2>1, <2>2, OrderStays
<1>4. CASE SessionIdle \/ UpdateDisconnected
  <2>1. /\ UNCHANGED <<addQueue, opened>> /\ disconnected' \subseteq disconnected
        /\ current' \in {current, NoSession}
    BY <1>4 DEF SessionIdle, UpdateDisconnected
  <2> QED BY <2>1, OrderStays
<1>5. CASE \/ QuietStep /\ ~Connect
           \/ \E c \in Chars : HandlePlayerLoginOpcode(c) \/ TeleportFar(c)
           \/ HandleLogoutRequestOpcode \/ SessionLogsOut
           \/ \E where \in {"world", "far"} : HandleMoveWorldportAckOpcode(where)
           \/ ResultStep
  <2>1. UNCHANGED <<addQueue, opened, current, disconnected>>
    BY <1>5 DEF QuietStep, ClientStep, CloseSocket, StopNow, AllSessionsAdded, SessionStays,
       Play, SavePeriodically, DatabaseStep, MapsUpdated, EndTick, HandlePlayerLoginOpcode,
       TeleportFar, HandleLogoutRequestOpcode, SessionLogsOut, HandleMoveWorldportAckOpcode,
       ResultStep, DropHolder, TakeOver, RefuseLogin, LoadFromDB, worldVars
  <2> QED BY <2>1 DEF OrderInv
<1> QED BY <1>1, <1>2, <1>3, <1>4, <1>5 DEF Next, WorldStep, QuietStep, ResultStep

-----------------------------------------------------------------------------
\* The connected session has no character in the last round once it has been
\* updated, and no other session gets one then.
LEMMA FinalNext ==
    ASSUME TypeOK, TypeOK', PairInv, OrderInv, FinalInv, Next
    PROVE  FinalInv'
<1>1. CASE \/ ClientStep \/ \E c \in Chars : DatabaseStep(c)
           \/ HandleLogoutRequestOpcode
           \/ \E c \in Chars : HandlePlayerLoginOpcode(c)
           \/ \E where \in {"world", "far"} : HandleMoveWorldportAckOpcode(where)
  <2>1. /\ UNCHANGED <<phase, stop, final, current>>
        /\ player'[current] = NoChar \/ player'[current] = player[current]
        /\ current \notin open => current \notin open' \/ current = NoSession
    <3>1. CASE Connect
      <4>1. current < opened + 1 \/ current = NoSession
        BY DEF OrderInv, TypeOK, Sessions
      <4> QED BY <3>1, <4>1 DEF Connect, playerVars, worldVars
    <3>2. CASE HandleLogoutRequestOpcode
      <4>1. current \in Sessions /\ LoggedOut({current})
        BY <3>2, LogoutEffect DEF HandleLogoutRequestOpcode, CanProcessPackets, TypeOK
      <4>2. player'[current] = NoChar
        BY <4>1 DEF LoggedOut
      <4> QED BY <3>2, <4>2 DEF HandleLogoutRequestOpcode, worldVars
    <3>3. CASE \/ \E s \in Sessions : CloseSocket(s)
               \/ \E c \in Chars : DatabaseStep(c)
               \/ \E c \in Chars : HandlePlayerLoginOpcode(c)
               \/ \E where \in {"world", "far"} : HandleMoveWorldportAckOpcode(where)
      BY <3>3 DEF CloseSocket, DatabaseStep, HandlePlayerLoginOpcode,
         HandleMoveWorldportAckOpcode, worldVars, playerVars
    <3> QED BY <1>1, <3>1, <3>2, <3>3 DEF ClientStep
  <2> QED BY <2>1, Zenon DEF FinalInv
<1>2. CASE StopNow
  BY <1>2, Zenon DEF StopNow, FinalInv, worldVars, playerVars
<1>3. CASE AddSession
  <2>1. UNCHANGED <<phase, stop, final>> /\ phase = "add"
    BY <1>3 DEF AddSession
  <2>2. CASE current # NoSession /\ loading[current]
    <3>1. UNCHANGED <<current, player>>
      BY <1>3, <2>2 DEF AddSession, playerVars
    <3>2. player[current] = NoChar
      BY <2>2 DEF PairInv, TypeOK
    <3> QED BY <2>1, <3>1, <3>2, Zenon DEF FinalInv
  <2>3. CASE ~(current # NoSession /\ loading[current])
    <3>1. current' = Head(addQueue) /\ Head(addQueue) \in Sessions /\ Head(addQueue) = addQueue[1]
          /\ Len(addQueue) \in Nat \ {0}
      BY <1>3, <2>3, NextToAdd DEF AddSession
    <3>2. current' \notin disconnected \union {current}
      <4>1. \A s \in disconnected \union {current} : s \in Int /\ s < addQueue[1]
        BY <3>1, SessionNumbers DEF OrderInv, TypeOK, NoSession
      <4> QED BY <3>1, <4>1
    <3>3. player[current'] = NoChar
      BY <3>1, <3>2 DEF PairInv
    <3>4. player'[current'] = NoChar
      <4>1. CASE current = NoSession
        BY <1>3, <2>3, <3>3, <4>1 DEF AddSession, playerVars
      <4>2. CASE current # NoSession
        <5>1. Retire(current) /\ current \in Sessions
          BY <1>3, <2>3, <4>2 DEF AddSession, TypeOK
        <5> QED BY <3>1, <3>2, <3>3, <5>1, RetireEffect DEF LoggedOut
      <4> QED BY <4>1, <4>2
    <3> QED BY <2>1, <3>4, Zenon DEF FinalInv
  <2> QED BY <2>2, <2>3
<1>4. CASE AllSessionsAdded
  BY <1>4, Zenon DEF AllSessionsAdded, FinalInv, worldVars, playerVars
<1>5. CASE SessionStays
  BY <1>5, Zenon DEF SessionStays, FinalInv, worldVars, playerVars
<1>6. CASE SessionLogsOut
  <2>1. current \in Sessions /\ LoggedOut({current}) /\ phase' = "disconnected"
        /\ phase = "sessions" /\ UNCHANGED <<stop, final, current>>
    BY <1>6, LogoutEffect DEF SessionLogsOut, TypeOK, worldVars
  <2>2. player'[current'] = NoChar
    BY <2>1 DEF LoggedOut
  <2> QED BY <2>1, <2>2, Zenon DEF FinalInv
<1>7. CASE SessionClosed \/ SessionIdle
  <2>1. current' = NoSession /\ phase' = "disconnected" /\ phase = "sessions"
        /\ UNCHANGED <<stop, final>>
    BY <1>7 DEF SessionClosed, SessionIdle
  <2> QED BY <2>1, Zenon DEF FinalInv
<1>8. CASE UpdateDisconnected
  <2> DEFINE over == {s \in disconnected : ~InWorld(s) \/ timer[s] < 1}
  <2>1. over \in SUBSET Sessions
    BY DEF TypeOK
  <2>2. /\ LoggedOut(over) /\ phase = "disconnected"
        /\ phase' = IF final THEN "end" ELSE "maps"
        /\ UNCHANGED <<stop, final, current>>
    BY <1>8, <2>1, LogoutEffect DEF UpdateDisconnected
  <2> HIDE DEF over
  <2>3. current # NoSession /\ player[current] = NoChar => player'[current] = NoChar
    BY <2>2 DEF LoggedOut, TypeOK
  <2> QED BY <2>2, <2>3, Zenon DEF FinalInv
<1>9. CASE (MapStep /\ ~EndTick) \/ ResultStep
  <2>1. phase \in {"maps", "results"} /\ phase' \in {"maps", "results"} /\ UNCHANGED <<stop, final>>
    BY <1>9 DEF MapStep, ResultStep, Play, SavePeriodically, TeleportFar, MapsUpdated, DropHolder,
       TakeOver, RefuseLogin, LoadFromDB, ExpectsCharacter
  <2> QED BY <2>1 DEF FinalInv
<1>10. CASE EndTick
  <2>1. phase' = "add" /\ phase = "results" /\ final' = stop /\ UNCHANGED <<stop, current, player>>
        /\ (stop => current \notin open')
    BY <1>10 DEF EndTick, worldVars, playerVars
  <2> QED BY <2>1, Zenon DEF FinalInv
<1> QED BY <1>1, <1>2, <1>3, <1>4, <1>5, <1>6, <1>7, <1>8, <1>9, <1>10
        DEF Next, WorldStep, MapStep, ResultStep

\* An operation that is submitted comes last.
LEMMA QueuedOperations ==
    ASSUME TypeOK, NEW c \in Chars, NEW x
    PROVE  /\ Len(Append(dbQueue[c], x)) = Len(dbQueue[c]) + 1 /\ Len(dbQueue[c]) \in Nat
           /\ \A k \in 1 .. Len(dbQueue[c]) : Append(dbQueue[c], x)[k] = dbQueue[c][k]
           /\ Append(dbQueue[c], x)[Len(dbQueue[c]) + 1] = x
<1>1. dbQueue[c] \in Seq(Operations)
  BY DEF TypeOK
<1> HIDE DEF Operations
<1> QED BY <1>1, SMTT(20)

-----------------------------------------------------------------------------
\* What a step may do that loads no character and executes no operation: it
\* submits saves of characters in memory, or a log-in, and drops a callback.
Submits ==
    /\ UNCHANGED <<logins, saved>>
    /\ callbacks' = callbacks \/ (callbacks # <<>> /\ callbacks' = Tail(callbacks))
    /\ \A c \in Chars :
           \/ dbQueue'[c] = dbQueue[c] /\ (session[c] = NoSession => session'[c] = NoSession)
           \/ dbQueue'[c] = Append(dbQueue[c], Save(version[c])) /\ session[c] # NoSession
           \/ dbQueue'[c] = Append(dbQueue[c], Load(c)) /\ session'[c] = session[c]

\* Callbacks that stay in the queue, one place further on or not.
LEMMA RemainingCallbacks ==
    ASSUME TypeOK, callbacks' = callbacks \/ (callbacks # <<>> /\ callbacks' = Tail(callbacks)),
           NEW k \in 1 .. Len(callbacks')
    PROVE  \E l \in 1 .. Len(callbacks) : callbacks'[k] = callbacks[l]
<1>1. CASE callbacks' = callbacks
  BY <1>1
<1>2. CASE callbacks # <<>> /\ callbacks' = Tail(callbacks)
  <2>1. k \in 1 .. Len(callbacks) - 1 /\ Len(callbacks) \in Nat /\ callbacks'[k] = callbacks[k + 1]
    BY <1>2, NextCallback
  <2> QED BY <2>1
<1> QED BY <1>1, <1>2

LEMMA FreshSubmits ==
    ASSUME TypeOK, LoadsInv, HoldersInv, Submits
    PROVE  LoadsInv' /\ HoldersInv'
<1>1. ASSUME NEW c \in Chars, session[c] = NoSession, NEW l \in Nat,
             NoSaveAfter(dbQueue[c], l)
      PROVE  session'[c] = NoSession /\ NoSaveAfter(dbQueue'[c], l)
  <2>1. CASE dbQueue'[c] = dbQueue[c] /\ session'[c] = NoSession
    BY <1>1, <2>1 DEF NoSaveAfter
  <2>2. CASE dbQueue'[c] = Append(dbQueue[c], Load(c)) /\ session'[c] = session[c]
    <3>1. /\ Len(dbQueue'[c]) = Len(dbQueue[c]) + 1 /\ Len(dbQueue[c]) \in Nat
          /\ \A k \in 1 .. Len(dbQueue[c]) : dbQueue'[c][k] = dbQueue[c][k]
          /\ dbQueue'[c][Len(dbQueue[c]) + 1] = Load(c)
      BY <2>2, QueuedOperations
    <3>2. ~IsSave(Load(c))
      BY DEF IsSave, Load
    <3> QED BY <1>1, <2>2, <3>1, <3>2 DEF NoSaveAfter
  <2> QED BY <1>1, <2>1, <2>2 DEF Submits
<1>2. ASSUME NEW c \in Chars, NEW k \in 1 .. Len(dbQueue'[c]), ~IsSave(dbQueue'[c][k])
      PROVE  /\ dbQueue'[c][k].logins <= logins'[c]
             /\ Fresh(dbQueue'[c][k], logins'[c]) =>
                   session'[c] = NoSession /\ NoSaveAfter(dbQueue'[c], k)
  <2>1. UNCHANGED logins /\ logins[c] \in Nat
    BY DEF Submits, TypeOK
  <2>2. ASSUME k \in 1 .. Len(dbQueue[c]), dbQueue'[c][k] = dbQueue[c][k]
        PROVE  /\ dbQueue'[c][k].logins <= logins'[c]
               /\ Fresh(dbQueue'[c][k], logins'[c]) =>
                     session'[c] = NoSession /\ NoSaveAfter(dbQueue'[c], k)
    <3>1. /\ dbQueue[c][k].logins <= logins[c]
          /\ Fresh(dbQueue[c][k], logins[c]) => session[c] = NoSession /\ NoSaveAfter(dbQueue[c], k)
      BY <1>2, <2>2 DEF LoadsInv
    <3>2. Fresh(dbQueue'[c][k], logins'[c]) <=> Fresh(dbQueue[c][k], logins[c])
      BY <2>1, <2>2
    <3> QED BY <1>1, <2>1, <2>2, <3>1, <3>2
  <2>3. CASE dbQueue'[c] = dbQueue[c]
    BY <1>2, <2>2, <2>3
  <2>4. CASE dbQueue'[c] = Append(dbQueue[c], Save(version[c]))
    <3>1. /\ Len(dbQueue'[c]) = Len(dbQueue[c]) + 1 /\ Len(dbQueue[c]) \in Nat
          /\ \A l \in 1 .. Len(dbQueue[c]) : dbQueue'[c][l] = dbQueue[c][l]
          /\ dbQueue'[c][Len(dbQueue[c]) + 1] = Save(version[c])
      BY <2>4, QueuedOperations
    <3>2. IsSave(Save(version[c]))
      BY DEF IsSave, Save
    <3>3. k # Len(dbQueue[c]) + 1
      BY <1>2, <3>1, <3>2, Zenon
    <3>4. k \in 1 .. Len(dbQueue[c])
      BY <3>1, <3>3
    <3> QED BY <2>2, <3>1, <3>4
  <2>5. CASE dbQueue'[c] = Append(dbQueue[c], Load(c)) /\ session'[c] = session[c]
    <3>1. /\ Len(dbQueue'[c]) = Len(dbQueue[c]) + 1 /\ Len(dbQueue[c]) \in Nat
          /\ \A l \in 1 .. Len(dbQueue[c]) : dbQueue'[c][l] = dbQueue[c][l]
          /\ dbQueue'[c][Len(dbQueue[c]) + 1] = Load(c)
      BY <2>5, QueuedOperations
    <3>2. CASE k \in 1 .. Len(dbQueue[c])
      BY <2>2, <3>1, <3>2
    <3>3. CASE k = Len(dbQueue[c]) + 1
      <4>1. dbQueue'[c][k].logins = logins[c]
            /\ (Fresh(dbQueue'[c][k], logins'[c]) => session[c] = NoSession)
        <5>1. Load(c).logins = logins[c] /\ Load(c).offline = (session[c] = NoSession)
          BY DEF Load
        <5>2. dbQueue'[c][k] = Load(c)
          BY <3>1, <3>3
        <5> QED BY <5>1, <5>2, Zenon DEF Fresh
      <4>2. NoSaveAfter(dbQueue'[c], k)
        BY <3>1, <3>3 DEF NoSaveAfter
      <4> QED BY <2>1, <2>5, <4>1, <4>2
    <3> QED BY <1>2, <3>1, <3>2, <3>3
  <2> QED BY <2>3, <2>4, <2>5 DEF Submits
<1>3. ASSUME NEW k \in 1 .. Len(callbacks')
      PROVE  LET h == callbacks'[k] IN
             /\ h.logins <= logins'[h.char]
             /\ Fresh(h, logins'[h.char]) => /\ session'[h.char] = NoSession
                                     /\ h.version = saved'[h.char]
                                     /\ NoSaveAfter(dbQueue'[h.char], 0)
  <2>1. UNCHANGED <<logins, saved>>
    BY DEF Submits
  <2>2. PICK l \in 1 .. Len(callbacks) : callbacks'[k] = callbacks[l]
    BY RemainingCallbacks DEF Submits
  <2> DEFINE h == callbacks[l]
             d == h.char
  <2>3. d \in Chars
    <3>1. callbacks[l] \in Holders
      BY ElementOfSeq DEF TypeOK
    <3> QED BY <3>1 DEF Holders
  <2>4. /\ h.logins <= logins[d]
        /\ Fresh(h, logins[d]) =>
              session[d] = NoSession /\ h.version = saved[d] /\ NoSaveAfter(dbQueue[d], 0)
    BY DEF HoldersInv
  <2>5. Fresh(h, logins'[d]) => session'[d] = NoSession /\ NoSaveAfter(dbQueue'[d], 0)
    <3> HIDE DEF d
    <3> QED BY <1>1, <2>1, <2>3, <2>4
  <2> QED BY <2>1, <2>2, <2>4, <2>5
<1>4. LoadsInv'
  BY <1>2 DEF LoadsInv
<1>5. HoldersInv'
  BY <1>3 DEF HoldersInv
<1> QED BY <1>4, <1>5

\* A log-in that is carried out makes every other log-in of its character
\* one that was overtaken.
LEMMA FreshLoads ==
    ASSUME TypeOK, LoadsInv, HoldersInv, NEW where, LoadFromDB(where)
    PROVE  LoadsInv' /\ HoldersInv'
<1> DEFINE c == Head(callbacks).char
<1>1. c \in Chars
  BY NextCallback DEF LoadFromDB, ExpectsCharacter, Holders
<1>2. /\ callbacks # <<>> /\ callbacks' = Tail(callbacks)
      /\ session' = [session EXCEPT ![c] = current]
      /\ logins' = [logins EXCEPT ![c] = @ + 1]
      /\ UNCHANGED <<dbQueue, saved>>
  BY DEF LoadFromDB, ExpectsCharacter
<1> HIDE DEF c
<1>3. /\ logins'[c] = logins[c] + 1 /\ logins[c] \in Nat
      /\ \A d \in Chars \ {c} : logins'[d] = logins[d] /\ session'[d] = session[d]
  BY <1>1, <1>2 DEF TypeOK
<1>4. ASSUME NEW d \in Chars, NEW k \in 1 .. Len(dbQueue[d]), ~IsSave(dbQueue[d][k])
      PROVE  /\ dbQueue[d][k].logins <= logins'[d]
             /\ Fresh(dbQueue[d][k], logins'[d]) =>
                   session'[d] = NoSession /\ NoSaveAfter(dbQueue[d], k)
  <2>1. /\ dbQueue[d][k].logins <= logins[d]
        /\ Fresh(dbQueue[d][k], logins[d]) => session[d] = NoSession /\ NoSaveAfter(dbQueue[d], k)
    BY <1>4 DEF LoadsInv
  <2>2. CASE d = c
    <3>1. dbQueue[d] \in Seq(Operations)
      BY DEF TypeOK
    <3>2. dbQueue[d][k] \in Operations
      BY <3>1, ElementOfSeq
    <3>3. dbQueue[d][k].logins \in Nat
      BY <1>4, <3>2 DEF Operations, IsSave
    <3>4. dbQueue[d][k].logins < logins'[d]
      BY <1>3, <2>1, <2>2, <3>3
    <3> QED BY <3>3, <3>4, <1>3, <2>2 DEF Fresh
  <2>3. CASE d # c
    BY <1>3, <2>1, <2>3
  <2> QED BY <2>2, <2>3
<1>5. ASSUME NEW k \in 1 .. Len(callbacks')
      PROVE  LET h == callbacks'[k] IN
             /\ h.logins <= logins'[h.char]
             /\ Fresh(h, logins'[h.char]) => /\ session'[h.char] = NoSession
                                             /\ h.version = saved'[h.char]
                                             /\ NoSaveAfter(dbQueue'[h.char], 0)
  <2>1. PICK l \in 1 .. Len(callbacks) : callbacks'[k] = callbacks[l]
    BY <1>2, RemainingCallbacks
  <2> DEFINE h == callbacks[l]
             d == h.char
  <2>2. h \in Holders
    BY ElementOfSeq DEF TypeOK
  <2>3. d \in Chars /\ h.logins \in Nat
    BY <2>2 DEF Holders
  <2>4. /\ h.logins <= logins[d]
        /\ Fresh(h, logins[d]) =>
              session[d] = NoSession /\ h.version = saved[d] /\ NoSaveAfter(dbQueue[d], 0)
    BY DEF HoldersInv
  <2>5. CASE d = c
    <3>1. h.logins < logins'[d]
      BY <1>3, <2>3, <2>4, <2>5
    <3>2. ~Fresh(h, logins'[d]) /\ h.logins <= logins'[d]
      BY <3>1, <2>3, <1>3, <2>5 DEF Fresh
    <3> QED BY <2>1, <3>2
  <2>6. CASE d # c
    <3>1. logins'[d] = logins[d] /\ session'[d] = session[d]
      BY <1>3, <2>3, <2>6
    <3> QED BY <1>2, <2>1, <2>4, <3>1
  <2> QED BY <2>5, <2>6
<1>6. LoadsInv'
  BY <1>2, <1>4 DEF LoadsInv
<1>7. HoldersInv'
  BY <1>5 DEF HoldersInv
<1> QED BY <1>6, <1>7

\* An operation that is executed: no save comes after a load that nothing
\* overtook, so that what it reads stays the last save.
LEMMA FreshDatabase ==
    ASSUME TypeOK, LoadsInv, HoldersInv, NEW c \in Chars, DatabaseStep(c)
    PROVE  LoadsInv' /\ HoldersInv'
<1> DEFINE x == Head(dbQueue[c])
           n == [char |-> c, version |-> saved[c], offline |-> x.offline, logins |-> x.logins]
<1>1. /\ dbQueue' = [dbQueue EXCEPT ![c] = Tail(dbQueue[c])]
      /\ x = dbQueue[c][1] /\ x \in Operations
      /\ Len(dbQueue[c]) \in Nat \ {0} /\ Len(dbQueue'[c]) = Len(dbQueue[c]) - 1
      /\ \A k \in 1 .. Len(dbQueue'[c]) : dbQueue'[c][k] = dbQueue[c][k + 1]
      /\ \A d \in Chars \ {c} : dbQueue'[d] = dbQueue[d]
  <2>1. dbQueue' = [dbQueue EXCEPT ![c] = Tail(dbQueue[c])] /\ dbQueue[c] # <<>>
    BY DEF DatabaseStep
  <2>2. dbQueue'[c] = Tail(dbQueue[c]) /\ \A d \in Chars \ {c} : dbQueue'[d] = dbQueue[d]
    BY <2>1 DEF TypeOK
  <2> QED BY <2>1, <2>2, NextOperation
<1>2. UNCHANGED <<session, logins>>
  BY DEF DatabaseStep, playerVars
<1>3. ASSUME NEW d \in Chars, NEW k \in Nat,
             NoSaveAfter(dbQueue[d], IF d = c /\ k # 0 THEN k + 1 ELSE k)
      PROVE  NoSaveAfter(dbQueue'[d], k)
  BY <1>1, <1>3 DEF NoSaveAfter
<1>4. ASSUME NEW d \in Chars, NEW k \in 1 .. Len(dbQueue'[d]), ~IsSave(dbQueue'[d][k])
      PROVE  /\ dbQueue'[d][k].logins <= logins'[d]
             /\ Fresh(dbQueue'[d][k], logins'[d]) =>
                   session'[d] = NoSession /\ NoSaveAfter(dbQueue'[d], k)
  <2> DEFINE l == IF d = c THEN k + 1 ELSE k
  <2>1. l \in 1 .. Len(dbQueue[d]) /\ dbQueue'[d][k] = dbQueue[d][l]
    BY <1>1
  <2>2. /\ dbQueue[d][l].logins <= logins[d]
        /\ Fresh(dbQueue[d][l], logins[d]) => session[d] = NoSession /\ NoSaveAfter(dbQueue[d], l)
    <3> HIDE DEF l
    <3> QED BY <1>4, <2>1 DEF LoadsInv
  <2>3. NoSaveAfter(dbQueue[d], l) => NoSaveAfter(dbQueue'[d], k)
    BY <1>3
  <2> QED BY <1>2, <2>1, <2>2, <2>3
<1>5. ASSUME NEW l \in 1 .. Len(callbacks)
      PROVE  LET h == callbacks[l] IN
             /\ h.logins <= logins'[h.char]
             /\ Fresh(h, logins'[h.char]) => /\ session'[h.char] = NoSession
                                             /\ h.version = saved'[h.char]
                                             /\ NoSaveAfter(dbQueue'[h.char], 0)
  <2> DEFINE h == callbacks[l]
             d == h.char
  <2>1. d \in Chars
    <3>1. callbacks[l] \in Holders
      BY ElementOfSeq DEF TypeOK
    <3> QED BY <3>1 DEF Holders
  <2>2. /\ h.logins <= logins[d]
        /\ Fresh(h, logins[d]) =>
              session[d] = NoSession /\ h.version = saved[d] /\ NoSaveAfter(dbQueue[d], 0)
    BY DEF HoldersInv
  <2>3. NoSaveAfter(dbQueue[d], 0) => NoSaveAfter(dbQueue'[d], 0)
    BY <1>3, <2>1
  <2>4. NoSaveAfter(dbQueue[d], 0) => saved'[d] = saved[d]
    <3>1. CASE d = c /\ IsSave(x)
      BY <1>1, <3>1 DEF NoSaveAfter
    <3>2. CASE ~(d = c /\ IsSave(x))
      BY <2>1, <3>2 DEF DatabaseStep, TypeOK
    <3> QED BY <3>1, <3>2
  <2> QED BY <1>2, <2>2, <2>3, <2>4
<1>6. CASE IsSave(x)
  <2>1. callbacks' = callbacks
    BY <1>6 DEF DatabaseStep
  <2>2. HoldersInv'
    BY <1>5, <2>1 DEF HoldersInv
  <2> QED BY <1>4, <2>2 DEF LoadsInv
<1>7. CASE ~IsSave(x)
  <2>1. callbacks' = Append(callbacks, n) /\ saved' = saved
    BY <1>7 DEF DatabaseStep
  <2>2. /\ x.logins <= logins[c]
        /\ Fresh(x, logins[c]) => session[c] = NoSession /\ NoSaveAfter(dbQueue[c], 1)
    BY <1>1, <1>7 DEF LoadsInv
  <2>3. Fresh(n, logins[c]) <=> Fresh(x, logins[c])
    BY DEF Fresh
  <2>4. NoSaveAfter(dbQueue[c], 1) => NoSaveAfter(dbQueue'[c], 0)
    BY <1>1 DEF NoSaveAfter
  <2>5. n.char = c /\ n.version = saved[c] /\ n.logins = x.logins
    OBVIOUS
  <2> HIDE DEF n, x
  <2>6. /\ n.logins <= logins'[n.char]
        /\ Fresh(n, logins'[n.char]) => /\ session'[n.char] = NoSession
                                        /\ n.version = saved'[n.char]
                                        /\ NoSaveAfter(dbQueue'[n.char], 0)
    BY <1>2, <2>1, <2>2, <2>3, <2>4, <2>5
  <2>7. /\ Len(callbacks') = Len(callbacks) + 1 /\ Len(callbacks) \in Nat
        /\ \A l \in 1 .. Len(callbacks) : callbacks'[l] = callbacks[l]
        /\ callbacks'[Len(callbacks) + 1] = n
    <3>1. callbacks \in Seq(Holders)
      BY DEF TypeOK
    <3> QED BY <2>1, <3>1, SMTT(20)
  <2>8. HoldersInv'
    <3> SUFFICES ASSUME NEW k \in 1 .. Len(callbacks')
                 PROVE  LET h == callbacks'[k] IN
                        /\ h.logins <= logins'[h.char]
                        /\ Fresh(h, logins'[h.char]) => /\ session'[h.char] = NoSession
                                                        /\ h.version = saved'[h.char]
                                                        /\ NoSaveAfter(dbQueue'[h.char], 0)
      BY DEF HoldersInv
    <3>1. CASE k = Len(callbacks) + 1
      BY <2>6, <2>7, <3>1
    <3>2. CASE k \in 1 .. Len(callbacks)
      BY <1>5, <2>7, <3>2
    <3> QED BY <2>7, <3>1, <3>2
  <2> QED BY <1>4, <2>8 DEF LoadsInv
<1> QED BY <1>6, <1>7

\* Whoever is logged out, and was in memory, submits a last save.
LEMMA LogoutSubmits ==
    ASSUME TypeOK, NEW S \in SUBSET Sessions, LoggedOut(S), UNCHANGED <<callbacks, logins, saved>>
    PROVE  Submits
<1>1. ASSUME NEW c \in Chars
      PROVE  \/ dbQueue'[c] = dbQueue[c] /\ (session[c] = NoSession => session'[c] = NoSession)
             \/ dbQueue'[c] = Append(dbQueue[c], Save(version[c])) /\ session[c] # NoSession
  <2>1. /\ session'[c] = IF session[c] \in S THEN NoSession ELSE session[c]
        /\ dbQueue'[c] = IF session[c] \in S
                         THEN Append(dbQueue[c], Save(version[c]))
                         ELSE dbQueue[c]
    BY DEF LoggedOut
  <2> QED BY <2>1, SessionNumbers
<1> QED BY <1>1 DEF Submits

\* Every step but a load and an operation of the database.
LEMMA NextSubmits ==
    ASSUME TypeOK, PairInv, Next,
           ~ \E where \in {"world", "far"} : LoadFromDB(where),
           ~ \E c \in Chars : DatabaseStep(c)
    PROVE  Submits
<1>1. CASE \/ ClientStep \/ StopNow \/ AllSessionsAdded \/ SessionStays \/ SessionIdle
           \/ \E c \in Chars : Play(c) \/ TeleportFar(c)
           \/ \E where \in {"world", "far"} : HandleMoveWorldportAckOpcode(where)
           \/ MapsUpdated \/ EndTick
  <2>1. UNCHANGED <<dbQueue, callbacks, session, logins, saved>>
    BY <1>1 DEF ClientStep, Connect, CloseSocket, StopNow, AllSessionsAdded, SessionStays,
       SessionIdle, Play, TeleportFar, HandleMoveWorldportAckOpcode, MapsUpdated, EndTick,
       playerVars, loginVars
  <2> QED BY <2>1 DEF Submits
<1>2. ASSUME NEW d \in Chars, HandlePlayerLoginOpcode(d) PROVE Submits
  BY <1>2 DEF HandlePlayerLoginOpcode, Submits, TypeOK, playerVars
<1>3. ASSUME NEW d \in Chars, SavePeriodically(d) PROVE Submits
  <2>1. session[d] # NoSession
    BY <1>3 DEF SavePeriodically, PairInv
  <2> QED BY <1>3, <2>1 DEF SavePeriodically, Submits, TypeOK, playerVars, loginVars
<1>4. ASSUME HandleLogoutRequestOpcode \/ SessionLogsOut PROVE Submits
  <2>1. current \in Sessions /\ LogoutPlayers({current}) /\ UNCHANGED <<callbacks, logins, saved>>
    BY <1>4 DEF HandleLogoutRequestOpcode, SessionLogsOut, CanProcessPackets, TypeOK, loginVars
  <2>2. LoggedOut({current})
    BY <2>1, LogoutEffect
  <2> QED BY <2>1, <2>2, LogoutSubmits
<1>5. ASSUME UpdateDisconnected PROVE Submits
  <2> DEFINE over == {s \in disconnected : ~InWorld(s) \/ timer[s] < 1}
  <2>1. over \in SUBSET Sessions
    BY DEF TypeOK
  <2>2. LogoutPlayers(over) /\ UNCHANGED <<callbacks, logins, saved>>
    BY <1>5 DEF UpdateDisconnected, loginVars
  <2> HIDE DEF over
  <2> QED BY <2>1, <2>2, LogoutEffect, LogoutSubmits
<1>6. ASSUME AddSession \/ SessionClosed PROVE Submits
  <2>1. UNCHANGED <<callbacks, logins, saved>>
    BY <1>6 DEF AddSession, SessionClosed, loginVars
  <2>2. CASE current # NoSession /\ Retire(current)
    <3>1. current \in Sessions
      BY <2>2 DEF TypeOK
    <3>2. LoggedOut({current}) \/ UNCHANGED <<session, dbQueue>>
      BY <2>2, <3>1, RetireEffect
    <3>3. CASE LoggedOut({current})
      BY <2>1, <3>1, <3>3, LogoutSubmits
    <3>4. CASE UNCHANGED <<session, dbQueue>>
      BY <2>1, <3>4 DEF Submits
    <3> QED BY <3>2, <3>3, <3>4
  <2>3. CASE UNCHANGED <<session, dbQueue>>
    BY <2>1, <2>3 DEF Submits
  <2> QED BY <1>6, <2>2, <2>3 DEF AddSession, SessionClosed, playerVars
<1>7. ASSUME DropHolder \/ RefuseLogin PROVE Submits
  BY <1>7 DEF DropHolder, RefuseLogin, ExpectsCharacter, Submits, playerVars
<1>8. ASSUME TakeOver PROVE Submits
  <2> DEFINE d == Head(callbacks).char
  <2>1. /\ place[d] = "world" /\ session' = [session EXCEPT ![d] = current]
        /\ callbacks # <<>> /\ callbacks' = Tail(callbacks)
        /\ UNCHANGED <<dbQueue, logins, saved>>
    BY <1>8 DEF TakeOver, ExpectsCharacter
  <2>2. d \in Chars
    BY <2>1, NextCallback DEF Holders
  <2> HIDE DEF d
  <2>3. session[d] # NoSession
    BY <2>1, <2>2 DEF PairInv
  <2> QED BY <2>1, <2>2, <2>3 DEF Submits, TypeOK
<1> QED BY <1>1, <1>2, <1>3, <1>4, <1>5, <1>6, <1>7, <1>8 DEF Next, WorldStep

LEMMA FreshNext ==
    ASSUME TypeOK, PairInv, LoadsInv, HoldersInv, Next
    PROVE  LoadsInv' /\ HoldersInv'
BY NextSubmits, FreshSubmits, FreshLoads, FreshDatabase

-----------------------------------------------------------------------------
LEMMA InitLoginInv == Init => LoginInv
<1> SUFFICES ASSUME Init PROVE LoginInv
  OBVIOUS
<1>1. TypeOK
  <2>1. \A T : <<>> \in Seq(T)
    BY EmptySeq
  <2>2. /\ {stop, final} \subseteq BOOLEAN
        /\ loading \in [Sessions -> BOOLEAN]
    BY Zenon DEF Init
  <2>3. /\ opened \in 0 .. MaxSessions /\ requests \in 0 .. MaxRequests
        /\ timer \in [Sessions -> 0 .. Delay]
    BY SessionNumbers DEF Init
  <2>4. /\ logins \in [Chars -> Nat] /\ version \in [Chars -> Versions]
        /\ saved \in [Chars -> Versions]
    BY SessionNumbers DEF Init
  <2>5. /\ phase \in Phases /\ current \in Sessions \union {NoSession}
        /\ disconnected \subseteq Sessions /\ open \subseteq Sessions
        /\ player \in [Sessions -> Chars \union {NoChar}]
        /\ session \in [Chars -> Sessions \union {NoSession}]
        /\ place \in [Chars -> Places]
    BY Zenon DEF Init, Phases, Places
  <2>6. /\ addQueue \in Seq(Sessions) /\ callbacks \in Seq(Holders)
        /\ dbQueue \in [Chars -> Seq(Operations)]
    BY <2>1, Zenon DEF Init
  <2> QED BY <2>2, <2>3, <2>4, <2>5, <2>6, Zenon DEF TypeOK
<1>2. PairInv
  BY SessionNumbers DEF Init, PairInv
<1>3. OrderInv /\ LoadsInv /\ HoldersInv
  BY DEF Init, OrderInv, LoadsInv, HoldersInv, NoSession
<1>4. FinalInv
  BY Zenon DEF Init, FinalInv
<1> QED BY <1>1, <1>2, <1>3, <1>4 DEF LoginInv

LEMMA TypesNext ==
    ASSUME TypeOK, PairInv, Next
    PROVE  TypeOK'
BY TypesOfClient, TypesOfAdding, TypesOfSessions, TypesOfMaps, TypesOfResults, TypesOfDatabase
   DEF Next, WorldStep, SessionStep, MapStep, ResultStep

LEMMA StutterLoginInv ==
    ASSUME LoginInv, UNCHANGED vars
    PROVE  LoginInv'
<1> USE DEF LoginInv
<1>1. TypeOK'
  BY Zenon DEF TypeOK, vars
<1>2. PairInv' /\ OrderInv'
  BY DEF PairInv, OrderInv, vars
<1>3. FinalInv'
  BY Zenon DEF FinalInv, vars
<1>4. LoadsInv' /\ HoldersInv'
  BY DEF LoadsInv, HoldersInv, vars
<1> QED BY <1>1, <1>2, <1>3, <1>4

LEMMA NextLoginInv ==
    ASSUME LoginInv, [Next]_vars
    PROVE  LoginInv'
<1>1. CASE Next
  <2>1. TypeOK'
    BY <1>1, TypesNext DEF LoginInv
  <2> QED BY <1>1, <2>1, PairNext, OrderNext, FinalNext, FreshNext DEF LoginInv
<1>2. CASE UNCHANGED vars
  BY <1>2, StutterLoginInv
<1> QED BY <1>1, <1>2

\* The invariant behind every theorem of this module.
THEOREM LoginInvariant == Spec => []LoginInv
BY InitLoginInv, NextLoginInv, PTL DEF Spec

\* Every state has the types the code declares; no timer passes its start.
THEOREM TypeCorrect == Spec => []TypeOK
<1>1. LoginInv => TypeOK
  BY DEF LoginInv
<1> QED BY <1>1, LoginInvariant, PTL

\* A session and its character always point at each other, no character
\* points at a deleted session, and who loads is the connected session.
THEOREM OwnersAlwaysAgree == Spec => []OwnersAgree
<1>1. ASSUME LoginInv PROVE OwnersAgree
  <2>1. TypeOK /\ PairInv
    BY <1>1 DEF LoginInv
  <2>2. ASSUME NEW c \in Chars PROVE session[c] \in SessionsInUse \union {NoSession}
    <3>1. CASE session[c] # NoSession
      <4>1. session[c] \in Sessions
        BY <2>1, <3>1 DEF TypeOK
      <4>2. player[session[c]] # NoChar
        BY <2>1, <4>1, SessionNumbers DEF PairInv
      <4>3. session[c] \in disconnected \union {current}
        BY <2>1, <4>1, <4>2 DEF PairInv
      <4> QED BY <3>1, <4>3 DEF SessionsInUse
    <3> QED BY <3>1
  <2> QED BY <2>1, <2>2, Zenon DEF PairInv, OwnersAgree
<1> QED BY <1>1, LoginInvariant, PTL

\* After a shutdown only disconnected sessions still have a character.
THEOREM ShutdownLogsOut == Spec => []ShutdownLogsOutConnected
<1>1. ASSUME LoginInv PROVE ShutdownLogsOutConnected
  <2>1. TypeOK /\ PairInv /\ FinalInv
    BY <1>1 DEF LoginInv
  <2>2. ASSUME phase = "end", NEW c \in Chars, session[c] # NoSession
        PROVE  session[c] \in disconnected
    <3>1. session[c] \in Sessions /\ player[session[c]] # NoChar
      <4>1. session[c] \in Sessions
        BY <2>1, <2>2 DEF TypeOK
      <4> QED BY <2>1, <4>1, SessionNumbers DEF PairInv
    <3>2. current # NoSession => player[current] = NoChar
      BY <2>1, <2>2 DEF FinalInv
    <3>3. session[c] # current
      BY <2>2, <3>1, <3>2
    <3> QED BY <2>1, <3>1, <3>3 DEF PairInv
  <2> QED BY <2>2 DEF ShutdownLogsOutConnected
<1> QED BY <1>1, LoginInvariant, PTL

-----------------------------------------------------------------------------
\* A character leaves memory only by a log-out.
LEMMA LeavesByLogout ==
    ASSUME TypeOK, PairInv, Next, NEW c \in Chars, session[c] # NoSession, session'[c] = NoSession
    PROVE  \E S \in SUBSET Sessions : LoggedOut(S) /\ session[c] \in S
<1>1. ASSUME NEW S \in SUBSET Sessions, LoggedOut(S) PROVE session[c] \in S
  BY <1>1 DEF LoggedOut
<1>2. CASE HandleLogoutRequestOpcode \/ SessionLogsOut
  <2>1. current \in Sessions /\ LogoutPlayers({current})
    BY <1>2 DEF HandleLogoutRequestOpcode, SessionLogsOut, CanProcessPackets, TypeOK
  <2>2. LoggedOut({current})
    BY <2>1, LogoutEffect
  <2> QED BY <1>1, <2>1, <2>2
<1>3. CASE UpdateDisconnected
  <2> DEFINE over == {s \in disconnected : ~InWorld(s) \/ timer[s] < 1}
  <2>1. over \in SUBSET Sessions
    BY DEF TypeOK
  <2>2. LogoutPlayers(over)
    BY <1>3 DEF UpdateDisconnected
  <2> HIDE DEF over
  <2> QED BY <1>1, <2>1, <2>2, LogoutEffect
<1>4. CASE AddSession \/ SessionClosed
  <2>1. current \in Sessions /\ Retire(current)
    BY <1>4 DEF AddSession, SessionClosed, TypeOK, playerVars
  <2>2. LoggedOut({current})
    BY <2>1, RetireEffect
  <2> QED BY <1>1, <2>1, <2>2
<1>5. CASE TakeOver
  <2>1. current \in Sessions /\ session' = [session EXCEPT ![Head(callbacks).char] = current]
    BY <1>5 DEF TakeOver, ExpectsCharacter, TypeOK
  <2> QED BY <2>1, SessionNumbers DEF TypeOK
<1>6. ASSUME NEW where, LoadFromDB(where) PROVE FALSE
  <2>1. current \in Sessions /\ session' = [session EXCEPT ![Head(callbacks).char] = current]
    BY <1>6 DEF LoadFromDB, ExpectsCharacter, TypeOK
  <2> QED BY <2>1, SessionNumbers DEF TypeOK
<1>7. CASE \/ QuietStep \/ SessionIdle \/ DropHolder \/ RefuseLogin
           \/ \E d \in Chars : HandlePlayerLoginOpcode(d) \/ TeleportFar(d)
           \/ \E where \in {"world", "far"} : HandleMoveWorldportAckOpcode(where)
  <2>1. UNCHANGED session
    BY <1>7, QuietUnchanged DEF SessionIdle, DropHolder, RefuseLogin, HandlePlayerLoginOpcode,
       TeleportFar, HandleMoveWorldportAckOpcode, playerVars
  <2> QED BY <2>1
<1> QED BY <1>2, <1>3, <1>4, <1>5, <1>6, <1>7 DEF Next, WorldStep, QuietStep

\* What a character had is kept while it is out of memory.
LEMMA VersionKept ==
    ASSUME TypeOK, PairInv, Next, NEW c \in Chars, session'[c] = NoSession
    PROVE  version'[c] = version[c]
<1>1. ASSUME NEW d \in Chars, Play(d) PROVE version'[c] = version[c]
  <2>1. session[c] = NoSession /\ place[d] = "world" /\ version' = [version EXCEPT ![d] = @ + 1]
    BY <1>1 DEF Play, playerVars
  <2>2. d # c
    BY <2>1 DEF PairInv
  <2> QED BY <2>1, <2>2 DEF TypeOK
<1>2. ASSUME NEW where, LoadFromDB(where) PROVE version'[c] = version[c]
  <2>1. /\ current \in Sessions
        /\ session' = [session EXCEPT ![Head(callbacks).char] = current]
        /\ version' = [version EXCEPT ![Head(callbacks).char] = Head(callbacks).version]
    BY <1>2 DEF LoadFromDB, ExpectsCharacter, TypeOK
  <2>2. Head(callbacks).char # c
    BY <2>1, SessionNumbers DEF TypeOK
  <2> QED BY <2>1, <2>2 DEF TypeOK
<1>3. CASE UNCHANGED version
  BY <1>3
<1>4. UNCHANGED version \/ (\E d \in Chars : Play(d)) \/ \E where : LoadFromDB(where)
  BY DEF Next, ClientStep, Connect, CloseSocket, StopNow, WorldStep, AddSession,
     AllSessionsAdded, HandlePlayerLoginOpcode, HandleLogoutRequestOpcode,
     HandleMoveWorldportAckOpcode, SessionStays, SessionLogsOut, SessionClosed, SessionIdle,
     UpdateDisconnected, SavePeriodically, TeleportFar, MapsUpdated, DropHolder, TakeOver,
     RefuseLogin, EndTick, DatabaseStep
<1> QED BY <1>1, <1>2, <1>3, <1>4

\* The last save of a character that is out of memory has what it had when it
\* left: that save waits in the queue, or is in the tables.
LeftInv ==
    \A c \in Chars : session[c] = NoSession =>
        /\ NoSaveAfter(dbQueue[c], 0) => saved[c] = version[c]
        /\ \A k \in 1 .. Len(dbQueue[c]) :
              IsSave(dbQueue[c][k]) /\ NoSaveAfter(dbQueue[c], k) => dbQueue[c][k].version = version[c]

\* The conjunct of LeftInv about c, for a queue q and tables that have v.
LastIs(c, q, v) ==
    /\ NoSaveAfter(q, 0) => v = version[c]
    /\ \A k \in 1 .. Len(q) : IsSave(q[k]) /\ NoSaveAfter(q, k) => q[k].version = version[c]

\* A queue that got another operation: it has no later save than that, and if
\* it is none itself, the last save is what it was.
LEMMA LastAppended ==
    ASSUME TypeOK, NEW c \in Chars, NEW x, NEW v,
           \/ IsSave(x) /\ x.version = version[c]
           \/ ~IsSave(x) /\ LastIs(c, dbQueue[c], v)
    PROVE  LastIs(c, Append(dbQueue[c], x), v)
<1> DEFINE q == dbQueue[c]
           r == Append(dbQueue[c], x)
           n == Len(q) + 1
<1>1. /\ Len(r) = n /\ n \in Nat \ {0} /\ r[n] = x
      /\ \A k \in 1 .. n - 1 : r[k] = q[k]
  BY QueuedOperations
<1> HIDE DEF q, r, n
<1>2. ASSUME IsSave(x) PROVE \A k \in Nat : NoSaveAfter(r, k) => k >= n
  BY <1>1, <1>2 DEF NoSaveAfter
<1>3. \A k \in Nat : NoSaveAfter(r, k) => NoSaveAfter(q, k)
  <2> SUFFICES ASSUME NEW k \in Nat, NoSaveAfter(r, k), NEW l \in 1 .. Len(q), k < l
               PROVE  ~IsSave(q[l])
    BY DEF NoSaveAfter
  <2>1. l \in 1 .. n - 1 /\ l \in 1 .. n
    BY <1>1, QueuedOperations DEF n, q
  <2> QED BY <1>1, <2>1 DEF NoSaveAfter
<1>4. CASE IsSave(x)
  <2>1. ~NoSaveAfter(r, 0)
    BY <1>1, <1>2, <1>4
  <2>2. ASSUME NEW k \in 1 .. Len(r), NoSaveAfter(r, k) PROVE k = n
    BY <1>1, <1>2, <1>4, <2>2
  <2> QED BY <1>1, <1>4, <2>1, <2>2 DEF LastIs, r
<1>5. CASE ~IsSave(x)
  <2>1. LastIs(c, q, v)
    BY <1>5 DEF q
  <2>2. ASSUME NEW k \in 1 .. Len(r), IsSave(r[k]), NoSaveAfter(r, k)
        PROVE  r[k].version = version[c]
    <3>1. k \in 1 .. n - 1
      BY <1>1, <1>5, <2>2
    <3>2. r[k] = q[k] /\ k \in 1 .. Len(q) /\ NoSaveAfter(q, k)
      BY <1>1, <1>3, <2>2, <3>1 DEF n
    <3> QED BY <2>1, <2>2, <3>2 DEF LastIs
  <2>3. NoSaveAfter(r, 0) => v = version[c]
    BY <1>3, <2>1 DEF LastIs
  <2> QED BY <2>2, <2>3 DEF LastIs, r
<1> QED BY <1>4, <1>5

\* An operation that the database has executed.
LEMMA LastExecuted ==
    ASSUME TypeOK, NEW c \in Chars, DatabaseStep(c), LastIs(c, dbQueue[c], saved[c])
    PROVE  LastIs(c, dbQueue'[c], saved'[c])
<1> DEFINE q == dbQueue[c]
           r == dbQueue'[c]
           x == Head(dbQueue[c])
<1>1. /\ x = q[1] /\ x \in Operations
      /\ Len(q) \in Nat \ {0} /\ Len(r) = Len(q) - 1
      /\ \A k \in 1 .. Len(r) : r[k] = q[k + 1]
  <2>1. dbQueue' = [dbQueue EXCEPT ![c] = Tail(dbQueue[c])] /\ dbQueue[c] # <<>>
    BY DEF DatabaseStep
  <2>2. dbQueue'[c] = Tail(dbQueue[c])
    BY <2>1 DEF TypeOK
  <2> QED BY <2>1, <2>2, NextOperation
<1>2. saved'[c] = IF IsSave(x) THEN x.version ELSE saved[c]
  BY DEF DatabaseStep, TypeOK
<1> HIDE DEF q, r, x
<1>3. \A k \in Nat : NoSaveAfter(r, k) => NoSaveAfter(q, k + 1)
  <2> SUFFICES ASSUME NEW k \in Nat, NoSaveAfter(r, k), NEW l \in 1 .. Len(q), k + 1 < l
               PROVE  ~IsSave(q[l])
    BY DEF NoSaveAfter
  <2>1. l - 1 \in 1 .. Len(r) /\ k < l - 1 /\ r[l - 1] = q[l]
    BY <1>1
  <2> QED BY <2>1 DEF NoSaveAfter
<1>4. LastIs(c, q, saved[c])
  BY DEF q
<1>5. ASSUME NEW k \in 1 .. Len(r), IsSave(r[k]), NoSaveAfter(r, k)
      PROVE  r[k].version = version[c]
  <2>1. k + 1 \in 1 .. Len(q) /\ r[k] = q[k + 1] /\ NoSaveAfter(q, k + 1)
    BY <1>1, <1>3, <1>5
  <2> QED BY <1>4, <1>5, <2>1 DEF LastIs
<1>6. ASSUME NoSaveAfter(r, 0) PROVE saved'[c] = version[c]
  <2>1. NoSaveAfter(q, 1)
    BY <1>3, <1>6
  <2>2. CASE IsSave(x)
    <3>1. 1 \in 1 .. Len(q) /\ q[1] = x
      BY <1>1
    <3> QED BY <1>2, <1>4, <2>1, <2>2, <3>1 DEF LastIs
  <2>3. CASE ~IsSave(x)
    <3>1. NoSaveAfter(q, 0)
      BY <1>1, <2>1, <2>3 DEF NoSaveAfter
    <3> QED BY <1>2, <1>4, <2>3, <3>1 DEF LastIs
  <2> QED BY <2>2, <2>3
<1> QED BY <1>5, <1>6 DEF LastIs, r

\* Whoever leaves is saved as it is, and nothing is saved of who is away.
LEMMA LeftNext ==
    ASSUME LoginInv, LeftInv, Next
    PROVE  LeftInv'
<1>1. TypeOK /\ PairInv
  BY DEF LoginInv
<1> SUFFICES ASSUME NEW c \in Chars, session'[c] = NoSession
             PROVE  LastIs(c, dbQueue'[c], saved'[c])
  <2>1. \A c \in Chars : session'[c] = NoSession => version'[c] = version[c]
    BY <1>1, VersionKept
  <2> QED BY <2>1 DEF LeftInv, LastIs
<1>2. CASE session[c] # NoSession
  <2>1. PICK S \in SUBSET Sessions : LoggedOut(S) /\ session[c] \in S
    BY <1>1, <1>2, LeavesByLogout
  <2>2. dbQueue'[c] = Append(dbQueue[c], Save(version[c]))
    BY <2>1 DEF LoggedOut
  <2>3. IsSave(Save(version[c])) /\ Save(version[c]).version = version[c]
    BY DEF IsSave, Save
  <2> QED BY <1>1, <2>2, <2>3, LastAppended
<1>3. CASE session[c] = NoSession
  <2>1. LastIs(c, dbQueue[c], saved[c])
    BY <1>3 DEF LeftInv, LastIs
  <2>2. CASE \E where \in {"world", "far"} : LoadFromDB(where)
    BY <2>1, <2>2 DEF LoadFromDB
  <2>3. ASSUME NEW d \in Chars, DatabaseStep(d) PROVE LastIs(c, dbQueue'[c], saved'[c])
    <3>1. CASE d = c
      BY <1>1, <2>1, <2>3, <3>1, LastExecuted
    <3>2. CASE d # c
      BY <1>1, <2>1, <2>3, <3>2 DEF DatabaseStep, TypeOK
    <3> QED BY <3>1, <3>2
  <2>4. CASE Submits
    <3>1. saved' = saved /\ (dbQueue'[c] = dbQueue[c] \/ dbQueue'[c] = Append(dbQueue[c], Load(c)))
      BY <1>3, <2>4 DEF Submits
    <3>2. ~IsSave(Load(c))
      BY DEF IsSave, Load
    <3> QED BY <1>1, <2>1, <3>1, <3>2, LastAppended
  <2> QED BY <1>1, <2>2, <2>3, <2>4, NextSubmits
<1> QED BY <1>2, <1>3

LEMMA LeftInvariant == Spec => []LeftInv
<1>1. Init => LeftInv
  BY DEF Init, LeftInv
<1>2. LoginInv /\ LeftInv /\ [Next]_vars => LeftInv'
  <2>1. CASE UNCHANGED vars
    BY <2>1 DEF LeftInv, vars
  <2> QED BY <2>1, LeftNext
<1> QED BY <1>1, <1>2, LoginInvariant, PTL DEF Spec

\* A log-in that was requested while the character was out of memory, and
\* that no other log-in overtook, loads what the character had when it left.
THEOREM OfflineLoginsReadLastSave == Spec => OfflineLoginReadsLastSave
<1>1. ASSUME LoginInv, LeftInv, NEW where, LoadFromDB(where),
             Head(callbacks).offline,
             Head(callbacks).logins = logins[Head(callbacks).char]
      PROVE  Head(callbacks).version = version[Head(callbacks).char]
  <2> DEFINE h == Head(callbacks)
             c == h.char
  <2>1. TypeOK /\ HoldersInv
    BY <1>1 DEF LoginInv
  <2>2. callbacks # <<>>
    BY <1>1 DEF LoadFromDB, ExpectsCharacter
  <2>3. h = callbacks[1] /\ h \in Holders /\ 1 \in 1 .. Len(callbacks)
    BY <2>1, <2>2, NextCallback
  <2>4. c \in Chars
    BY <2>3 DEF Holders
  <2>5. Fresh(h, logins[c])
    BY <1>1 DEF Fresh
  <2>6. h.version = saved[c] /\ NoSaveAfter(dbQueue[c], 0) /\ session[c] = NoSession
    BY <2>1, <2>3, <2>5 DEF HoldersInv
  <2> QED BY <1>1, <2>4, <2>6 DEF LeftInv
<1>2. LoginInv /\ LeftInv /\ [Next]_vars =>
          [\A where \in Places :
               LoadFromDB(where) =>
                   LET h == Head(callbacks) IN
                   h.offline /\ h.logins = logins[h.char] => h.version = version[h.char]]_vars
  BY <1>1
<1> QED BY <1>2, LoginInvariant, LeftInvariant, PTL DEF Spec, OfflineLoginReadsLastSave

-----------------------------------------------------------------------------
\* A holder is on its way.
Underway ==
    \/ callbacks # <<>>
    \/ \E c \in Chars : \E k \in 1 .. Len(dbQueue[c]) : ~IsSave(dbQueue[c][k])

\* Who submits operations and begins to load nothing takes no holder away.
LEMMA UnderwayStays ==
    ASSUME LoginInv, LoadingIsUnderway, callbacks' = callbacks,
           \A s \in Sessions : loading'[s] => loading[s],
           \A c \in Chars : dbQueue'[c] = dbQueue[c] \/ \E x : dbQueue'[c] = Append(dbQueue[c], x)
    PROVE  LoadingIsUnderway'
<1> SUFFICES ASSUME Underway PROVE Underway'
  BY DEF LoadingIsUnderway, Underway
<1>1. CASE callbacks # <<>>
  BY <1>1 DEF Underway
<1>2. ASSUME NEW c \in Chars, NEW k \in 1 .. Len(dbQueue[c]), ~IsSave(dbQueue[c][k])
      PROVE  Underway'
  <2>1. CASE dbQueue'[c] = dbQueue[c]
    BY <1>2, <2>1 DEF Underway
  <2>2. ASSUME NEW x, dbQueue'[c] = Append(dbQueue[c], x)
        PROVE  Underway'
    <3>1. /\ Len(dbQueue'[c]) = Len(dbQueue[c]) + 1 /\ Len(dbQueue[c]) \in Nat
          /\ dbQueue'[c][k] = dbQueue[c][k]
      BY <2>2, QueuedOperations DEF LoginInv
    <3>2. k \in 1 .. Len(dbQueue'[c])
      BY <3>1
    <3> QED BY <1>2, <3>1, <3>2 DEF Underway
  <2> QED BY <2>1, <2>2
<1> QED BY <1>1, <1>2 DEF Underway

\* The request submits a load.
LEMMA UnderwayRequest ==
    ASSUME LoginInv, NEW c \in Chars, HandlePlayerLoginOpcode(c)
    PROVE  LoadingIsUnderway'
<1>1. dbQueue'[c] = Append(dbQueue[c], Load(c))
  BY DEF HandlePlayerLoginOpcode, LoginInv, TypeOK
<1>2. /\ Len(dbQueue'[c]) = Len(dbQueue[c]) + 1 /\ Len(dbQueue[c]) \in Nat
      /\ dbQueue'[c][Len(dbQueue[c]) + 1] = Load(c)
  BY <1>1, QueuedOperations DEF LoginInv
<1>3. Len(dbQueue[c]) + 1 \in 1 .. Len(dbQueue'[c]) /\ ~IsSave(Load(c))
  BY <1>2 DEF IsSave, Load
<1>4. Underway'
  BY <1>2, <1>3 DEF Underway
<1> QED BY <1>4 DEF LoadingIsUnderway, Underway

\* Whatever a callback does, nobody loads when it has run.
LEMMA UnderwayAnswered ==
    ASSUME LoginInv, ResultStep
    PROVE  LoadingIsUnderway'
<1>1. \A s \in Sessions : loading[s] => s = current
  BY DEF LoginInv, PairInv
<1>2. \/ current = NoSession /\ loading' = loading
      \/ loading' = [loading EXCEPT ![current] = FALSE]
  BY DEF ResultStep, DropHolder, TakeOver, RefuseLogin, LoadFromDB
<1>3. \A s \in Sessions : ~loading'[s]
  BY <1>1, <1>2, SessionNumbers DEF LoginInv, TypeOK
<1> QED BY <1>3 DEF LoadingIsUnderway

\* A load that is executed becomes a callback, and the others stay.
LEMMA UnderwayDatabase ==
    ASSUME LoginInv, LoadingIsUnderway, NEW c \in Chars, DatabaseStep(c)
    PROVE  LoadingIsUnderway'
<1> SUFFICES ASSUME Underway PROVE Underway'
  BY DEF LoadingIsUnderway, Underway, DatabaseStep
<1>1. /\ dbQueue' = [dbQueue EXCEPT ![c] = Tail(dbQueue[c])]
      /\ Head(dbQueue[c]) = dbQueue[c][1]
      /\ Len(dbQueue[c]) \in Nat \ {0} /\ Len(Tail(dbQueue[c])) = Len(dbQueue[c]) - 1
      /\ \A k \in 1 .. Len(dbQueue[c]) - 1 : Tail(dbQueue[c])[k] = dbQueue[c][k + 1]
  <2>1. dbQueue' = [dbQueue EXCEPT ![c] = Tail(dbQueue[c])] /\ dbQueue[c] # <<>>
    BY DEF DatabaseStep
  <2> QED BY <2>1, NextOperation DEF LoginInv
<1>2. dbQueue'[c] = Tail(dbQueue[c]) /\ \A d \in Chars \ {c} : dbQueue'[d] = dbQueue[d]
  BY <1>1 DEF LoginInv, TypeOK
<1>3. CASE ~IsSave(Head(dbQueue[c]))
  <2>1. PICK x : callbacks' = Append(callbacks, x)
    BY <1>3 DEF DatabaseStep
  <2>2. callbacks' # <<>>
    BY <2>1 DEF LoginInv, TypeOK
  <2> QED BY <2>2 DEF Underway
<1>4. CASE IsSave(Head(dbQueue[c]))
  <2>1. callbacks' = callbacks
    BY <1>4 DEF DatabaseStep
  <2>2. CASE callbacks # <<>>
    BY <2>1, <2>2 DEF Underway
  <2>3. ASSUME NEW d \in Chars, NEW k \in 1 .. Len(dbQueue[d]), ~IsSave(dbQueue[d][k])
        PROVE  Underway'
    <3>1. CASE d # c
      BY <1>2, <2>3, <3>1 DEF Underway
    <3>2. CASE d = c
      <4>1. k # 1
        BY <1>1, <1>4, <2>3, <3>2
      <4>2. k - 1 \in 1 .. Len(dbQueue[c]) - 1 /\ (k - 1) + 1 = k
        BY <1>1, <3>2, <4>1
      <4>3. k - 1 \in 1 .. Len(dbQueue'[c]) /\ dbQueue'[c][k - 1] = dbQueue[c][k]
        BY <1>1, <1>2, <4>2
      <4> QED BY <2>3, <3>2, <4>3 DEF Underway
    <3> QED BY <3>1, <3>2
  <2> QED BY <2>2, <2>3 DEF Underway
<1> QED BY <1>3, <1>4

\* A log-out appends a save.
LEMMA UnderwayLogout ==
    ASSUME LoginInv, LoadingIsUnderway, NEW S \in SUBSET Sessions, LoggedOut(S),
           callbacks' = callbacks, \A s \in Sessions : loading'[s] => loading[s]
    PROVE  LoadingIsUnderway'
<1>1. \A c \in Chars : dbQueue'[c] = dbQueue[c] \/ dbQueue'[c] = Append(dbQueue[c], Save(version[c]))
  BY DEF LoggedOut
<1> QED BY <1>1, UnderwayStays

\* The other steps of the world thread and the steps of the client.
LEMMA UnderwayOthers ==
    ASSUME LoginInv, LoadingIsUnderway,
           \/ ClientStep \/ StopNow \/ AddSession \/ AllSessionsAdded
           \/ HandleLogoutRequestOpcode
           \/ \E where \in {"world", "far"} : HandleMoveWorldportAckOpcode(where)
           \/ SessionStays \/ SessionLogsOut \/ SessionClosed \/ SessionIdle
           \/ UpdateDisconnected \/ MapStep
    PROVE  LoadingIsUnderway'
<1>1. CASE UNCHANGED <<loading, dbQueue, callbacks>>
  BY <1>1, UnderwayStays
<1>2. CASE \/ ClientStep \/ StopNow \/ AllSessionsAdded \/ SessionStays \/ SessionIdle
           \/ \E c \in Chars : Play(c) \/ TeleportFar(c)
           \/ \E where \in {"world", "far"} : HandleMoveWorldportAckOpcode(where)
           \/ MapsUpdated \/ EndTick
  <2>1. UNCHANGED <<loading, dbQueue, callbacks>>
    BY <1>2 DEF ClientStep, Connect, CloseSocket, StopNow, AllSessionsAdded, SessionStays,
       SessionIdle, Play, TeleportFar, HandleMoveWorldportAckOpcode, MapsUpdated, EndTick, loginVars
  <2> QED BY <1>1, <2>1
<1>3. ASSUME NEW d \in Chars, SavePeriodically(d)
      PROVE  LoadingIsUnderway'
  <2>1. \A c \in Chars :
            dbQueue'[c] = dbQueue[c] \/ dbQueue'[c] = Append(dbQueue[c], Save(version[d]))
    BY <1>3 DEF SavePeriodically, LoginInv, TypeOK
  <2>2. UNCHANGED <<loading, callbacks>>
    BY <1>3 DEF SavePeriodically, loginVars
  <2> QED BY <2>1, <2>2, UnderwayStays
<1>4. CASE HandleLogoutRequestOpcode \/ SessionLogsOut
  <2>1. current \in Sessions /\ LogoutPlayers({current}) /\ UNCHANGED <<loading, callbacks>>
    BY <1>4 DEF HandleLogoutRequestOpcode, SessionLogsOut, CanProcessPackets, LoginInv, TypeOK, loginVars
  <2>2. LoggedOut({current})
    BY <2>1, LogoutEffect DEF LoginInv
  <2> QED BY <2>1, <2>2, UnderwayLogout
<1>5. CASE UpdateDisconnected
  <2> DEFINE over == {s \in disconnected : ~InWorld(s) \/ timer[s] < 1}
  <2>1. over \in SUBSET Sessions
    BY DEF LoginInv, TypeOK
  <2>2. LogoutPlayers(over) /\ UNCHANGED <<loading, callbacks>>
    BY <1>5 DEF UpdateDisconnected, loginVars
  <2> HIDE DEF over
  <2>3. LoggedOut(over)
    BY <2>1, <2>2, LogoutEffect DEF LoginInv
  <2> QED BY <2>1, <2>2, <2>3, UnderwayLogout
<1>6. CASE AddSession \/ SessionClosed
  <2>1. UNCHANGED callbacks
    BY <1>6 DEF AddSession, SessionClosed, loginVars
  <2>2. CASE current # NoSession /\ Retire(current)
    <3>1. current \in Sessions
      BY <2>2 DEF LoginInv, TypeOK
    <3>2. \/ UNCHANGED <<loading, dbQueue>>
          \/ LoggedOut({current}) /\ loading' = [loading EXCEPT ![current] = FALSE]
      BY <2>2, <3>1, RetireEffect DEF LoginInv
    <3>3. CASE UNCHANGED <<loading, dbQueue>>
      BY <1>1, <2>1, <3>3
    <3>4. CASE LoggedOut({current}) /\ loading' = [loading EXCEPT ![current] = FALSE]
      <4>1. \A s \in Sessions : loading'[s] => loading[s]
        BY <3>4, Zenon DEF LoginInv, TypeOK
      <4> QED BY <2>1, <3>1, <3>4, <4>1, UnderwayLogout
    <3> QED BY <3>2, <3>3, <3>4
  <2>3. CASE UNCHANGED <<loading, dbQueue>>
    BY <1>1, <2>1, <2>3
  <2> QED BY <1>6, <2>2, <2>3 DEF AddSession, SessionClosed
<1> QED BY <1>2, <1>3, <1>4, <1>5, <1>6 DEF MapStep

\* No session is left in the state of loading, in which the account's next
\* session is refused: as long as it is in it, a holder is on its way.
THEOREM LoadingAlwaysUnderway == Spec => []LoadingIsUnderway
<1>1. Init => LoadingIsUnderway
  BY DEF Init, LoadingIsUnderway
<1>2. LoginInv /\ LoadingIsUnderway /\ [Next]_vars => LoadingIsUnderway'
  <2> SUFFICES ASSUME LoginInv, LoadingIsUnderway, [Next]_vars PROVE LoadingIsUnderway'
    OBVIOUS
  <2>1. CASE UNCHANGED vars
    BY <2>1 DEF vars, LoadingIsUnderway
  <2>2. CASE Next
    BY <2>2, UnderwayRequest, UnderwayAnswered, UnderwayDatabase, UnderwayOthers
       DEF Next, WorldStep, ResultStep, MapStep
  <2> QED BY <2>1, <2>2
<1> QED BY <1>1, <1>2, LoginInvariant, PTL DEF Spec
-----------------------------------------------------------------------------
(* FarTeleports: why LogoutPlayers may save every character. *)

\* A teleport is never on its way to the map whose id the character has, unless
\* that is a continent, which refuses nobody; and it is scheduled only of who is
\* in a map, which stays the map until the end of the update.
WayInv ==
    /\ status = "out" => currMap = NoMap /\ ~far
    /\ status = "logout" => ~asyncMapUpdating
    /\ currMap # NoMap => mapId = currMap
    /\ far => dest \in Maps /\ (dest \in Continents \/ dest # mapId)
    /\ scheduled # NoMap => /\ asyncMapUpdating /\ status = "world" /\ currMap # NoMap
                            /\ scheduled \in Continents \/ scheduled # mapId

TransferInv == TransferTypeOK /\ NeverLost /\ WayInv

\* Home is a continent, and NoMap no map.
LEMMA MapFacts ==
    /\ Home \in Continents /\ Home \in Maps /\ NoMap \notin Maps
    /\ Continents \subseteq Maps /\ Dungeons \subseteq Maps
BY HomeAssumption, NoMapAssumption DEF Maps

LEMMA InitTransferInv == TransferInit => TransferInv
<1> SUFFICES ASSUME TransferInit PROVE TransferInv
  OBVIOUS
<1>1. TransferTypeOK
  BY MapFacts, Zenon DEF TransferInit, TransferTypeOK
<1>2. NeverLost /\ WayInv
  BY DEF TransferInit, NeverLost, WayInv
<1> QED BY <1>1, <1>2 DEF TransferInv

\* The steps that teleport nobody.
LEMMA QuietTransfer ==
    ASSUME TransferInv,
           \/ BeginMaps
           \/ \E doors, groups \in SUBSET Dungeons : DoorsChange(doors, groups)
           \/ \E valid \in BOOLEAN : InstanceValidity(valid)
           \/ UNCHANGED transferVars
    PROVE  TransferInv'
<1>1. UNCHANGED <<status, scheduled, currMap, mapId, far, dest, savedMap>>
  BY DEF BeginMaps, DoorsChange, InstanceValidity, placeVars, transferVars
<1>2. asyncMapUpdating' = asyncMapUpdating \/ (asyncMapUpdating' /\ status # "logout")
  BY DEF BeginMaps, DoorsChange, InstanceValidity, transferVars
<1>3. asyncMapUpdating' \in BOOLEAN /\ instanceValid' \in BOOLEAN
  BY Zenon DEF TransferInv, TransferTypeOK, BeginMaps, DoorsChange, InstanceValidity,
     transferVars, placeVars
<1>4. permitted' \subseteq Dungeons /\ admitting' \subseteq Dungeons
  BY DEF TransferInv, TransferTypeOK, BeginMaps, DoorsChange, InstanceValidity, transferVars,
     doorVars
<1>5. TransferTypeOK'
  BY <1>1, <1>3, <1>4, Zenon DEF TransferInv, TransferTypeOK
<1>6. NeverLost' /\ WayInv'
  BY <1>1, <1>2 DEF TransferInv, NeverLost, WayInv
<1> QED BY <1>5, <1>6 DEF TransferInv

\* A teleport that is executed, from wherever, to a map that the character
\* does not have the id of.
LEMMA Executed ==
    ASSUME TransferInv, NEW m \in Maps, ExecuteTeleportFar(m), mapId' \in Maps,
           m \in Continents \/ m # mapId', status' # "out", scheduled' = NoMap,
           status' = "logout" => ~asyncMapUpdating'
    PROVE  NeverLost' /\ WayInv' /\ currMap' = NoMap /\ far' = TRUE /\ dest' \in Maps
BY DEF ExecuteTeleportFar, NeverLost, WayInv

\* What TransferTypeOK says, one variable at a time.
LEMMA TransferTypes ==
    TransferTypeOK <=>
        /\ status \in {"out", "world", "logout"}
        /\ asyncMapUpdating \in BOOLEAN /\ far \in BOOLEAN /\ instanceValid \in BOOLEAN
        /\ scheduled \in Maps \union {NoMap} /\ currMap \in Maps \union {NoMap}
        /\ dest \in Maps \union {NoMap}
        /\ mapId \in Maps /\ savedMap \in Maps
        /\ permitted \subseteq Dungeons /\ admitting \subseteq Dungeons
BY Zenon DEF TransferTypeOK

\* The types of what a teleport leaves alone.
LEMMA OtherTypes ==
    ASSUME TransferInv, UNCHANGED <<doorVars, savedMap>>, status' \in {"out", "world", "logout"},
           asyncMapUpdating' \in BOOLEAN, instanceValid' \in BOOLEAN, far' \in BOOLEAN,
           {scheduled', currMap', dest'} \subseteq Maps \union {NoMap}, mapId' \in Maps
    PROVE  TransferTypeOK'
<1>1. permitted' \subseteq Dungeons /\ admitting' \subseteq Dungeons /\ savedMap' \in Maps
  BY TransferTypes DEF TransferInv, doorVars
<1> QED BY <1>1, Zenon DEF TransferTypeOK

\* HandleMoveWorldportAckOpcode ends the way, or the character is on another.
LEMMA Acknowledged ==
    ASSUME TransferInv, MoveWorldportAck, status # "out",
           UNCHANGED <<status, asyncMapUpdating, scheduled, doorVars, savedMap>>,
           ~asyncMapUpdating
    PROVE  TransferInv'
<1>1. TransferTypeOK /\ NeverLost /\ WayInv
  BY DEF TransferInv
<1>2. /\ far /\ dest \in Maps /\ mapId' = dest /\ currMap = NoMap
      /\ dest \in Continents \/ dest # mapId
      /\ scheduled' = NoMap /\ status' # "out" /\ (status' = "logout" => ~asyncMapUpdating')
  BY <1>1 DEF MoveWorldportAck, NeverLost, WayInv
<1>3. instanceValid' \in BOOLEAN
  BY Zenon DEF MoveWorldportAck
<1>4. status' \in {"out", "world", "logout"} /\ asyncMapUpdating' \in BOOLEAN
  BY <1>1, TransferTypes
<1>5. CASE CanEnter(dest)
  <2>1. currMap' = dest /\ far' = FALSE /\ dest' = dest
    BY <1>5 DEF MoveWorldportAck
  <2>2. NeverLost' /\ WayInv'
    BY <1>2, <2>1, MapFacts DEF NeverLost, WayInv
  <2>3. TransferTypeOK'
    BY <1>2, <1>3, <1>4, <2>1, OtherTypes
  <2> QED BY <2>2, <2>3 DEF TransferInv
<1>6. CASE ~CanEnter(dest)
  <2>1. dest # mapId
    BY <1>2, <1>6 DEF CanEnter
  <2>2. PICK m \in {mapId, Home} : ExecuteTeleportFar(m)
    BY <1>6, <2>1 DEF MoveWorldportAck
  <2>3. m \in Maps /\ (m \in Continents \/ m # mapId')
    BY <1>1, <1>2, <2>1, <2>2, MapFacts, TransferTypes
  <2>4. NeverLost' /\ WayInv' /\ currMap' = NoMap /\ far' = TRUE /\ dest' \in Maps
    BY <1>2, <2>2, <2>3, Executed
  <2>5. TransferTypeOK'
    BY <1>2, <1>3, <1>4, <2>4, OtherTypes
  <2> QED BY <2>4, <2>5 DEF TransferInv
<1> QED BY <1>5, <1>6

\* A teleport is checked and executed, or scheduled.
LEMMA Teleported ==
    ASSUME TransferInv, NEW m \in Maps, TeleportTo(m)
    PROVE  TransferInv'
<1>1. TransferTypeOK /\ NeverLost /\ WayInv
  BY DEF TransferInv
<1>2. /\ status = "world" /\ currMap # NoMap /\ mapId = currMap
      /\ m \in Continents \/ m # mapId
      /\ UNCHANGED <<status, asyncMapUpdating, mapId, instanceValid, doorVars, savedMap>>
  BY <1>1, MapFacts DEF TeleportTo, WayInv
<1>3. /\ status' \in {"out", "world", "logout"} /\ asyncMapUpdating' \in BOOLEAN
      /\ instanceValid' \in BOOLEAN /\ mapId' \in Maps
  BY <1>1, <1>2, TransferTypes
<1>4. CASE asyncMapUpdating
  <2>1. scheduled' = m /\ UNCHANGED <<currMap, far, dest>>
    BY <1>4 DEF TeleportTo
  <2>2. NeverLost' /\ WayInv'
    BY <1>1, <1>2, <1>4, <2>1 DEF NeverLost, WayInv
  <2>3. TransferTypeOK'
    BY <1>1, <1>2, <1>3, <2>1, TransferTypes, OtherTypes
  <2> QED BY <2>2, <2>3 DEF TransferInv
<1>5. CASE ~asyncMapUpdating
  <2>1. ExecuteTeleportFar(m) /\ UNCHANGED scheduled
    BY <1>5 DEF TeleportTo
  <2>2. scheduled' = NoMap
    BY <1>1, <1>5, <2>1 DEF WayInv
  <2>3. NeverLost' /\ WayInv' /\ currMap' = NoMap /\ far' = TRUE /\ dest' \in Maps
    BY <1>2, <1>3, <2>1, <2>2, Executed
  <2>4. TransferTypeOK'
    BY <1>2, <1>3, <2>2, <2>3, OtherTypes
  <2> QED BY <2>3, <2>4 DEF TransferInv
<1> QED BY <1>4, <1>5

\* The end of the update: who is scheduled leaves its map, or stays.
LEMMA MapsEnded ==
    ASSUME TransferInv, EndMaps
    PROVE  TransferInv'
<1>1. TransferTypeOK /\ NeverLost /\ WayInv
  BY DEF TransferInv
<1>2. /\ ~asyncMapUpdating' /\ scheduled' = NoMap
      /\ UNCHANGED <<status, mapId, instanceValid, doorVars, savedMap>>
  BY DEF EndMaps
<1>3. /\ status' \in {"out", "world", "logout"} /\ instanceValid' \in BOOLEAN /\ mapId' \in Maps
  BY <1>1, <1>2, TransferTypes
<1>4. asyncMapUpdating' \in BOOLEAN
  BY Zenon DEF EndMaps
<1>5. CASE scheduled # NoMap /\ MayTeleportTo(scheduled)
  <2>1. /\ ExecuteTeleportFar(scheduled) /\ scheduled \in Maps /\ status = "world"
        /\ scheduled \in Continents \/ scheduled # mapId
    BY <1>1, <1>5, TransferTypes DEF EndMaps, WayInv
  <2>2. NeverLost' /\ WayInv' /\ currMap' = NoMap /\ far' = TRUE /\ dest' \in Maps
    BY <1>2, <1>3, <2>1, Executed
  <2>3. TransferTypeOK'
    BY <1>2, <1>3, <1>4, <2>2, OtherTypes
  <2> QED BY <2>2, <2>3 DEF TransferInv
<1>6. CASE ~(scheduled # NoMap /\ MayTeleportTo(scheduled))
  <2>1. UNCHANGED <<currMap, dest>> /\ far' = (far /\ scheduled = NoMap)
    BY <1>6 DEF EndMaps
  <2>2. far' <=> far
    BY <1>1, <2>1 DEF NeverLost, WayInv
  <2>3. far' \in BOOLEAN
    BY <2>1, Zenon
  <2>4. NeverLost' /\ WayInv'
    BY <1>1, <1>2, <2>1, <2>2 DEF NeverLost, WayInv
  <2>5. TransferTypeOK'
    BY <1>1, <1>2, <1>3, <1>4, <2>1, <2>3, TransferTypes, OtherTypes
  <2> QED BY <2>4, <2>5 DEF TransferInv
<1> QED BY <1>5, <1>6

\* A log-in: into the map, or on the way to the exit.
LEMMA LoggedIn ==
    ASSUME TransferInv, NEW exit \in Continents, Login(exit)
    PROVE  TransferInv'
<1>1. TransferTypeOK /\ NeverLost /\ WayInv
  BY DEF TransferInv
<1>2. /\ status' = "world" /\ mapId' = savedMap /\ instanceValid' = TRUE
      /\ UNCHANGED <<asyncMapUpdating, scheduled, doorVars, savedMap>>
      /\ scheduled' = NoMap
  BY <1>1 DEF Login, WayInv
<1>3. mapId' \in Maps /\ asyncMapUpdating' \in BOOLEAN
  BY <1>1, <1>2, TransferTypes
<1>4. CASE CanEnter(savedMap)
  <2>1. currMap' = savedMap /\ far' = FALSE /\ dest' = NoMap
    BY <1>4 DEF Login
  <2>2. NeverLost' /\ WayInv'
    BY <1>2, <1>3, <2>1, MapFacts DEF NeverLost, WayInv
  <2>3. TransferTypeOK'
    BY <1>2, <1>3, <2>1, OtherTypes
  <2> QED BY <2>2, <2>3 DEF TransferInv
<1>5. CASE ~CanEnter(savedMap)
  <2>1. ExecuteTeleportFar(exit) /\ exit \in Maps
    BY <1>5, MapFacts DEF Login
  <2>2. NeverLost' /\ WayInv' /\ currMap' = NoMap /\ far' = TRUE /\ dest' \in Maps
    BY <1>2, <1>3, <2>1, Executed
  <2>3. TransferTypeOK'
    BY <1>2, <1>3, <2>2, OtherTypes
  <2> QED BY <2>2, <2>3 DEF TransferInv
<1> QED BY <1>4, <1>5

\* A log-out begins, and ends.
LEMMA LogoutBegun ==
    ASSUME TransferInv, BeginLogout
    PROVE  TransferInv'
<1>1. TransferTypeOK /\ NeverLost /\ WayInv
  BY DEF TransferInv
<1>2. /\ status = "world" /\ status' = "logout" /\ ~asyncMapUpdating
      /\ UNCHANGED <<asyncMapUpdating, scheduled, mapId, instanceValid, doorVars, savedMap>>
      /\ scheduled' = NoMap
  BY <1>1 DEF BeginLogout, WayInv
<1>3. mapId' \in Maps /\ asyncMapUpdating' \in BOOLEAN /\ instanceValid' \in BOOLEAN
  BY <1>1, <1>2, TransferTypes
<1>4. CASE instanceValid
  <2>1. UNCHANGED <<currMap, far, dest>>
    BY <1>4 DEF BeginLogout
  <2>2. NeverLost' /\ WayInv'
    BY <1>1, <1>2, <2>1 DEF NeverLost, WayInv
  <2>3. TransferTypeOK'
    BY <1>1, <1>2, <1>3, <2>1, TransferTypes, OtherTypes
  <2> QED BY <2>2, <2>3 DEF TransferInv
<1>5. CASE ~instanceValid
  <2>1. ExecuteTeleportFar(Home)
    BY <1>5 DEF BeginLogout
  <2>2. NeverLost' /\ WayInv' /\ currMap' = NoMap /\ far' = TRUE /\ dest' \in Maps
    BY <1>2, <1>3, <2>1, MapFacts, Executed
  <2>3. TransferTypeOK'
    BY <1>2, <1>3, <2>2, OtherTypes
  <2> QED BY <2>2, <2>3 DEF TransferInv
<1> QED BY <1>4, <1>5

LEMMA LogoutEnded ==
    ASSUME TransferInv, NEW where \in Maps, EndLogout(where)
    PROVE  TransferInv'
<1>1. TransferTypeOK /\ NeverLost /\ WayInv
  BY DEF TransferInv
<1>2. /\ status = "logout" /\ status' = "out" /\ currMap' = NoMap /\ ~far
      /\ UNCHANGED <<asyncMapUpdating, scheduled, mapId, far, dest, instanceValid, doorVars>>
      /\ scheduled' = NoMap
  BY <1>1 DEF EndLogout, WayInv
<1>3. savedMap' \in Maps
  BY <1>1, TransferTypes DEF EndLogout
<1>4. NeverLost' /\ WayInv'
  BY <1>1, <1>2 DEF NeverLost, WayInv
<1>5. TransferTypeOK'
  BY <1>1, <1>2, <1>3, TransferTypes, Zenon DEF TransferTypeOK, doorVars
<1> QED BY <1>4, <1>5 DEF TransferInv

LEMMA NextTransferInv ==
    ASSUME TransferInv, [TransferNext]_transferVars
    PROVE  TransferInv'
<1>1. CASE WorldportAck \/ FinishTransfer
  BY <1>1, Acknowledged DEF WorldportAck, FinishTransfer, TransferInv, WayInv
<1> QED BY <1>1, QuietTransfer, Teleported, MapsEnded, LoggedIn, LogoutBegun, LogoutEnded
        DEF TransferNext, LogoutStep

LEMMA TransferInvariant == TransferSpec => []TransferInv
BY InitTransferInv, NextTransferInv, PTL DEF TransferSpec

\* Every state of the teleports has the types the code declares.
THEOREM TransferTypeCorrect == TransferSpec => []TransferTypeOK
<1>1. TransferInv => TransferTypeOK
  BY DEF TransferInv
<1> QED BY <1>1, TransferInvariant, PTL

\* A character in memory is in a map or on the way to one, whichever maps
\* refuse it: so LogoutPlayer, whose loop ends with nobody on the way, saves it.
THEOREM NobodyIsLost == TransferSpec => []NeverLost
<1>1. TransferInv => NeverLost
  BY DEF TransferInv
<1> QED BY <1>1, TransferInvariant, PTL
=============================================================================
