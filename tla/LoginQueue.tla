----------------------------- MODULE LoginQueue -----------------------------
(***************************************************************************)
(* The login queue of World: a session that authenticates while the realm  *)
(* is full is kept in m_sessions like any other, and in m_QueuedSessions,  *)
(* which holds plain pointers, until a place is free.  Places are given by *)
(* RemoveQueuedSession, when a session leaves, and at the start of         *)
(* UpdateSessions, LoginPerTick of them in a tick.                         *)
(*                                                                         *)
(* Sessions are numbered in the order in which they come to addSessQueue.  *)
(* A session that loses its socket with its character in the world leaves  *)
(* m_sessions and is not followed further: CharacterLogin does that.  Bots *)
(* and the shutdown of the world are left out.                             *)
(***************************************************************************)
EXTENDS Integers, Sequences, FiniteSets

CONSTANTS
    Accounts,
    Privileged,    \* the accounts above SEC_PLAYER, which skip the queue
    PlayerLimit,   \* PlayerLimit of the configuration
    HardLimit,     \* PlayerHardLimit
    LoginPerTick,  \* LoginPerTick
    GracePeriod,   \* LoginQueue.GracePeriodSecs is not 0
    Limits,        \* what the command "server plimit" is given
    MaxSessions    \* bound: sessions opened

ASSUME AccountsAssumption == IsFiniteSet(Accounts) /\ Privileged \subseteq Accounts
ASSUME LimitsAssumption ==
    /\ {HardLimit, LoginPerTick, MaxSessions} \subseteq Nat
    /\ PlayerLimit \in Int
    /\ Limits \subseteq Int
    /\ GracePeriod \in BOOLEAN

VARIABLES
    phase,             \* where the world thread is in World::Update
    todo,              \* accounts whose session UpdateSessions has not updated
    owner,             \* the account of each session opened so far
    addSessQueue,
    m_sessions,
    m_QueuedSessions,
    inQueue,           \* sessions with m_inQueue
    m_playerLimit,
    open,              \* sessions whose socket is not closed
    character,         \* what each session has: no character, one to come, or one
    recent,            \* accounts in m_accountsLastLogout within the grace period
    skipped            \* history: sessions that CanSkipQueue let in

vars == <<phase, todo, owner, addSessQueue, m_sessions, m_QueuedSessions, inQueue,
          m_playerLimit, open, character, recent, skipped>>

queueVars == <<m_QueuedSessions, inQueue>>

Sessions == 1 .. MaxSessions
NoSession == 0

Least(i, j) == IF i < j THEN i ELSE j

Elements(q) == {q[k] : k \in 1 .. Len(q)}

Distinct(q) == \A k, l \in 1 .. Len(q) : q[k] = q[l] => k = l

Opened == 1 .. Len(owner)

\* The accounts that have an entry in m_sessions.
Mapped == {a \in Accounts : m_sessions[a] # NoSession}

\* GetActiveSessionCount: a difference of two sizes.
ActiveSessionCount == Cardinality(Mapped) - Len(m_QueuedSessions)

\* The queue q without its element s.
Without(q, s) ==
    LET p == CHOOSE k \in 1 .. Len(q) : q[k] = s
    IN  [k \in 1 .. Len(q) - 1 |-> IF k < p THEN q[k] ELSE q[k + 1]]

-----------------------------------------------------------------------------
\* A plausible slip: a session that is deleted is not looked for in the queue.
RemoveQueuedSession_not_found(s) ==
    LET accept == /\ ActiveSessionCount < HardLimit
                  /\ m_playerLimit = 0 \/ ActiveSessionCount - 1 < m_playerLimit
                  /\ m_QueuedSessions # <<>>
    IN  [found |-> FALSE,
         queue |-> IF accept THEN Tail(m_QueuedSessions) ELSE m_QueuedSessions,
         out   |-> IF accept THEN {Head(m_QueuedSessions)} ELSE {}]

\* RemoveQueuedSession(s), for an s that is in m_sessions still: whether it
\* was queued, what is the queue then, and which sessions left it.  The count
\* that is compared with the hard limit has s in it; if there is none, the
\* limit is 0.
RemoveQueuedSession(s) ==
    LET found    == s \in Elements(m_QueuedSessions)
        rest     == IF found THEN Without(m_QueuedSessions, s) ELSE m_QueuedSessions
        sessions == IF found \/ ActiveSessionCount = 0 THEN ActiveSessionCount
                    ELSE ActiveSessionCount - 1
        accept   == /\ Cardinality(Mapped) - Len(rest) < HardLimit
                    /\ m_playerLimit = 0 \/ sessions < m_playerLimit
                    /\ rest # <<>>
    IN  [found |-> found,
         queue |-> IF accept THEN Tail(rest) ELSE rest,
         out   |-> (IF found THEN {s} ELSE {}) \union (IF accept THEN {Head(rest)} ELSE {})]

CanSkipQueue(a, logouts) == a \in Privileged \union logouts

\* m_accountsLastLogout[a] = now.
LogoutNoted(a) == IF GracePeriod THEN recent \union {a} ELSE recent

-----------------------------------------------------------------------------
\* A socket authenticates: World::AddSession.
Connect(a) ==
    /\ Len(owner) < MaxSessions
    /\ owner' = Append(owner, a)
    /\ addSessQueue' = Append(addSessQueue, Len(owner'))
    /\ open' = open \union {Len(owner')}
    /\ UNCHANGED <<phase, todo, m_sessions, queueVars, m_playerLimit, character, recent, skipped>>

\* The connection ends, from either side, at any time.
CloseSocket(s) ==
    /\ s \in open
    /\ open' = open \ {s}
    /\ UNCHANGED <<phase, todo, owner, addSessQueue, m_sessions, queueVars, m_playerLimit,
                   character, recent, skipped>>

\* The grace period of an account is over.
GraceEnds(a) ==
    /\ a \in recent
    /\ recent' = recent \ {a}
    /\ UNCHANGED <<phase, todo, owner, addSessQueue, m_sessions, queueVars, m_playerLimit,
                   open, character, skipped>>

-----------------------------------------------------------------------------
\* A plausible slip: as many are accepted as may log in, not as there is room.
UpdatePlayerLimit_past_hard ==
    /\ phase = "limit"
    /\ LET limit  == IF HardLimit # 0 THEN Least(HardLimit, m_playerLimit) ELSE m_playerLimit
           accept == Least(LoginPerTick + 1, Len(m_QueuedSessions)) IN
       IF limit >= 0 /\ ActiveSessionCount < HardLimit
       THEN /\ m_playerLimit' = Least(HardLimit, Least(limit, ActiveSessionCount) + LoginPerTick)
            /\ m_QueuedSessions' = SubSeq(m_QueuedSessions, accept + 1, Len(m_QueuedSessions))
            /\ inQueue' = inQueue \ {m_QueuedSessions[k] : k \in 1 .. accept}
       ELSE m_playerLimit' = limit /\ UNCHANGED queueVars
    /\ phase' = "add"
    /\ UNCHANGED <<todo, owner, addSessQueue, m_sessions, open, character, recent, skipped>>

\* A plausible slip: a raise that only reaches the hard limit accepts nobody.
UpdatePlayerLimit_not_last ==
    /\ phase = "limit"
    /\ LET limit  == IF HardLimit # 0 THEN Least(HardLimit, m_playerLimit) ELSE m_playerLimit
           raised == Least(limit, ActiveSessionCount) + LoginPerTick
           accept == IF raised >= HardLimit THEN 0 ELSE Least(LoginPerTick, Len(m_QueuedSessions)) IN
       IF limit >= 0 /\ ActiveSessionCount < HardLimit /\ LoginPerTick # 0
       THEN /\ m_playerLimit' = Least(HardLimit, raised)
            /\ m_QueuedSessions' = SubSeq(m_QueuedSessions, accept + 1, Len(m_QueuedSessions))
            /\ inQueue' = inQueue \ {m_QueuedSessions[k] : k \in 1 .. accept}
       ELSE m_playerLimit' = limit /\ UNCHANGED queueVars
    /\ phase' = "add"
    /\ UNCHANGED <<todo, owner, addSessQueue, m_sessions, open, character, recent, skipped>>

\* A plausible slip: the last of the queue are accepted.
UpdatePlayerLimit_last_in ==
    /\ phase = "limit"
    /\ LET limit  == IF HardLimit # 0 THEN Least(HardLimit, m_playerLimit) ELSE m_playerLimit
           raised == Least(limit, ActiveSessionCount) + LoginPerTick
           accept == IF raised > HardLimit THEN 0 ELSE Least(LoginPerTick, Len(m_QueuedSessions))
           stay   == Len(m_QueuedSessions) - accept IN
       IF limit >= 0 /\ ActiveSessionCount < HardLimit /\ LoginPerTick # 0
       THEN /\ m_playerLimit' = Least(HardLimit, raised)
            /\ m_QueuedSessions' = SubSeq(m_QueuedSessions, 1, stay)
            /\ inQueue' = inQueue \ {m_QueuedSessions[stay + k] : k \in 1 .. accept}
       ELSE m_playerLimit' = limit /\ UNCHANGED queueVars
    /\ phase' = "add"
    /\ UNCHANGED <<todo, owner, addSessQueue, m_sessions, open, character, recent, skipped>>

\* UpdateSessions begins: the hard limit bounds the limit; while there is
\* room below it the limit is set anew and the first LoginPerTick of the
\* queue are accepted, or none if the new limit would pass the hard one.
UpdatePlayerLimit ==
    /\ phase = "limit"
    /\ LET limit  == IF HardLimit # 0 THEN Least(HardLimit, m_playerLimit) ELSE m_playerLimit
           raised == Least(limit, ActiveSessionCount) + LoginPerTick
           accept == IF raised > HardLimit THEN 0 ELSE Least(LoginPerTick, Len(m_QueuedSessions)) IN
       IF limit >= 0 /\ ActiveSessionCount < HardLimit /\ LoginPerTick # 0
       THEN /\ m_playerLimit' = Least(HardLimit, raised)
            /\ m_QueuedSessions' = SubSeq(m_QueuedSessions, accept + 1, Len(m_QueuedSessions))
            /\ inQueue' = inQueue \ {m_QueuedSessions[k] : k \in 1 .. accept}
       ELSE m_playerLimit' = limit /\ UNCHANGED queueVars
    /\ phase' = "add"
    /\ UNCHANGED <<todo, owner, addSessQueue, m_sessions, open, character, recent, skipped>>

\* AddSession_ while the account's session loads a character: the new one is
\* kicked and deleted.
RefuseSession ==
    /\ phase = "add"
    /\ addSessQueue # <<>>
    /\ LET s == Head(addSessQueue)
           old == m_sessions[owner[s]] IN
       /\ old # NoSession
       /\ character[old] = "loading"
       /\ open' = open \ {s}
    /\ addSessQueue' = Tail(addSessQueue)
    /\ UNCHANGED <<phase, todo, owner, m_sessions, queueVars, m_playerLimit, character, recent,
                   skipped>>

\* AddSession_(s): the account's old session is kicked and leaves the queue,
\* which may give its place away; it is deleted, or goes to the disconnected
\* ones if its character is in the world.  All sessions but the new one count,
\* also those in the queue; one that takes the place of a queued one counts
\* itself.
AddSession ==
    /\ phase = "add"
    /\ addSessQueue # <<>>
    /\ LET s        == Head(addSessQueue)
           a        == owner[s]
           old      == m_sessions[a]
           logouts  == IF old # NoSession /\ character[old] = "world" THEN LogoutNoted(a) ELSE recent
           removed  == IF old # NoSession THEN RemoveQueuedSession(old)
                       ELSE [found |-> FALSE, queue |-> m_QueuedSessions, out |-> {}]
           count    == Cardinality(Mapped \union {a}) - (IF removed.found THEN 0 ELSE 1)
           limit    == IF m_playerLimit >= 0 THEN m_playerLimit ELSE 0
           waits    == limit > 0 /\ count >= limit /\ ~CanSkipQueue(a, logouts) IN
       /\ old # NoSession => character[old] # "loading"
       /\ open' = open \ {old}
       /\ character' = IF old # NoSession THEN [character EXCEPT ![old] = "none"] ELSE character
       /\ recent' = logouts
       /\ m_sessions' = [m_sessions EXCEPT ![a] = s]
       /\ m_QueuedSessions' = IF waits THEN Append(removed.queue, s) ELSE removed.queue
       /\ inQueue' = (inQueue \ removed.out) \union (IF waits THEN {s} ELSE {})
       /\ skipped' = IF ~waits /\ CanSkipQueue(a, logouts) THEN skipped \union {s} ELSE skipped
    /\ addSessQueue' = Tail(addSessQueue)
    /\ UNCHANGED <<phase, todo, owner, m_playerLimit>>

AllSessionsAdded ==
    /\ phase = "add"
    /\ addSessQueue = <<>>
    /\ phase' = "sessions"
    /\ todo' = Mapped
    /\ UNCHANGED <<owner, addSessQueue, m_sessions, queueVars, m_playerLimit, open, character,
                   recent, skipped>>

-----------------------------------------------------------------------------
\* HandlePlayerLoginOpcode; "prevent cheating with skip queue wait".
HandlePlayerLoginOpcode(a) ==
    /\ phase = "sessions"
    /\ a \in todo
    /\ m_sessions[a] \in open \ inQueue
    /\ character[m_sessions[a]] = "none"
    /\ character' = [character EXCEPT ![m_sessions[a]] = "loading"]
    /\ UNCHANGED <<phase, todo, owner, addSessQueue, m_sessions, queueVars, m_playerLimit, open,
                   recent, skipped>>

\* HandlePlayerLogin, after the sessions: the character is there, or not.
LoadingEnds(s, outcome) ==
    /\ phase = "cli"
    /\ character[s] = "loading"
    /\ character' = [character EXCEPT ![s] = outcome]
    /\ UNCHANGED <<phase, todo, owner, addSessQueue, m_sessions, queueVars, m_playerLimit, open,
                   recent, skipped>>

\* WorldSession::Update, nothing to be done.
SessionStays(a) ==
    /\ phase = "sessions"
    /\ a \in todo
    /\ m_sessions[a] \in open
    /\ todo' = todo \ {a}
    /\ UNCHANGED <<phase, owner, addSessQueue, m_sessions, queueVars, m_playerLimit, open,
                   character, recent, skipped>>

\* ShouldLogOut: the session is at the character screen again.
SessionLogsOut(a) ==
    /\ phase = "sessions"
    /\ a \in todo
    /\ m_sessions[a] \in open
    /\ character[m_sessions[a]] = "world"
    /\ character' = [character EXCEPT ![m_sessions[a]] = "none"]
    /\ todo' = todo \ {a}
    /\ UNCHANGED <<phase, owner, addSessQueue, m_sessions, queueVars, m_playerLimit, open,
                   recent, skipped>>

\* The socket is closed and the character in the world: SetSessionDisconnected.
\* The queue does not learn that a place is free.
SessionDisconnected(a) ==
    /\ phase = "sessions"
    /\ a \in todo
    /\ m_sessions[a] \notin open
    /\ character[m_sessions[a]] = "world"
    /\ m_sessions' = [m_sessions EXCEPT ![a] = NoSession]
    /\ character' = [character EXCEPT ![m_sessions[a]] = "none"]
    /\ recent' = LogoutNoted(a)
    /\ todo' = todo \ {a}
    /\ UNCHANGED <<phase, owner, addSessQueue, queueVars, m_playerLimit, open, skipped>>

\* Any other closed socket, also of a session that loads a character, and
\* CharacterScreenIdleKick: the session leaves the queue, or frees its place,
\* and is deleted.
SessionRemoved(a) ==
    /\ phase = "sessions"
    /\ a \in todo
    /\ LET s == m_sessions[a]
           removed == RemoveQueuedSession(s) IN
       /\ \/ s \notin open /\ character[s] # "world"
          \/ s \in open \ inQueue /\ character[s] = "none"
       /\ m_sessions' = [m_sessions EXCEPT ![a] = NoSession]
       /\ m_QueuedSessions' = removed.queue
       /\ inQueue' = inQueue \ removed.out
       /\ open' = open \ {s}
       /\ character' = [character EXCEPT ![s] = "none"]
       /\ recent' = IF removed.found THEN recent ELSE LogoutNoted(a)
    /\ todo' = todo \ {a}
    /\ UNCHANGED <<phase, owner, addSessQueue, m_playerLimit, skipped>>

AllSessionsUpdated ==
    /\ phase = "sessions"
    /\ todo = {}
    /\ phase' = "cli"
    /\ UNCHANGED <<todo, owner, addSessQueue, m_sessions, queueVars, m_playerLimit, open,
                   character, recent, skipped>>

\* The command "server plimit", or a reload of the configuration.
SetPlayerLimit(limit) ==
    /\ phase = "cli"
    /\ m_playerLimit # limit
    /\ m_playerLimit' = limit
    /\ UNCHANGED <<phase, todo, owner, addSessQueue, m_sessions, queueVars, open, character,
                   recent, skipped>>

EndTick ==
    /\ phase = "cli"
    /\ phase' = "limit"
    /\ UNCHANGED <<todo, owner, addSessQueue, m_sessions, queueVars, m_playerLimit, open,
                   character, recent, skipped>>

-----------------------------------------------------------------------------
Init ==
    /\ phase = "limit"
    /\ todo = {}
    /\ owner = <<>>
    /\ addSessQueue = <<>>
    /\ m_sessions = [a \in Accounts |-> NoSession]
    /\ m_QueuedSessions = <<>>
    /\ inQueue = {}
    /\ m_playerLimit = PlayerLimit
    /\ open = {}
    /\ character = [s \in Sessions |-> "none"]
    /\ recent = {}
    /\ skipped = {}

UpdateSessions ==
    \/ UpdatePlayerLimit
    \/ RefuseSession \/ AddSession \/ AllSessionsAdded
    \/ \E a \in Accounts : \/ SessionStays(a) \/ SessionLogsOut(a)
                           \/ SessionDisconnected(a) \/ SessionRemoved(a)
    \/ AllSessionsUpdated

Next ==
    \/ UpdateSessions
    \/ \E a \in Accounts : Connect(a) \/ HandlePlayerLoginOpcode(a) \/ GraceEnds(a)
    \/ \E s \in Sessions : CloseSocket(s) \/ \E x \in {"none", "world"} : LoadingEnds(s, x)
    \/ \E limit \in Limits : SetPlayerLimit(limit)
    \/ EndTick

Spec == Init /\ [][Next]_vars

\* The world thread goes on; clients and the console need not do anything.
FairSpec == Spec /\ WF_vars(UpdateSessions) /\ WF_vars(EndTick)

-----------------------------------------------------------------------------
\* The state has the types the code declares.
TypeOK ==
    /\ phase \in {"limit", "add", "sessions", "cli"}
    /\ todo \subseteq Mapped
    /\ owner \in Seq(Accounts) /\ Len(owner) <= MaxSessions
    /\ addSessQueue \in Seq(Opened)
    /\ m_sessions \in [Accounts -> Opened \union {NoSession}]
    /\ m_QueuedSessions \in Seq(Opened)
    /\ inQueue \subseteq Opened
    /\ m_playerLimit \in Int
    /\ open \subseteq Opened
    /\ character \in [Sessions -> {"none", "loading", "world"}]
    /\ recent \subseteq Accounts
    /\ skipped \subseteq Opened

\* m_sessions maps an account to a session of its own.
SessionsOwned == \A a \in Mapped : owner[m_sessions[a]] = a

\* What m_QueuedSessions points to: s is the session of its account, and
\* without a character, so that SetSessionDisconnected, which does not look at
\* the queue, does not meet it.
Waiting(s) == m_sessions[owner[s]] = s /\ character[s] = "none"

\* No pointer in m_QueuedSessions is to a session that has been deleted, and
\* none is there twice: the count of the active sessions, which is unsigned,
\* does not wrap.  m_inQueue is set for these sessions and for no other: a
\* session that has left the queue is not kept from logging a character in.
QueueConsistent ==
    /\ \A s \in Elements(m_QueuedSessions) : Waiting(s)
    /\ Distinct(m_QueuedSessions)
    /\ inQueue = Elements(m_QueuedSessions)

\* Every limit that is configured or set is a number of players: 0 is for any
\* number, and a negative one lets in nobody but staff.
LimitsPositive == HardLimit >= 1 /\ PlayerLimit >= 1 /\ \A limit \in Limits : limit >= 1

\* The raise of a tick is measured from the lower of the limit and the sessions
\* that are in, so it may let in more than one only if the console does not
\* put the limit below them.
RaisesFit == LoginPerTick <= 1 \/ \A limit \in Limits : limit >= HardLimit

\* "Maximum number of players in the world" (PlayerHardLimit): while every
\* limit is positive, and with RaisesFit, the sessions that are not queued are
\* at most as many, those aside that may skip the queue.
HardLimitKept ==
    Cardinality({a \in Mapped : m_sessions[a] \notin inQueue \union skipped}) <= HardLimit

\* Who waits is let in before whoever came later and may not skip the queue:
\* neither a second in the queue, nor a newcomer, nor one that takes the
\* place of the account's old session goes past.  So it is while every limit
\* is positive and one session logs in per tick: with none, nobody is let in
\* when two have left in a tick, and with more, a raise past the hard limit
\* lets nobody in, and in both cases a newcomer finds the place.
NobodyOvertakes ==
    [][\A a \in Accounts :
          LET s == m_sessions'[a]
              letIn == /\ s \notin inQueue' \union skipped' \union {NoSession}
                       /\ m_sessions[a] # s \/ s \in inQueue
          IN  letIn => \A t \in Elements(m_QueuedSessions') : s < t]_vars

\* While there is room below the hard limit again and again, who waits is let
\* in, or leaves: so it is if one session logs in per tick and every limit is
\* positive.  With LoginPerTick = 0, as it is shipped, UpdateSessions lets nobody
\* in, and a session that leaves a full realm does not either, because it is still
\* counted; with 2 and more, a raise past the hard limit lets nobody in.
RoomAdmits ==
    LoginPerTick = 1 /\ LimitsPositive =>
        \A s \in Sessions :
            []<>(phase = "limit" /\ ActiveSessionCount < HardLimit)
                => (s \in inQueue ~> s \notin inQueue)
=============================================================================
