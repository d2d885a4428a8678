------------------------- MODULE LoginQueue_proofs -------------------------
(***************************************************************************)
(* Proofs about LoginQueue, for any accounts, limits and number of         *)
(* sessions: m_QueuedSessions has no pointer to a deleted session and none *)
(* twice; and, for the configurations that LoginQueue names, the hard      *)
(* limit is kept and nobody overtakes.                                     *)
(*                                                                         *)
(* For the induction it must be known besides that a session has one entry *)
(* in m_sessions and that a session with a character has an entry: so that *)
(* a session that is not in the map any more has nothing that could be     *)
(* queued, and one that is replaced is the one that leaves the queue.      *)
(***************************************************************************)
EXTENDS LoginQueue, SequenceTheorems, FunctionTheorems, FiniteSetTheorems, TLAPS

\* A session that has a character, or loads one, is the one of its account.
CharacterOwned ==
    \A s \in Sessions : character[s] # "none" => s \in Opened /\ m_sessions[owner[s]] = s

QueueInv == TypeOK /\ SessionsOwned /\ CharacterOwned /\ QueueConsistent

-----------------------------------------------------------------------------
\* A queue without its head has the other elements.
LEMMA TailOfDistinct ==
    ASSUME NEW S, NEW q \in Seq(S), Distinct(q), q # <<>>
    PROVE  /\ Tail(q) \in Seq(S) /\ Distinct(Tail(q))
           /\ Head(q) \in Elements(q)
           /\ Elements(Tail(q)) = Elements(q) \ {Head(q)}
<1>1. /\ Len(q) \in Nat \ {0} /\ Tail(q) \in Seq(S) /\ Len(Tail(q)) = Len(q) - 1
      /\ Head(q) = q[1]
      /\ \A k \in 1 .. Len(Tail(q)) : Tail(q)[k] = q[k + 1]
  BY HeadTailProperties, EmptySeq, LenProperties
<1>2. \A k \in 1 .. Len(Tail(q)) : k + 1 \in 1 .. Len(q) /\ k + 1 # 1
  BY <1>1
<1>3. Distinct(Tail(q))
  <2> SUFFICES ASSUME NEW k \in 1 .. Len(Tail(q)), NEW l \in 1 .. Len(Tail(q)),
                      Tail(q)[k] = Tail(q)[l]
               PROVE  k = l
    BY DEF Distinct
  <2>1. q[k + 1] = q[l + 1] /\ k + 1 \in 1 .. Len(q) /\ l + 1 \in 1 .. Len(q)
    BY <1>1, <1>2
  <2>2. k + 1 = l + 1
    BY <2>1 DEF Distinct
  <2> QED BY <2>2
<1>4. Head(q) \in Elements(q)
  BY <1>1 DEF Elements
<1>5. ASSUME NEW x \in Elements(Tail(q)) PROVE x \in Elements(q) \ {Head(q)}
  <2>1. PICK k \in 1 .. Len(Tail(q)) : x = Tail(q)[k]
    BY DEF Elements
  <2>2. x = q[k + 1] /\ k + 1 \in 1 .. Len(q) /\ k + 1 # 1 /\ 1 \in 1 .. Len(q)
    BY <2>1, <1>1, <1>2
  <2>3. x # q[1]
    BY <2>2 DEF Distinct
  <2> QED BY <2>2, <2>3, <1>1 DEF Elements
<1>6. ASSUME NEW x \in Elements(q), x # Head(q) PROVE x \in Elements(Tail(q))
  <2>1. PICK k \in 1 .. Len(q) : x = q[k]
    BY DEF Elements
  <2>2. k - 1 \in 1 .. Len(Tail(q)) /\ Tail(q)[k - 1] = q[k - 1 + 1] /\ k - 1 + 1 = k
    BY <2>1, <1>6, <1>1
  <2> QED BY <2>1, <2>2 DEF Elements
<1> QED BY <1>1, <1>3, <1>4, <1>5, <1>6

\* The first n leave a queue.
LEMMA SuffixOfDistinct ==
    ASSUME NEW S, NEW q \in Seq(S), Distinct(q), NEW n \in 0 .. Len(q)
    PROVE  /\ SubSeq(q, n + 1, Len(q)) \in Seq(S)
           /\ Distinct(SubSeq(q, n + 1, Len(q)))
           /\ Elements(SubSeq(q, n + 1, Len(q))) = Elements(q) \ {q[k] : k \in 1 .. n}
<1> DEFINE r == SubSeq(q, n + 1, Len(q))
<1>1. /\ Len(q) \in Nat /\ r \in Seq(S) /\ Len(r) = Len(q) - n
      /\ \A k \in 1 .. Len(r) : r[k] = q[n + k]
  <2>1. Len(q) \in Nat /\ n \in Nat /\ \A k \in n + 1 .. Len(q) : q[k] \in S
    BY LenProperties, ElementOfSeq
  <2>2. /\ r \in Seq(S)
        /\ Len(r) = IF n + 1 <= Len(q) THEN Len(q) - (n + 1) + 1 ELSE 0
        /\ \A k \in 1 .. Len(q) - (n + 1) + 1 : r[k] = q[n + 1 + k - 1]
    BY <2>1, SubSeqProperties
  <2>3. Len(r) = Len(q) - n /\ Len(q) - (n + 1) + 1 = Len(q) - n
    BY <2>1, <2>2
  <2> HIDE DEF r
  <2>4. ASSUME NEW k \in 1 .. Len(r) PROVE r[k] = q[n + k]
    <3>1. k \in 1 .. Len(q) - (n + 1) + 1 /\ n + 1 + k - 1 = n + k
      BY <2>1, <2>3
    <3> QED BY <3>1, <2>2
  <2> QED BY <2>1, <2>2, <2>3, <2>4
<1> HIDE DEF r
<1>2. \A k \in 1 .. Len(r) : n + k \in 1 .. Len(q) /\ n + k \notin 1 .. n
  BY <1>1
<1>3. Distinct(r)
  <2> SUFFICES ASSUME NEW k \in 1 .. Len(r), NEW l \in 1 .. Len(r), r[k] = r[l]
               PROVE  k = l
    BY DEF Distinct
  <2>1. n + k = n + l
    BY <1>1, <1>2 DEF Distinct
  <2> QED BY <2>1
<1>4. ASSUME NEW x \in Elements(r) PROVE x \in Elements(q) \ {q[k] : k \in 1 .. n}
  <2>1. PICK k \in 1 .. Len(r) : x = r[k]
    BY DEF Elements
  <2>2. x = q[n + k] /\ n + k \in 1 .. Len(q) /\ n + k \notin 1 .. n
    BY <2>1, <1>1, <1>2
  <2>3. \A l \in 1 .. n : l \in 1 .. Len(q)
    BY <1>1
  <2>4. x \notin {q[l] : l \in 1 .. n}
    BY <2>2, <2>3 DEF Distinct
  <2> QED BY <2>2, <2>4 DEF Elements
<1>5. ASSUME NEW x \in Elements(q), x \notin {q[k] : k \in 1 .. n} PROVE x \in Elements(r)
  <2>1. PICK k \in 1 .. Len(q) : x = q[k]
    BY DEF Elements
  <2>2. k \notin 1 .. n
    BY <2>1, <1>5
  <2>3. k - n \in 1 .. Len(r) /\ n + (k - n) = k
    BY <2>2, <1>1
  <2> QED BY <2>1, <2>3, <1>1 DEF Elements
<1> QED BY <1>1, <1>3, <1>4, <1>5 DEF r

\* The queue without s has the other elements.
LEMMA WithoutOfDistinct ==
    ASSUME NEW S, NEW q \in Seq(S), Distinct(q), NEW s \in Elements(q)
    PROVE  /\ Without(q, s) \in Seq(S) /\ Distinct(Without(q, s))
           /\ Elements(Without(q, s)) = Elements(q) \ {s}
<1> DEFINE p == CHOOSE k \in 1 .. Len(q) : q[k] = s
           r == Without(q, s)
<1>1. p \in 1 .. Len(q) /\ q[p] = s
  BY DEF Elements
<1>2. Len(q) \in Nat /\ \A k \in 1 .. Len(q) : q[k] \in S
  BY LenProperties, ElementOfSeq
<1>3. r = [k \in 1 .. Len(q) - 1 |-> IF k < p THEN q[k] ELSE q[k + 1]]
  BY DEF Without
<1> HIDE DEF p, r
<1>4. Len(q) - 1 \in Nat
  BY <1>1, <1>2
<1>5. \A k \in 1 .. Len(q) - 1 : (IF k < p THEN q[k] ELSE q[k + 1]) \in S
  BY <1>1, <1>2
<1>6. r \in Seq(S) /\ Len(r) = Len(q) - 1
  BY <1>3, <1>4, <1>5, SMTT(20)
<1>7. \A k \in 1 .. Len(r) : r[k] = IF k < p THEN q[k] ELSE q[k + 1]
  BY <1>3, <1>6
<1>8. Distinct(r)
  <2> SUFFICES ASSUME NEW k \in 1 .. Len(r), NEW l \in 1 .. Len(r), r[k] = r[l]
               PROVE  k = l
    BY DEF Distinct
  <2> DEFINE i == IF k < p THEN k ELSE k + 1
             j == IF l < p THEN l ELSE l + 1
  <2>1. i \in 1 .. Len(q) /\ j \in 1 .. Len(q) /\ q[i] = r[k] /\ q[j] = r[l]
    BY <1>1, <1>2, <1>6, <1>7
  <2>2. i = j
    BY <2>1 DEF Distinct
  <2> QED BY <2>2, <1>1
<1>9. ASSUME NEW x \in Elements(r) PROVE x \in Elements(q) \ {s}
  <2>1. PICK k \in 1 .. Len(r) : x = r[k]
    BY DEF Elements
  <2> DEFINE i == IF k < p THEN k ELSE k + 1
  <2>2. i \in 1 .. Len(q) /\ i # p /\ x = q[i]
    BY <2>1, <1>1, <1>2, <1>6, <1>7
  <2>3. q[i] # q[p]
    BY <2>2, <1>1 DEF Distinct
  <2> QED BY <2>2, <2>3, <1>1 DEF Elements
<1>10. ASSUME NEW x \in Elements(q), x # s PROVE x \in Elements(r)
  <2>1. PICK i \in 1 .. Len(q) : x = q[i]
    BY DEF Elements
  <2>2. i # p
    BY <2>1, <1>10, <1>1
  <2> DEFINE k == IF i < p THEN i ELSE i - 1
  <2>3. k \in 1 .. Len(r) /\ r[k] = q[i]
    BY <2>1, <2>2, <1>1, <1>2, <1>6, <1>7
  <2> QED BY <2>1, <2>3 DEF Elements
<1> QED BY <1>6, <1>8, <1>9, <1>10 DEF r

\* A new element comes to the queue.
LEMMA AppendToDistinct ==
    ASSUME NEW S, NEW q \in Seq(S), Distinct(q), NEW s \in S, s \notin Elements(q)
    PROVE  /\ Append(q, s) \in Seq(S) /\ Distinct(Append(q, s))
           /\ Elements(Append(q, s)) = Elements(q) \union {s}
<1> DEFINE r == Append(q, s)
<1>1. /\ Len(q) \in Nat /\ r \in Seq(S) /\ Len(r) = Len(q) + 1
      /\ \A k \in 1 .. Len(q) : r[k] = q[k]
      /\ r[Len(q) + 1] = s
  BY SMTT(20)
<1> HIDE DEF r
<1>2. \A k \in 1 .. Len(r) : k \in 1 .. Len(q) \/ k = Len(q) + 1
  BY <1>1
<1>3. Distinct(r)
  BY <1>1, <1>2 DEF Distinct, Elements
<1>4. Elements(r) = Elements(q) \union {s}
  BY <1>1, <1>2 DEF Elements
<1> QED BY <1>1, <1>3, <1>4 DEF r

-----------------------------------------------------------------------------
\* What RemoveQueuedSession leaves of the queue.
LEMMA Removal ==
    ASSUME TypeOK, QueueConsistent, NEW s
    PROVE  LET r == RemoveQueuedSession(s) IN
           /\ r.found \in BOOLEAN
           /\ r.queue \in Seq(Opened) /\ Distinct(r.queue)
           /\ Elements(r.queue) = Elements(m_QueuedSessions) \ r.out
           /\ s \notin Elements(r.queue)
<1> DEFINE found    == s \in Elements(m_QueuedSessions)
           rest     == IF found THEN Without(m_QueuedSessions, s) ELSE m_QueuedSessions
           sessions == IF found \/ ActiveSessionCount = 0 THEN ActiveSessionCount
                       ELSE ActiveSessionCount - 1
           accept   == /\ Cardinality(Mapped) - Len(rest) < HardLimit
                       /\ m_playerLimit = 0 \/ sessions < m_playerLimit
                       /\ rest # <<>>
           queue    == IF accept THEN Tail(rest) ELSE rest
           gone     == IF found THEN {s} ELSE {}
           taken    == IF accept THEN {Head(rest)} ELSE {}
<1>1. /\ RemoveQueuedSession(s).found = found
      /\ RemoveQueuedSession(s).queue = queue
      /\ RemoveQueuedSession(s).out = gone \union taken
  BY DEF RemoveQueuedSession
<1>2. m_QueuedSessions \in Seq(Opened) /\ Distinct(m_QueuedSessions)
  BY DEF TypeOK, QueueConsistent
<1>3. /\ rest \in Seq(Opened) /\ Distinct(rest)
      /\ Elements(rest) = Elements(m_QueuedSessions) \ gone
      /\ s \notin Elements(rest)
  <2>1. CASE found
    BY <1>2, <2>1, WithoutOfDistinct
  <2>2. CASE ~found
    BY <1>2, <2>2
  <2> QED BY <2>1, <2>2
<1> HIDE DEF rest, gone, sessions
<1>4. accept => rest # <<>>
  OBVIOUS
<1> HIDE DEF accept
<1>5. /\ queue \in Seq(Opened) /\ Distinct(queue)
      /\ Elements(queue) = Elements(rest) \ taken
  <2>1. CASE accept
    BY <1>3, <1>4, <2>1, TailOfDistinct
  <2>2. CASE ~accept
    BY <1>3, <2>2
  <2> QED BY <2>1, <2>2
<1>6. found \in BOOLEAN
  OBVIOUS
<1> HIDE DEF queue, taken
<1> QED BY <1>1, <1>3, <1>5, <1>6

\* Nothing is queued in the beginning.
LEMMA InitQueueInv == Init => QueueInv
<1> SUFFICES ASSUME Init PROVE QueueInv
  OBVIOUS
<1>1. owner = <<>> /\ m_QueuedSessions = <<>> /\ addSessQueue = <<>>
  BY DEF Init
<1>2. Len(owner) = 0 /\ Len(m_QueuedSessions) = 0
  BY <1>1
<1>3. owner \in Seq(Accounts) /\ addSessQueue \in Seq(Opened) /\ m_QueuedSessions \in Seq(Opened)
  BY <1>1, EmptySeq
<1>4. TypeOK
  BY <1>2, <1>3, LimitsAssumption DEF Init, TypeOK, Mapped, Opened, NoSession, Sessions
<1>5. SessionsOwned /\ CharacterOwned
  BY DEF Init, SessionsOwned, CharacterOwned, Mapped, NoSession, Sessions
<1>6. QueueConsistent
  BY <1>2 DEF Init, QueueConsistent, Distinct, Elements
<1> QED BY <1>4, <1>5, <1>6 DEF QueueInv

\* The accounts of the sessions that are opened, and their numbers.
LEMMA OpenedSessions ==
    ASSUME TypeOK
    PROVE  /\ Len(owner) \in Nat /\ Opened \subseteq Sessions /\ NoSession \notin Sessions
           /\ \A s \in Opened : owner[s] \in Accounts
           /\ \A a \in Mapped : a \in Accounts /\ m_sessions[a] \in Opened
<1>1. Len(owner) \in Nat /\ Len(owner) <= MaxSessions /\ MaxSessions \in Nat
  BY LenProperties, LimitsAssumption DEF TypeOK
<1>2. Opened \subseteq Sessions /\ NoSession \notin Sessions
  BY <1>1 DEF Opened, Sessions, NoSession
<1>3. \A s \in Opened : owner[s] \in Accounts
  BY ElementOfSeq DEF TypeOK, Opened
<1>4. \A a \in Mapped : a \in Accounts /\ m_sessions[a] \in Opened
  BY DEF TypeOK, Mapped
<1> QED BY <1>1, <1>2, <1>3, <1>4

\* The steps that change neither what m_sessions and the queue hold nor what
\* the sessions have.
LEMMA QuietStep ==
    ASSUME QueueInv,
           UNCHANGED <<owner, m_sessions, queueVars, character>>
    PROVE  SessionsOwned' /\ CharacterOwned' /\ QueueConsistent' /\ Mapped' = Mapped /\ Opened' = Opened
BY DEF QueueInv, SessionsOwned, CharacterOwned, QueueConsistent, Mapped, Opened, Waiting, Elements,
       Distinct, queueVars

\* Each step of another session.
LEMMA NextQuiet ==
    ASSUME QueueInv,
           \/ \E s \in Sessions : CloseSocket(s)
           \/ \E a \in Accounts : GraceEnds(a) \/ SessionStays(a)
           \/ RefuseSession \/ AllSessionsAdded \/ AllSessionsUpdated \/ EndTick
           \/ \E limit \in Limits : SetPlayerLimit(limit)
    PROVE  QueueInv'
<1> USE DEF QueueInv
<1>1. UNCHANGED <<owner, m_sessions, queueVars, character>>
  BY DEF CloseSocket, GraceEnds, SessionStays, RefuseSession, AllSessionsAdded,
         AllSessionsUpdated, EndTick, SetPlayerLimit, queueVars
<1>2. SessionsOwned' /\ CharacterOwned' /\ QueueConsistent' /\ Mapped' = Mapped /\ Opened' = Opened
  BY <1>1, QuietStep
<1>3. m_QueuedSessions' \in Seq(Opened) /\ inQueue' \subseteq Opened
  BY <1>1 DEF TypeOK, queueVars
<1>4. /\ addSessQueue' \in Seq(Opened) /\ open' \subseteq Opened
  <2>1. addSessQueue' = addSessQueue \/ (addSessQueue # <<>> /\ addSessQueue' = Tail(addSessQueue))
    BY DEF CloseSocket, GraceEnds, SessionStays, RefuseSession, AllSessionsAdded,
           AllSessionsUpdated, EndTick, SetPlayerLimit
  <2>2. open' \subseteq open
    BY DEF CloseSocket, GraceEnds, SessionStays, RefuseSession, AllSessionsAdded,
           AllSessionsUpdated, EndTick, SetPlayerLimit
  <2> QED BY <2>1, <2>2, HeadTailProperties DEF TypeOK
<1>5. m_playerLimit' \in Int
  BY LimitsAssumption DEF TypeOK, CloseSocket, GraceEnds, SessionStays, RefuseSession,
         AllSessionsAdded, AllSessionsUpdated, EndTick, SetPlayerLimit
<1>6. /\ phase' \in {"limit", "add", "sessions", "cli"} /\ todo' \subseteq Mapped
      /\ recent' \subseteq Accounts /\ skipped' \subseteq Opened
  BY DEF TypeOK, CloseSocket, GraceEnds, SessionStays, RefuseSession, AllSessionsAdded,
         AllSessionsUpdated, EndTick, SetPlayerLimit
<1> QED BY <1>1, <1>2, <1>3, <1>4, <1>5, <1>6 DEF TypeOK

\* A new socket: sessions that were opened keep their numbers and accounts.
LEMMA NextConnect ==
    ASSUME QueueInv, NEW a \in Accounts, Connect(a)
    PROVE  QueueInv'
<1> USE DEF QueueInv
<1>1. /\ owner' \in Seq(Accounts) /\ Len(owner') = Len(owner) + 1 /\ Len(owner') <= MaxSessions
      /\ \A s \in Opened : owner'[s] = owner[s]
  <2>1. owner \in Seq(Accounts) /\ owner' = Append(owner, a) /\ Len(owner) < MaxSessions
    BY DEF Connect, TypeOK
  <2>2. /\ owner' \in Seq(Accounts) /\ Len(owner') = Len(owner) + 1
        /\ \A s \in 1 .. Len(owner) : owner'[s] = owner[s]
    BY <2>1, SMTT(20)
  <2> QED BY <2>1, <2>2, OpenedSessions, LimitsAssumption DEF Opened
<1>2. Opened \subseteq Opened' /\ Len(owner') \in Opened' /\ Len(owner') \in Nat
  BY <1>1, OpenedSessions DEF Opened
<1>3. UNCHANGED <<m_sessions, queueVars, character>> /\ Mapped' = Mapped
  BY DEF Connect, Mapped
<1>4. /\ addSessQueue' \in Seq(Opened') /\ m_QueuedSessions' \in Seq(Opened')
  <2>1. addSessQueue \in Seq(Opened) /\ m_QueuedSessions \in Seq(Opened)
    BY DEF TypeOK
  <2>2. addSessQueue \in Seq(Opened') /\ m_QueuedSessions \in Seq(Opened')
    BY <2>1, <1>2, SMTT(20)
  <2>3. addSessQueue' = Append(addSessQueue, Len(owner'))
    BY DEF Connect
  <2> QED BY <2>2, <2>3, <1>2, <1>3, SMTT(20) DEF queueVars
<1>5. TypeOK'
  BY <1>1, <1>2, <1>3, <1>4 DEF TypeOK, Connect, queueVars
<1>6. SessionsOwned' /\ CharacterOwned'
  BY <1>1, <1>2, <1>3, OpenedSessions DEF SessionsOwned, CharacterOwned
<1>7. QueueConsistent'
  <2>1. \A s \in Elements(m_QueuedSessions) : s \in Opened
    BY ElementOfSeq DEF Elements, TypeOK
  <2>2. Elements(m_QueuedSessions)' = Elements(m_QueuedSessions) /\ Distinct(m_QueuedSessions)'
    BY <1>3 DEF Elements, Distinct, QueueConsistent, queueVars
  <2>3. \A s \in Elements(m_QueuedSessions) : Waiting(s)'
    BY <1>1, <1>3, <2>1 DEF Waiting, QueueConsistent
  <2> QED BY <1>3, <2>2, <2>3 DEF QueueConsistent, queueVars
<1> QED BY <1>5, <1>6, <1>7

\* Places are given at the start of UpdateSessions: the first leave the queue.
LEMMA NextPlayerLimit ==
    ASSUME QueueInv, UpdatePlayerLimit
    PROVE  QueueInv'
<1> USE DEF QueueInv
<1>1. UNCHANGED <<todo, owner, addSessQueue, m_sessions, open, character, recent, skipped>>
      /\ phase' = "add" /\ Mapped' = Mapped /\ Opened' = Opened
  BY DEF UpdatePlayerLimit, Mapped, Opened
<1>2. /\ m_QueuedSessions' \in Seq(Opened) /\ Distinct(m_QueuedSessions')
      /\ Elements(m_QueuedSessions') \subseteq Elements(m_QueuedSessions)
      /\ inQueue' = Elements(m_QueuedSessions')
  <2>1. m_QueuedSessions \in Seq(Opened) /\ Distinct(m_QueuedSessions)
        /\ inQueue = Elements(m_QueuedSessions) /\ Len(m_QueuedSessions) \in Nat
    BY LenProperties DEF TypeOK, QueueConsistent
  <2>2. CASE UNCHANGED queueVars
    BY <2>1, <2>2 DEF queueVars
  <2>3. CASE \E accept \in 0 .. Len(m_QueuedSessions) :
                 /\ m_QueuedSessions' = SubSeq(m_QueuedSessions, accept + 1, Len(m_QueuedSessions))
                 /\ inQueue' = inQueue \ {m_QueuedSessions[k] : k \in 1 .. accept}
    BY <2>1, <2>3, SuffixOfDistinct
  <2> DEFINE limit  == IF HardLimit # 0 THEN Least(HardLimit, m_playerLimit) ELSE m_playerLimit
             raised == Least(limit, ActiveSessionCount) + LoginPerTick
             accept == IF raised > HardLimit THEN 0
                       ELSE Least(LoginPerTick, Len(m_QueuedSessions))
  <2>4. accept \in 0 .. Len(m_QueuedSessions)
    <3>1. Least(LoginPerTick, Len(m_QueuedSessions)) \in 0 .. Len(m_QueuedSessions)
      BY <2>1, LimitsAssumption DEF Least
    <3> HIDE DEF raised
    <3> QED BY <3>1, <2>1
  <2>5. \/ UNCHANGED queueVars
        \/ /\ m_QueuedSessions' = SubSeq(m_QueuedSessions, accept + 1, Len(m_QueuedSessions))
           /\ inQueue' = inQueue \ {m_QueuedSessions[k] : k \in 1 .. accept}
    BY DEF UpdatePlayerLimit
  <2> HIDE DEF accept
  <2> QED BY <2>2, <2>3, <2>4, <2>5
<1>3. m_playerLimit' \in Int
  <2>1. ActiveSessionCount < HardLimit => ActiveSessionCount \in Int
    <3>1. Len(m_QueuedSessions) \in Nat
      BY LenProperties DEF TypeOK
    <3>2. IsFiniteSet(Mapped)
      BY AccountsAssumption, FS_Subset DEF Mapped
    <3> QED BY <3>1, <3>2, FS_CardinalityType DEF ActiveSessionCount
  <2> QED BY <2>1, LimitsAssumption DEF UpdatePlayerLimit, Least, TypeOK
<1>4. TypeOK'
  <2>1. inQueue' \subseteq Opened
    BY <1>2, ElementOfSeq DEF Elements
  <2> QED BY <1>1, <1>2, <1>3, <2>1 DEF TypeOK
<1>5. SessionsOwned' /\ CharacterOwned'
  BY <1>1 DEF SessionsOwned, CharacterOwned
<1>6. QueueConsistent'
  BY <1>1, <1>2 DEF QueueConsistent, Waiting
<1> QED BY <1>4, <1>5, <1>6

\* A character comes, is loaded or leaves while the session stays: none of
\* these sessions is queued.
LEMMA NextCharacter ==
    ASSUME QueueInv,
           \/ \E a \in Accounts : HandlePlayerLoginOpcode(a) \/ SessionLogsOut(a)
           \/ \E s \in Sessions, x \in {"none", "world"} : LoadingEnds(s, x)
    PROVE  QueueInv'
<1> USE DEF QueueInv
<1>1. /\ UNCHANGED <<owner, addSessQueue, m_sessions, queueVars, m_playerLimit, open, recent,
                     skipped, phase>>
      /\ todo' \subseteq todo
  BY DEF HandlePlayerLoginOpcode, SessionLogsOut, LoadingEnds
<1>2. Mapped' = Mapped /\ Opened' = Opened
  BY <1>1 DEF Mapped, Opened
<1>3. PICK s \in Sessions, x \in {"none", "loading", "world"} :
          /\ character' = [character EXCEPT ![s] = x]
          /\ s \notin Elements(m_QueuedSessions)
          /\ s \in Opened /\ m_sessions[owner[s]] = s
  <2>1. CASE \E a \in Accounts : HandlePlayerLoginOpcode(a)
    <3>1. PICK a \in Accounts : HandlePlayerLoginOpcode(a)
      BY <2>1
    <3>2. a \in Mapped /\ m_sessions[a] \in Opened /\ owner[m_sessions[a]] = a
      BY <3>1, OpenedSessions DEF HandlePlayerLoginOpcode, TypeOK, SessionsOwned
    <3> QED BY <3>1, <3>2, OpenedSessions DEF HandlePlayerLoginOpcode, QueueConsistent
  <2>2. CASE \E a \in Accounts : SessionLogsOut(a)
    <3>1. PICK a \in Accounts : SessionLogsOut(a)
      BY <2>2
    <3>2. a \in Mapped /\ m_sessions[a] \in Opened /\ owner[m_sessions[a]] = a
      BY <3>1, OpenedSessions DEF SessionLogsOut, TypeOK, SessionsOwned
    <3> QED BY <3>1, <3>2, OpenedSessions DEF SessionLogsOut, QueueConsistent, Waiting
  <2>3. CASE \E s \in Sessions, x \in {"none", "world"} : LoadingEnds(s, x)
    <3>1. PICK s \in Sessions, x \in {"none", "world"} : LoadingEnds(s, x)
      BY <2>3
    <3> QED BY <3>1 DEF LoadingEnds, CharacterOwned, QueueConsistent, Waiting
  <2> QED BY <2>1, <2>2, <2>3
<1>4. TypeOK'
  BY <1>1, <1>2, <1>3 DEF TypeOK, queueVars
<1>5. SessionsOwned' /\ CharacterOwned'
  BY <1>1, <1>2, <1>3 DEF SessionsOwned, CharacterOwned, TypeOK
<1>6. QueueConsistent'
  <2>1. Elements(m_QueuedSessions)' = Elements(m_QueuedSessions) /\ Distinct(m_QueuedSessions)'
    BY <1>1 DEF Elements, Distinct, QueueConsistent, queueVars
  <2>2. \A t \in Elements(m_QueuedSessions) : t \in Sessions /\ t # s
    BY <1>3, ElementOfSeq, OpenedSessions DEF Elements, TypeOK
  <2>3. \A t \in Elements(m_QueuedSessions) : Waiting(t)'
    BY <1>1, <1>3, <2>2 DEF Waiting, QueueConsistent, TypeOK
  <2> QED BY <1>1, <2>1, <2>3 DEF QueueConsistent, queueVars
<1> QED BY <1>4, <1>5, <1>6

\* A session leaves m_sessions.  It is not in the queue then: it has a
\* character, or RemoveQueuedSession has removed it.
LEMMA NextLeaves ==
    ASSUME QueueInv, NEW a \in Accounts, SessionDisconnected(a) \/ SessionRemoved(a)
    PROVE  QueueInv'
<1> USE DEF QueueInv
<1> DEFINE s == m_sessions[a]
<1>1. /\ UNCHANGED <<phase, owner, addSessQueue, m_playerLimit, skipped>>
      /\ m_sessions' = [m_sessions EXCEPT ![a] = NoSession]
      /\ character' = [character EXCEPT ![s] = "none"]
      /\ a \in todo /\ todo' = todo \ {a}
      /\ open' \subseteq open /\ recent' \subseteq Accounts
  BY DEF SessionDisconnected, SessionRemoved, LogoutNoted, TypeOK
<1>2. a \in Mapped /\ s \in Opened /\ s \in Sessions /\ owner[s] = a
  BY <1>1, OpenedSessions DEF TypeOK, SessionsOwned
<1>3. /\ m_QueuedSessions' \in Seq(Opened) /\ Distinct(m_QueuedSessions')
      /\ Elements(m_QueuedSessions') \subseteq Elements(m_QueuedSessions) \ {s}
      /\ inQueue' = Elements(m_QueuedSessions')
  <2>1. CASE SessionDisconnected(a)
    <3>1. UNCHANGED queueVars /\ character[s] = "world"
      BY <2>1 DEF SessionDisconnected
    <3>2. s \notin Elements(m_QueuedSessions)
      BY <3>1 DEF QueueConsistent, Waiting
    <3> QED BY <3>1, <3>2 DEF QueueConsistent, TypeOK, queueVars
  <2>2. CASE SessionRemoved(a)
    <3> DEFINE r == RemoveQueuedSession(s)
    <3>1. m_QueuedSessions' = r.queue /\ inQueue' = inQueue \ r.out
      BY <2>2 DEF SessionRemoved
    <3>2. /\ r.queue \in Seq(Opened) /\ Distinct(r.queue)
          /\ Elements(r.queue) = Elements(m_QueuedSessions) \ r.out
          /\ s \notin Elements(r.queue)
      BY Removal
    <3> HIDE DEF r
    <3> QED BY <3>1, <3>2 DEF QueueConsistent
  <2> QED BY <2>1, <2>2
<1>4. \A t \in Elements(m_QueuedSessions) : t \in Opened /\ t \in Sessions /\ owner[t] \in Accounts
  BY ElementOfSeq, OpenedSessions DEF Elements, TypeOK
<1>5. Opened' = Opened /\ Mapped' = Mapped \ {a}
  BY <1>1, <1>2 DEF Opened, Mapped, TypeOK
<1>6. TypeOK'
  <2>1. inQueue' \subseteq Opened
    BY <1>3, <1>4
  <2> QED BY <1>1, <1>3, <1>5, <2>1 DEF TypeOK
<1>7. SessionsOwned'
  BY <1>1, <1>5 DEF SessionsOwned, TypeOK
<1>8. CharacterOwned'
  <2> SUFFICES ASSUME NEW t \in Sessions, character'[t] # "none"
               PROVE  t \in Opened /\ m_sessions'[owner[t]] = t
    BY <1>1, <1>5 DEF CharacterOwned
  <2>1. t # s /\ character[t] # "none"
    BY <1>1 DEF TypeOK
  <2>2. t \in Opened /\ m_sessions[owner[t]] = t
    BY <2>1 DEF CharacterOwned
  <2>3. owner[t] # a /\ owner[t] \in Accounts
    BY <2>1, <2>2, OpenedSessions
  <2> QED BY <2>2, <2>3, <1>1 DEF TypeOK
<1>9. QueueConsistent'
  <2> SUFFICES ASSUME NEW t \in Elements(m_QueuedSessions') PROVE Waiting(t)'
    BY <1>3 DEF QueueConsistent
  <2>1. t # s /\ t \in Sessions /\ owner[t] \in Accounts
        /\ m_sessions[owner[t]] = t /\ character[t] = "none"
    BY <1>3, <1>4 DEF QueueConsistent, Waiting
  <2>2. owner[t] # a
    BY <2>1
  <2> QED BY <2>1, <2>2, <1>1 DEF Waiting, TypeOK
<1> QED BY <1>6, <1>7, <1>8, <1>9

\* A session comes to m_sessions, in the place of the account's old one, which
\* leaves the queue before.
LEMMA NextAddSession ==
    ASSUME QueueInv, AddSession
    PROVE  QueueInv'
<1> USE DEF QueueInv
<1> DEFINE s   == Head(addSessQueue)
           a   == owner[s]
           old == m_sessions[a]
           r   == IF old # NoSession THEN RemoveQueuedSession(old)
                  ELSE [found |-> FALSE, queue |-> m_QueuedSessions, out |-> {}]
<1>1. s \in Opened /\ s \in Sessions /\ a \in Accounts /\ addSessQueue' \in Seq(Opened)
  <2>1. addSessQueue \in Seq(Opened) /\ addSessQueue # <<>> /\ addSessQueue' = Tail(addSessQueue)
    BY DEF AddSession, TypeOK
  <2> QED BY <2>1, HeadTailProperties, OpenedSessions
<1>2. /\ UNCHANGED <<phase, todo, owner, m_playerLimit>>
      /\ m_sessions' = [m_sessions EXCEPT ![a] = s]
      /\ character' = IF old # NoSession THEN [character EXCEPT ![old] = "none"] ELSE character
      /\ open' \subseteq open
      /\ \/ m_QueuedSessions' = r.queue /\ inQueue' = inQueue \ r.out
         \/ /\ m_QueuedSessions' = Append(r.queue, s)
            /\ inQueue' = (inQueue \ r.out) \union {s}
      /\ skipped' \subseteq skipped \union {s}
      /\ recent' \subseteq Accounts
  <2>1. /\ UNCHANGED <<phase, todo, owner, m_playerLimit>>
        /\ m_sessions' = [m_sessions EXCEPT ![a] = s]
        /\ character' = IF old # NoSession THEN [character EXCEPT ![old] = "none"] ELSE character
        /\ open' = open \ {old}
    BY DEF AddSession
  <2>2. \/ m_QueuedSessions' = r.queue /\ inQueue' = (inQueue \ r.out) \union {}
        \/ /\ m_QueuedSessions' = Append(r.queue, s)
           /\ inQueue' = (inQueue \ r.out) \union {s}
    BY DEF AddSession
  <2>3. skipped' = skipped \union {s} \/ skipped' = skipped
    BY DEF AddSession
  <2>4. recent' = recent \/ recent' = recent \union {a}
    BY DEF AddSession, LogoutNoted
  <2> QED BY <2>1, <2>2, <2>3, <2>4, <1>1 DEF TypeOK
<1>3. /\ r.queue \in Seq(Opened) /\ Distinct(r.queue)
      /\ Elements(r.queue) = Elements(m_QueuedSessions) \ r.out
      /\ old \notin Elements(r.queue)
  <2>1. CASE old # NoSession
    BY <2>1, Removal
  <2>2. CASE old = NoSession
    <3>1. r = [found |-> FALSE, queue |-> m_QueuedSessions, out |-> {}]
      BY <2>2
    <3>2. NoSession \notin Elements(m_QueuedSessions)
      BY ElementOfSeq, OpenedSessions DEF Elements, TypeOK
    <3> QED BY <3>1, <3>2, <2>2 DEF QueueConsistent, TypeOK
  <2> QED BY <2>1, <2>2
<1> HIDE DEF r
<1>4. \A t \in Elements(r.queue) :
          /\ t \in Sessions /\ owner[t] \in Accounts
          /\ m_sessions[owner[t]] = t /\ character[t] = "none" /\ owner[t] # a
  <2> SUFFICES ASSUME NEW t \in Elements(r.queue)
               PROVE  /\ t \in Sessions /\ owner[t] \in Accounts
                      /\ m_sessions[owner[t]] = t /\ character[t] = "none" /\ owner[t] # a
    OBVIOUS
  <2>1. t \in Opened
    BY <1>3, ElementOfSeq DEF Elements
  <2>2. Waiting(t) /\ t # old
    BY <1>3 DEF QueueConsistent
  <2> QED BY <2>1, <2>2, OpenedSessions DEF Waiting
<1>5. /\ m_QueuedSessions' \in Seq(Opened) /\ Distinct(m_QueuedSessions')
      /\ Elements(m_QueuedSessions') \subseteq Elements(r.queue) \union {s}
      /\ inQueue' = Elements(m_QueuedSessions')
  <2>1. s \notin Elements(r.queue)
    BY <1>4
  <2>2. inQueue \ r.out = Elements(r.queue)
    BY <1>3 DEF QueueConsistent
  <2>3. CASE m_QueuedSessions' = r.queue /\ inQueue' = inQueue \ r.out
    BY <1>3, <2>2, <2>3
  <2>4. CASE /\ m_QueuedSessions' = Append(r.queue, s)
             /\ inQueue' = (inQueue \ r.out) \union {s}
    <3> DEFINE q == r.queue
    <3>1. q \in Seq(Opened) /\ Distinct(q) /\ s \in Opened /\ s \notin Elements(q)
      BY <1>1, <1>3, <2>1
    <3> HIDE DEF q, s
    <3>2. /\ Append(q, s) \in Seq(Opened) /\ Distinct(Append(q, s))
          /\ Elements(Append(q, s)) = Elements(q) \union {s}
      BY <3>1, AppendToDistinct
    <3> QED BY <2>2, <2>4, <3>2 DEF q
  <2> QED BY <1>2, <2>3, <2>4
<1>6. Opened' = Opened /\ Mapped' = Mapped \union {a}
  <2>1. s # NoSession
    BY <1>1, OpenedSessions
  <2> QED BY <2>1, <1>1, <1>2 DEF Opened, Mapped, TypeOK
<1>7. old = NoSession \/ old \in Sessions
  BY <1>1, OpenedSessions DEF TypeOK
<1>8. TypeOK'
  <2>1. inQueue' \subseteq Opened
    BY <1>5, ElementOfSeq DEF Elements
  <2>2. character' \in [Sessions -> {"none", "loading", "world"}]
    BY <1>2 DEF TypeOK
  <2>3. m_sessions' \in [Accounts -> Opened \union {NoSession}]
    BY <1>1, <1>2 DEF TypeOK
  <2> QED BY <1>1, <1>2, <1>5, <1>6, <2>1, <2>2, <2>3 DEF TypeOK
<1>9. SessionsOwned'
  BY <1>1, <1>2, <1>6 DEF SessionsOwned, TypeOK
<1>10. \A t \in Sessions : character'[t] # "none" => t # old /\ character[t] # "none"
  BY <1>2, <1>7, OpenedSessions DEF TypeOK
<1>11. CharacterOwned'
  <2> SUFFICES ASSUME NEW t \in Sessions, character'[t] # "none"
               PROVE  t \in Opened /\ m_sessions'[owner[t]] = t
    BY <1>2, <1>6 DEF CharacterOwned
  <2>1. t # old /\ t \in Opened /\ m_sessions[owner[t]] = t /\ owner[t] \in Accounts
    BY <1>10, OpenedSessions DEF CharacterOwned
  <2> QED BY <2>1, <1>2 DEF TypeOK
<1>12. QueueConsistent'
  <2> SUFFICES ASSUME NEW t \in Elements(m_QueuedSessions') PROVE Waiting(t)'
    BY <1>5 DEF QueueConsistent
  <2>1. CASE t \in Elements(r.queue)
    <3>1. m_sessions'[owner[t]] = t
      BY <1>2, <1>4, <2>1 DEF TypeOK
    <3>2. character'[t] = "none"
      BY <1>4, <1>10, <2>1
    <3> QED BY <3>1, <3>2, <1>2 DEF Waiting
  <2>2. CASE t = s
    <3>1. m_sessions'[owner[s]] = s
      BY <1>1, <1>2 DEF TypeOK
    <3>2. character'[s] = "none"
      <4>1. character'[s] # "none" => s # old /\ character[s] # "none"
        BY <1>1, <1>10
      <4>2. character[s] # "none" => s = old
        BY <1>1 DEF CharacterOwned
      <4> QED BY <4>1, <4>2
    <3> QED BY <2>2, <3>1, <3>2, <1>2 DEF Waiting
  <2> QED BY <1>5, <2>1, <2>2
<1> QED BY <1>8, <1>9, <1>11, <1>12

\* The invariant is kept by every step.
LEMMA NextQueueInv ==
    ASSUME QueueInv, [Next]_vars
    PROVE  QueueInv'
<1>1. CASE \/ \E s \in Sessions : CloseSocket(s)
           \/ \E a \in Accounts : GraceEnds(a) \/ SessionStays(a)
           \/ RefuseSession \/ AllSessionsAdded \/ AllSessionsUpdated \/ EndTick
           \/ \E limit \in Limits : SetPlayerLimit(limit)
  BY <1>1, NextQuiet
<1>2. CASE \E a \in Accounts : Connect(a)
  BY <1>2, NextConnect
<1>3. CASE UpdatePlayerLimit
  BY <1>3, NextPlayerLimit
<1>4. CASE \/ \E a \in Accounts : HandlePlayerLoginOpcode(a) \/ SessionLogsOut(a)
           \/ \E s \in Sessions, x \in {"none", "world"} : LoadingEnds(s, x)
  BY <1>4, NextCharacter
<1>5. CASE \E a \in Accounts : SessionDisconnected(a) \/ SessionRemoved(a)
  BY <1>5, NextLeaves
<1>6. CASE AddSession
  BY <1>6, NextAddSession
<1>7. CASE UNCHANGED vars
  BY <1>7 DEF vars, QueueInv, TypeOK, SessionsOwned, CharacterOwned, QueueConsistent, Mapped,
              Opened, Waiting, Elements, Distinct
<1> QED BY <1>1, <1>2, <1>3, <1>4, <1>5, <1>6, <1>7 DEF Next, UpdateSessions

\* The inductive invariant of the login queue, for every number of accounts
\* and sessions and every configuration.
THEOREM QueueInvariant == Spec => []QueueInv
<1>1. Init => QueueInv
  BY InitQueueInv
<1>2. QueueInv /\ [Next]_vars => QueueInv'
  BY NextQueueInv
<1> QED BY <1>1, <1>2, PTL DEF Spec

\* No dangling pointer and no duplicate in m_QueuedSessions, and m_inQueue set
\* exactly for what it holds, however the sessions come, are replaced and go.
THEOREM QueueAlwaysConsistent == Spec => []QueueConsistent
<1>1. QueueInv => QueueConsistent
  BY DEF QueueInv
<1> QED BY <1>1, QueueInvariant, PTL

-----------------------------------------------------------------------------
\* The accounts whose session is not queued, and those of them whose session
\* the hard limit is about.
Admitted == {a \in Mapped : m_sessions[a] \notin inQueue}

Counted == {a \in Mapped : m_sessions[a] \notin inQueue \union skipped}

\* The limits, as far as they matter for the hard one: after the first phase
\* of a tick and until the console can set it the limit is at most the hard
\* one; and where a tick may let in more than one, the sessions are at most
\* as many as the limit, because the raise starts from there.
LimitInv ==
    /\ m_playerLimit >= 1
    /\ phase \in {"add", "sessions"} => m_playerLimit <= HardLimit
    /\ Cardinality(Counted) <= HardLimit
    /\ LoginPerTick > 1 => Cardinality(Counted) <= m_playerLimit

\* What GetActiveSessionCount computes is the number of sessions that are in:
\* the queue has as many entries as there are sessions waiting.
LEMMA ActiveIsAdmitted ==
    ASSUME QueueInv
    PROVE  /\ IsFiniteSet(Mapped) /\ Cardinality(Mapped) \in Nat
           /\ Len(m_QueuedSessions) \in Nat
           /\ IsFiniteSet(Admitted) /\ Cardinality(Admitted) = ActiveSessionCount
           /\ ActiveSessionCount \in Nat
<1> USE DEF QueueInv
<1> DEFINE q == m_QueuedSessions
           Queued == {a \in Mapped : m_sessions[a] \in inQueue}
           f == [k \in 1 .. Len(q) |-> owner[q[k]]]
<1>1. IsFiniteSet(Mapped) /\ Cardinality(Mapped) \in Nat
  <2>1. Mapped \in SUBSET Accounts
    BY DEF Mapped
  <2> QED BY <2>1, AccountsAssumption, FS_Subset, FS_CardinalityType
<1>2. Len(q) \in Nat
  BY LenProperties DEF TypeOK
<1>3. \A k \in 1 .. Len(q) : /\ q[k] \in inQueue /\ owner[q[k]] \in Mapped
                             /\ m_sessions[owner[q[k]]] = q[k]
  <2> SUFFICES ASSUME NEW k \in 1 .. Len(q)
               PROVE  /\ q[k] \in inQueue /\ owner[q[k]] \in Mapped
                      /\ m_sessions[owner[q[k]]] = q[k]
    OBVIOUS
  <2>1. q[k] \in Elements(q)
    BY DEF Elements
  <2>2. q[k] \in Opened
    BY ElementOfSeq DEF TypeOK
  <2>3. q[k] \in inQueue /\ m_sessions[owner[q[k]]] = q[k]
    BY <2>1 DEF QueueConsistent, Waiting
  <2>4. owner[q[k]] \in Accounts /\ q[k] # NoSession
    BY <2>2, OpenedSessions
  <2> QED BY <2>3, <2>4 DEF Mapped
<1>4. f \in [1 .. Len(q) -> Queued]
  BY <1>3
<1>5. \A k, l \in 1 .. Len(q) : f[k] = f[l] => k = l
  <2> SUFFICES ASSUME NEW k \in 1 .. Len(q), NEW l \in 1 .. Len(q), f[k] = f[l]
               PROVE  k = l
    OBVIOUS
  <2>1. q[k] = q[l]
    BY <1>3
  <2> QED BY <2>1 DEF QueueConsistent, Distinct
<1>6. \A a \in Queued : \E k \in 1 .. Len(q) : f[k] = a
  <2> SUFFICES ASSUME NEW a \in Queued PROVE \E k \in 1 .. Len(q) : f[k] = a
    OBVIOUS
  <2>1. PICK k \in 1 .. Len(q) : q[k] = m_sessions[a]
    BY DEF QueueConsistent, Elements
  <2>2. owner[m_sessions[a]] = a
    BY DEF SessionsOwned
  <2> QED BY <2>1, <2>2
<1>7. ExistsBijection(1 .. Len(q), Queued)
  <2> HIDE DEF f, Queued
  <2> QED BY <1>4, <1>5, <1>6, Fun_IsBij DEF ExistsBijection
<1>8. Cardinality(Queued) = Len(q)
  BY <1>2, <1>7, FS_CountingElements
<1>9. Admitted = Mapped \ Queued /\ Mapped \cap Queued = Queued
  BY DEF Admitted
<1> HIDE DEF Queued, f
<1>10. IsFiniteSet(Admitted) /\ Cardinality(Admitted) = Cardinality(Mapped) - Len(q)
  <2>1. /\ IsFiniteSet(Mapped \ Queued)
        /\ Cardinality(Mapped \ Queued) = Cardinality(Mapped) - Cardinality(Mapped \cap Queued)
    BY <1>1, FS_Difference
  <2> QED BY <2>1, <1>8, <1>9
<1>11. Cardinality(Admitted) \in Nat
  BY <1>10, FS_CardinalityType
<1> QED BY <1>1, <1>2, <1>10, <1>11 DEF ActiveSessionCount

\* A smaller set is not more.
LEMMA SubsetSize ==
    ASSUME NEW S, IsFiniteSet(S), NEW T, T \subseteq S
    PROVE  IsFiniteSet(T) /\ Cardinality(T) \in Nat /\ Cardinality(S) \in Nat
           /\ Cardinality(T) <= Cardinality(S)
BY FS_Subset, FS_CardinalityType

\* The sessions that count are among those that are in.
LEMMA CountedAreAdmitted ==
    ASSUME QueueInv
    PROVE  /\ IsFiniteSet(Counted) /\ Cardinality(Counted) \in Nat
           /\ Counted \subseteq Admitted /\ Cardinality(Counted) <= ActiveSessionCount
<1>1. Counted \subseteq Admitted
  BY DEF Counted, Admitted
<1> QED BY <1>1, ActiveIsAdmitted, SubsetSize

\* A session leaves, and RemoveQueuedSession gives its place away or does not:
\* then there are no more than before, or no more than the limit.
LEMMA RemovalCounts ==
    ASSUME QueueInv, m_playerLimit >= 1, NEW a \in Mapped
    PROVE  LET r    == RemoveQueuedSession(m_sessions[a])
               left == {b \in Mapped \ {a} : m_sessions[b] \notin (inQueue \ r.out) \union skipped}
           IN  left \subseteq Counted \/ Cardinality(left) <= m_playerLimit
<1> USE DEF QueueInv
<1> DEFINE s        == m_sessions[a]
           found    == s \in Elements(m_QueuedSessions)
           rest     == IF found THEN Without(m_QueuedSessions, s) ELSE m_QueuedSessions
           sessions == IF found \/ ActiveSessionCount = 0 THEN ActiveSessionCount
                       ELSE ActiveSessionCount - 1
           accept   == /\ Cardinality(Mapped) - Len(rest) < HardLimit
                       /\ m_playerLimit = 0 \/ sessions < m_playerLimit
                       /\ rest # <<>>
           out      == (IF found THEN {s} ELSE {}) \union (IF accept THEN {Head(rest)} ELSE {})
           left     == {b \in Mapped \ {a} : m_sessions[b] \notin (inQueue \ out) \union skipped}
<1>1. RemoveQueuedSession(s).out = out
  BY DEF RemoveQueuedSession
<1>2. \A b \in Mapped \ {a} : m_sessions[b] # s
  BY DEF SessionsOwned
<1>3. m_playerLimit \in Int
  BY DEF TypeOK
<1> SUFFICES left \subseteq Counted \/ Cardinality(left) <= m_playerLimit
  BY <1>1
<1>4. CASE ~accept
  <2>1. out \subseteq {s}
    BY <1>4
  <2> HIDE DEF out, s
  <2>2. left \subseteq Counted
    BY <2>1, <1>2 DEF Counted, s
  <2> QED BY <2>2
<1>5. CASE accept
  <2> DEFINE h == Head(rest)
             b0 == owner[h]
  <2>1. sessions < m_playerLimit
    BY <1>5
  <2>2. out \subseteq {s, h}
    OBVIOUS
  <2>3. \A b \in left : b \in Counted \ {a} \/ b = b0
    <3> SUFFICES ASSUME NEW b \in left PROVE b \in Counted \ {a} \/ b = b0
      OBVIOUS
    <3> HIDE DEF out, s, h
    <3>1. b \in Mapped \ {a} /\ m_sessions[b] \notin (inQueue \ out) \union skipped
      OBVIOUS
    <3>2. m_sessions[b] # s
      BY <3>1, <1>2
    <3>3. owner[m_sessions[b]] = b
      BY <3>1 DEF SessionsOwned
    <3> QED BY <2>2, <3>1, <3>2, <3>3 DEF Counted
  <2>4. left \subseteq (Counted \ {a}) \union {b0}
    BY <2>3
  <2> HIDE DEF left, b0, accept
  <2>5. IsFiniteSet(Counted) /\ IsFiniteSet(Counted \ {a})
    BY CountedAreAdmitted, FS_RemoveElement
  <2>6. /\ Cardinality(left) \in Nat /\ Cardinality(Counted \ {a}) \in Nat
        /\ Cardinality(left) <= Cardinality(Counted \ {a}) + 1
    <3>1. /\ IsFiniteSet((Counted \ {a}) \union {b0})
          /\ Cardinality((Counted \ {a}) \union {b0}) =
               IF b0 \in Counted \ {a} THEN Cardinality(Counted \ {a})
               ELSE Cardinality(Counted \ {a}) + 1
      BY <2>5, FS_AddElement
    <3>2. Cardinality(Counted \ {a}) \in Nat
      BY <2>5, FS_CardinalityType
    <3>3. /\ Cardinality(left) \in Nat
          /\ Cardinality(left) <= Cardinality((Counted \ {a}) \union {b0})
      BY <2>4, <3>1, SubsetSize
    <3> QED BY <3>1, <3>2, <3>3
  <2>7. CASE found
    <3>1. sessions = ActiveSessionCount
      BY <2>7
    <3>2. /\ Cardinality(Counted \ {a}) <= Cardinality(Counted)
          /\ Cardinality(Counted) <= ActiveSessionCount
          /\ Cardinality(Counted) \in Nat /\ ActiveSessionCount \in Nat
      BY CountedAreAdmitted, ActiveIsAdmitted, SubsetSize
    <3> HIDE DEF sessions
    <3> QED BY <2>1, <2>6, <3>1, <3>2, <1>3
  <2>8. CASE ~found
    <3>1. a \in Admitted
      BY <2>8 DEF Admitted, QueueConsistent
    <3>2. /\ IsFiniteSet(Admitted \ {a})
          /\ Cardinality(Admitted \ {a}) = ActiveSessionCount - 1
          /\ ActiveSessionCount \in Nat
      BY <3>1, ActiveIsAdmitted, FS_RemoveElement
    <3>3. Cardinality(Admitted \ {a}) \in Nat
      BY <3>2, FS_CardinalityType
    <3>4. sessions = ActiveSessionCount - 1
      <4>1. ActiveSessionCount # 0
        BY <3>2, <3>3
      <4> QED BY <4>1, <2>8
    <3>5. Cardinality(Counted \ {a}) <= Cardinality(Admitted \ {a})
      <4>1. Counted \ {a} \subseteq Admitted \ {a}
        BY CountedAreAdmitted
      <4> QED BY <4>1, <3>2, SubsetSize
    <3> HIDE DEF sessions, found
    <3> QED BY <2>1, <2>6, <3>2, <3>3, <3>4, <3>5, <1>3
  <2> QED BY <2>7, <2>8
<1> QED BY <1>4, <1>5

\* A step that leaves the limit alone, and no more sessions in than there were
\* or than the limit allows.
LEMMA LimitStays ==
    ASSUME QueueInv, LimitInv, m_playerLimit' = m_playerLimit,
           phase' \in {"add", "sessions"} => phase \in {"add", "sessions"},
           \/ Counted' \subseteq Counted
           \/ phase \in {"add", "sessions"} /\ Cardinality(Counted') <= m_playerLimit
    PROVE  LimitInv'
<1>1. HardLimit \in Int /\ m_playerLimit \in Int
  BY LimitsAssumption DEF QueueInv, TypeOK
<1>2. CASE Counted' \subseteq Counted
  <2>1. Cardinality(Counted') <= Cardinality(Counted) /\ Cardinality(Counted') \in Nat
        /\ Cardinality(Counted) \in Nat
    BY <1>2, CountedAreAdmitted, SubsetSize
  <2> QED BY <1>1, <2>1 DEF LimitInv
<1>3. CASE phase \in {"add", "sessions"} /\ Cardinality(Counted') <= m_playerLimit
  <2>1. IsFiniteSet(Counted')
    <3>1. Counted' \in SUBSET Accounts
      BY DEF Counted, Mapped
    <3> QED BY <3>1, AccountsAssumption, FS_Subset
  <2>2. Cardinality(Counted') \in Nat
    BY <2>1, FS_CardinalityType
  <2> QED BY <1>1, <1>3, <2>2 DEF LimitInv
<1> QED BY <1>2, <1>3

\* The steps after which the same sessions are in, or fewer.
LEMMA LimitQuiet ==
    ASSUME LimitsPositive, RaisesFit, QueueInv, LimitInv,
           \/ \E s \in Sessions : CloseSocket(s)
           \/ \E s \in Sessions, x \in {"none", "world"} : LoadingEnds(s, x)
           \/ \E a \in Accounts : \/ Connect(a) \/ GraceEnds(a) \/ SessionStays(a)
                                  \/ HandlePlayerLoginOpcode(a) \/ SessionLogsOut(a)
                                  \/ SessionDisconnected(a)
           \/ RefuseSession \/ AllSessionsAdded \/ AllSessionsUpdated \/ EndTick
           \/ UNCHANGED vars
    PROVE  LimitInv'
<1>1. /\ UNCHANGED <<m_playerLimit, inQueue, skipped>>
      /\ phase' \in {"add", "sessions"} => phase \in {"add", "sessions"}
  BY DEF CloseSocket, LoadingEnds, Connect, GraceEnds, SessionStays, HandlePlayerLoginOpcode,
         SessionLogsOut, SessionDisconnected, RefuseSession, AllSessionsAdded,
         AllSessionsUpdated, EndTick, vars, queueVars
<1>2. \/ m_sessions' = m_sessions
      \/ \E a \in Accounts : m_sessions' = [m_sessions EXCEPT ![a] = NoSession]
  BY DEF CloseSocket, LoadingEnds, Connect, GraceEnds, SessionStays, HandlePlayerLoginOpcode,
         SessionLogsOut, SessionDisconnected, RefuseSession, AllSessionsAdded,
         AllSessionsUpdated, EndTick, vars
<1>3. Counted' \subseteq Counted
  BY <1>1, <1>2 DEF Counted, Mapped, QueueInv, TypeOK
<1> QED BY <1>1, <1>3, LimitStays

\* The console.
LEMMA LimitSet ==
    ASSUME LimitsPositive, RaisesFit, QueueInv, LimitInv,
           NEW limit \in Limits, SetPlayerLimit(limit)
    PROVE  LimitInv'
<1>1. m_playerLimit' = limit /\ phase' = "cli" /\ Counted' = Counted
  BY DEF SetPlayerLimit, Counted, Mapped, queueVars
<1>2. /\ limit \in Int /\ limit >= 1 /\ HardLimit \in Int /\ LoginPerTick \in Int
      /\ LoginPerTick > 1 => limit >= HardLimit
  BY LimitsAssumption DEF LimitsPositive, RaisesFit
<1>3. Cardinality(Counted) \in Int
  BY CountedAreAdmitted
<1> QED BY <1>1, <1>2, <1>3 DEF LimitInv

\* UpdateSessions lets in the first of the queue.  With one per tick there is
\* a place for it below the hard limit; with more the raised limit has
\* places for them.
LEMMA LimitRaised ==
    ASSUME LimitsPositive, RaisesFit, QueueInv, LimitInv, UpdatePlayerLimit
    PROVE  LimitInv'
<1> DEFINE q      == m_QueuedSessions
           active == ActiveSessionCount
           limit  == IF HardLimit # 0 THEN Least(HardLimit, m_playerLimit) ELSE m_playerLimit
           raised == Least(limit, active) + LoginPerTick
           accept == IF raised > HardLimit THEN 0 ELSE Least(LoginPerTick, Len(q))
           raises == limit >= 0 /\ active < HardLimit /\ LoginPerTick # 0
           letIn  == {owner[q[k]] : k \in 1 .. accept}
<1>1. /\ phase' = "add" /\ UNCHANGED <<owner, m_sessions, skipped>>
      /\ raises => /\ m_playerLimit' = Least(HardLimit, raised)
                   /\ inQueue' = inQueue \ {q[k] : k \in 1 .. accept}
      /\ ~raises => m_playerLimit' = limit /\ inQueue' = inQueue
  BY DEF UpdatePlayerLimit, queueVars
<1>2. /\ HardLimit \in Nat /\ HardLimit >= 1 /\ LoginPerTick \in Nat /\ m_playerLimit \in Int
      /\ Len(q) \in Nat /\ active \in Nat /\ m_playerLimit >= 1
      /\ Cardinality(Counted) \in Nat /\ Cardinality(Counted) <= active
      /\ Cardinality(Counted) <= HardLimit
      /\ LoginPerTick > 1 => Cardinality(Counted) <= m_playerLimit
  BY ActiveIsAdmitted, CountedAreAdmitted, LimitsAssumption
     DEF LimitsPositive, LimitInv, QueueInv, TypeOK
<1> HIDE DEF active
<1>3. /\ limit \in Int /\ 1 <= limit /\ limit <= HardLimit /\ limit <= m_playerLimit
      /\ LoginPerTick > 1 => Cardinality(Counted) <= limit
  BY <1>2 DEF Least
<1> HIDE DEF limit
<1>4. /\ raised \in Int /\ LoginPerTick <= raised
      /\ raised <= active + LoginPerTick
      /\ LoginPerTick > 1 => Cardinality(Counted) + LoginPerTick <= raised
  BY <1>2, <1>3 DEF Least
<1> HIDE DEF raised
<1>5. /\ accept \in 0 .. Len(q) /\ accept <= LoginPerTick
      /\ accept # 0 => raised <= HardLimit
  <2>1. Least(LoginPerTick, Len(q)) \in 0 .. Len(q) /\ Least(LoginPerTick, Len(q)) <= LoginPerTick
    BY <1>2 DEF Least
  <2> QED BY <1>2, <1>4, <2>1
<1> HIDE DEF accept
<1>6. /\ IsFiniteSet(Counted \union letIn)
      /\ Cardinality(Counted \union letIn) \in Nat
      /\ Cardinality(Counted \union letIn) <= Cardinality(Counted) + accept
  <2> DEFINE f == [k \in 1 .. accept |-> owner[q[k]]]
  <2>1. f \in Surjection(1 .. accept, letIn)
    BY DEF Surjection
  <2>2. IsFiniteSet(1 .. accept) /\ Cardinality(1 .. accept) = accept /\ accept \in Nat
    BY <1>2, <1>5, FS_Interval
  <2> HIDE DEF f, letIn
  <2>3. IsFiniteSet(letIn) /\ Cardinality(letIn) <= accept
    BY <2>1, <2>2, FS_Surjection
  <2>4. IsFiniteSet(Counted)
    BY CountedAreAdmitted
  <2>5. Cardinality(letIn) \in Nat /\ Cardinality(Counted \cap letIn) \in Nat
    <3>1. IsFiniteSet(Counted \cap letIn)
      <4>1. Counted \cap letIn \subseteq Counted
        OBVIOUS
      <4> QED BY <4>1, <2>4, SubsetSize
    <3> QED BY <2>3, <3>1, FS_CardinalityType
  <2>6. /\ IsFiniteSet(Counted \union letIn)
        /\ Cardinality(Counted \union letIn) =
             Cardinality(Counted) + Cardinality(letIn) - Cardinality(Counted \cap letIn)
    BY <2>3, <2>4, FS_Union
  <2> QED BY <2>2, <2>3, <2>5, <2>6, <1>2, FS_CardinalityType
<1>7. raises => Counted' \subseteq Counted \union letIn
  <2> SUFFICES ASSUME raises, NEW b \in Counted' PROVE b \in Counted \union letIn
    OBVIOUS
  <2>1. /\ b \in Mapped /\ owner[m_sessions[b]] = b
        /\ m_sessions[b] \notin inQueue' \union skipped
    BY <1>1 DEF Counted, Mapped, QueueInv, SessionsOwned
  <2>2. CASE m_sessions[b] \in inQueue
    <3>1. PICK k \in 1 .. accept : m_sessions[b] = q[k]
      BY <1>1, <2>1, <2>2
    <3> QED BY <2>1, <3>1
  <2>3. CASE m_sessions[b] \notin inQueue
    BY <2>1, <2>3 DEF Counted
  <2> QED BY <2>2, <2>3
<1> HIDE DEF letIn
<1>8. CASE raises
  <2>1. /\ Cardinality(Counted') \in Nat
        /\ Cardinality(Counted') <= Cardinality(Counted) + accept
    <3>1. /\ Cardinality(Counted') \in Nat
          /\ Cardinality(Counted') <= Cardinality(Counted \union letIn)
      BY <1>6, <1>7, <1>8, SubsetSize
    <3> QED BY <3>1, <1>2, <1>5, <1>6
  <2>2. /\ m_playerLimit' \in Int /\ m_playerLimit' <= HardLimit /\ m_playerLimit' <= raised
        /\ m_playerLimit' = HardLimit \/ m_playerLimit' = raised
    BY <1>1, <1>2, <1>4, <1>8 DEF Least
  <2>3. LoginPerTick # 0 /\ active < HardLimit
    BY <1>8
  <2> HIDE DEF raises
  <2>4. m_playerLimit' >= 1
    BY <2>2, <2>3, <1>2, <1>4
  <2>5. Cardinality(Counted') <= HardLimit
    <3>1. CASE accept = 0
      BY <2>1, <3>1, <1>2
    <3>2. CASE accept # 0 /\ LoginPerTick > 1
      BY <2>1, <3>2, <1>2, <1>4, <1>5
    <3>3. CASE accept # 0 /\ ~(LoginPerTick > 1)
      <4>1. accept <= 1
        BY <3>3, <1>2, <1>5
      <4> QED BY <2>1, <2>3, <4>1, <1>2, <1>5
    <3> QED BY <3>1, <3>2, <3>3
  <2>6. LoginPerTick > 1 => Cardinality(Counted') <= m_playerLimit'
    <3> SUFFICES ASSUME LoginPerTick > 1 PROVE Cardinality(Counted') <= m_playerLimit'
      OBVIOUS
    <3>1. Cardinality(Counted') <= raised
      BY <2>1, <1>2, <1>4, <1>5
    <3> QED BY <2>2, <2>5, <3>1
  <2> QED BY <1>1, <2>2, <2>4, <2>5, <2>6 DEF LimitInv
<1>9. CASE ~raises
  <2>1. m_playerLimit' = limit /\ Counted' = Counted
    BY <1>1, <1>9 DEF Counted, Mapped
  <2> QED BY <2>1, <1>1, <1>2, <1>3 DEF LimitInv
<1> QED BY <1>8, <1>9

\* A session that is deleted.
LEMMA LimitRemoved ==
    ASSUME QueueInv, LimitInv, NEW a \in Accounts, SessionRemoved(a)
    PROVE  LimitInv'
<1> DEFINE s == m_sessions[a]
           r == RemoveQueuedSession(s)
           left == {b \in Mapped \ {a} : m_sessions[b] \notin (inQueue \ r.out) \union skipped}
<1>1. /\ phase = "sessions" /\ a \in todo
      /\ UNCHANGED <<phase, m_playerLimit, skipped>>
      /\ m_sessions' = [m_sessions EXCEPT ![a] = NoSession]
      /\ inQueue' = inQueue \ r.out
  BY DEF SessionRemoved
<1>2. a \in Mapped /\ m_playerLimit >= 1
  BY <1>1 DEF QueueInv, TypeOK, LimitInv
<1>3. left \subseteq Counted \/ Cardinality(left) <= m_playerLimit
  BY <1>2, RemovalCounts
<1> HIDE DEF r
<1>4. Counted' = left
  BY <1>1 DEF Counted, Mapped, QueueInv, TypeOK
<1> HIDE DEF left
<1> QED BY <1>1, <1>3, <1>4, LimitStays

\* A session comes: it waits, it skips the queue, or there is a place for it.
LEMMA LimitAdded ==
    ASSUME QueueInv, LimitInv, AddSession
    PROVE  LimitInv'
<1> USE DEF QueueInv
<1> DEFINE s   == Head(addSessQueue)
           a   == owner[s]
           old == m_sessions[a]
           r   == IF old # NoSession THEN RemoveQueuedSession(old)
                  ELSE [found |-> FALSE, queue |-> m_QueuedSessions, out |-> {}]
           count == Cardinality(Mapped \union {a}) - (IF r.found THEN 0 ELSE 1)
           left  == {b \in Mapped \ {a} : m_sessions[b] \notin (inQueue \ r.out) \union skipped}
<1>1. s \in Opened /\ a \in Accounts /\ s # NoSession
  <2>1. addSessQueue \in Seq(Opened) /\ addSessQueue # <<>>
    BY DEF AddSession, TypeOK
  <2> QED BY <2>1, HeadTailProperties, OpenedSessions
<1>2. PICK waits \in BOOLEAN, skips \in BOOLEAN :
          /\ phase = "add" /\ UNCHANGED <<phase, m_playerLimit>>
          /\ m_sessions' = [m_sessions EXCEPT ![a] = s]
          /\ inQueue' = (inQueue \ r.out) \union (IF waits THEN {s} ELSE {})
          /\ skipped' = IF skips THEN skipped \union {s} ELSE skipped
          /\ ~waits /\ ~skips /\ m_playerLimit >= 1 => count < m_playerLimit
  <2> DEFINE logouts == IF old # NoSession /\ character[old] = "world" THEN LogoutNoted(a) ELSE recent
             limit   == IF m_playerLimit >= 0 THEN m_playerLimit ELSE 0
             canSkip == CanSkipQueue(a, logouts)
             w       == limit > 0 /\ count >= limit /\ ~canSkip
             k       == ~w /\ canSkip
  <2>1. /\ phase = "add" /\ UNCHANGED <<phase, m_playerLimit>>
        /\ m_sessions' = [m_sessions EXCEPT ![a] = s]
        /\ inQueue' = (inQueue \ r.out) \union (IF w THEN {s} ELSE {})
        /\ skipped' = IF k THEN skipped \union {s} ELSE skipped
    BY DEF AddSession
  <2>2. IsFiniteSet(Mapped \union {a}) /\ Cardinality(Mapped \union {a}) \in Nat
    BY ActiveIsAdmitted, FS_AddElement, FS_CardinalityType
  <2>3. count \in Int /\ m_playerLimit \in Int
    BY <2>2 DEF TypeOK
  <2> HIDE DEF count, r, canSkip
  <2>4. ~w /\ ~k /\ m_playerLimit >= 1 => count < m_playerLimit
    BY <2>3
  <2>5. w \in BOOLEAN /\ k \in BOOLEAN
    OBVIOUS
  <2> HIDE DEF w, k
  <2> QED BY <2>1, <2>4, <2>5
<1>3. /\ m_playerLimit >= 1 /\ m_playerLimit \in Int /\ HardLimit \in Int
  BY LimitsAssumption DEF LimitInv, TypeOK
<1>4. left \subseteq Counted \/ Cardinality(left) <= m_playerLimit
  <2>1. CASE old # NoSession
    <3>1. a \in Mapped /\ r = RemoveQueuedSession(m_sessions[a])
      BY <1>1, <2>1 DEF Mapped
    <3> HIDE DEF r
    <3> QED BY <1>3, <3>1, RemovalCounts
  <2>2. CASE old = NoSession
    <3>1. r.out = {}
      BY <2>2
    <3> HIDE DEF r
    <3> QED BY <3>1 DEF Counted
  <2> QED BY <2>1, <2>2
<1> HIDE DEF r
<1>5. /\ Mapped' = Mapped \union {a}
      /\ \A b \in Mapped \ {a} : m_sessions'[b] = m_sessions[b]
      /\ m_sessions'[a] = s
  BY <1>1, <1>2 DEF Mapped, TypeOK
<1>6. \A b \in Mapped \ {a} : m_sessions[b] # s \/ b = a
  BY DEF SessionsOwned
<1>7. CASE waits \/ skips
  <2>1. Counted' \subseteq left
    <3> HIDE DEF s, a
    <3> QED BY <1>2, <1>5, <1>7 DEF Counted
  <2>2. Counted' \subseteq Counted \/ Cardinality(Counted') <= m_playerLimit
    <3>1. CASE left \subseteq Counted
      BY <2>1, <3>1
    <3>2. CASE Cardinality(left) <= m_playerLimit
      <4>1. IsFiniteSet(left)
        <5>1. left \subseteq Mapped
          OBVIOUS
        <5> QED BY <5>1, ActiveIsAdmitted, SubsetSize
      <4> HIDE DEF left
      <4>2. /\ Cardinality(Counted') \in Nat /\ Cardinality(left) \in Nat
            /\ Cardinality(Counted') <= Cardinality(left)
        BY <2>1, <4>1, SubsetSize
      <4> QED BY <3>2, <4>2, <1>3
    <3> QED BY <1>4, <3>1, <3>2
  <2> QED BY <1>2, <2>2, LimitStays
<1>8. CASE ~waits /\ ~skips
  <2>1. count < m_playerLimit
    BY <1>2, <1>3, <1>8
  <2>2. IsFiniteSet(Mapped \union {a}) /\ Cardinality(Mapped \union {a}) \in Nat
    BY ActiveIsAdmitted, FS_AddElement, FS_CardinalityType
  <2>3. Cardinality(Mapped \union {a}) <= m_playerLimit
    BY <2>1, <2>2, <1>3
  <2>4. Counted' \subseteq Mapped \union {a}
    BY <1>5 DEF Counted
  <2> HIDE DEF count, a
  <2>5. /\ Cardinality(Counted') \in Nat
        /\ Cardinality(Counted') <= Cardinality(Mapped \union {a})
    BY <2>2, <2>4, SubsetSize
  <2>6. Cardinality(Counted') <= m_playerLimit
    BY <2>2, <2>3, <2>5, <1>3
  <2> QED BY <1>2, <2>6, LimitStays
<1> QED BY <1>7, <1>8

\* Nobody is in in the beginning.
LEMMA InitLimitInv ==
    ASSUME LimitsPositive, RaisesFit, Init
    PROVE  LimitInv
<1>1. Counted = {} /\ m_playerLimit = PlayerLimit /\ phase = "limit"
  BY DEF Init, Counted, Mapped
<1>2. Cardinality(Counted) = 0
  BY <1>1, FS_EmptySet
<1> QED BY <1>1, <1>2, LimitsAssumption DEF LimitInv, LimitsPositive

\* Each step keeps the limits.
LEMMA NextLimitInv ==
    ASSUME LimitsPositive, RaisesFit, QueueInv, LimitInv, [Next]_vars
    PROVE  LimitInv'
<1>1. CASE \/ \E s \in Sessions : CloseSocket(s)
           \/ \E s \in Sessions, x \in {"none", "world"} : LoadingEnds(s, x)
           \/ \E a \in Accounts : \/ Connect(a) \/ GraceEnds(a) \/ SessionStays(a)
                                  \/ HandlePlayerLoginOpcode(a) \/ SessionLogsOut(a)
                                  \/ SessionDisconnected(a)
           \/ RefuseSession \/ AllSessionsAdded \/ AllSessionsUpdated \/ EndTick
           \/ UNCHANGED vars
  BY <1>1, LimitQuiet
<1>2. CASE \E limit \in Limits : SetPlayerLimit(limit)
  BY <1>2, LimitSet
<1>3. CASE UpdatePlayerLimit
  BY <1>3, LimitRaised
<1>4. CASE AddSession
  BY <1>4, LimitAdded
<1>5. CASE \E a \in Accounts : SessionRemoved(a)
  BY <1>5, LimitRemoved
<1> QED BY <1>1, <1>2, <1>3, <1>4, <1>5 DEF Next, UpdateSessions

\* The hard limit is kept, for any number of accounts and sessions, while the
\* limits are positive and the console does not undercut raises of more than
\* one: LoginPerTick lets in, RemoveQueuedSession gives away and AddSession
\* admits no more than there is room for, between them.
THEOREM HardLimitAlwaysKept ==
    ASSUME LimitsPositive, RaisesFit
    PROVE  Spec => []HardLimitKept
<1>1. Init => LimitInv
  BY InitLimitInv
<1>2. QueueInv /\ LimitInv /\ [Next]_vars => LimitInv'
  BY NextLimitInv
<1>3. LimitInv => HardLimitKept
  BY DEF LimitInv, HardLimitKept, Counted
<1> QED BY <1>1, <1>2, <1>3, QueueInvariant, PTL DEF Spec

-----------------------------------------------------------------------------
\* Oldest first.
Increasing(q) == \A k, l \in 1 .. Len(q) : k < l => q[k] < q[l]

\* Who has a session came before those whose session is still to be added, and
\* both queues are in the order in which their sessions came.
AgeInv ==
    /\ Increasing(m_QueuedSessions)
    /\ Increasing(addSessQueue)
    /\ \A a \in Mapped : \A s \in Elements(addSessQueue) : m_sessions[a] < s

\* While sessions are added, somebody waits only if the sessions, counted with
\* those who wait, are more than the limit: so that a newcomer waits too.
FullInv == phase = "add" /\ inQueue # {} => Cardinality(Mapped) > m_playerLimit

LEMMA TailIncreasing ==
    ASSUME NEW S \in SUBSET Int, NEW q \in Seq(S), Increasing(q), q # <<>>
    PROVE  /\ Increasing(Tail(q)) /\ Head(q) \in Elements(q)
           /\ \A x \in Elements(Tail(q)) : Head(q) < x /\ x \in Elements(q)
<1>1. /\ Len(q) \in Nat \ {0} /\ Tail(q) \in Seq(S) /\ Len(Tail(q)) = Len(q) - 1
      /\ Head(q) = q[1]
      /\ \A k \in 1 .. Len(Tail(q)) : Tail(q)[k] = q[k + 1]
  BY HeadTailProperties, EmptySeq, LenProperties
<1>2. \A k \in 1 .. Len(Tail(q)) : k + 1 \in 1 .. Len(q) /\ 1 < k + 1
  BY <1>1
<1>3. Increasing(Tail(q))
  <2> SUFFICES ASSUME NEW k \in 1 .. Len(Tail(q)), NEW l \in 1 .. Len(Tail(q)), k < l
               PROVE  Tail(q)[k] < Tail(q)[l]
    BY DEF Increasing
  <2>1. k + 1 < l + 1
    BY <1>1
  <2>2. q[k + 1] < q[l + 1]
    BY <2>1, <1>2 DEF Increasing
  <2> QED BY <2>2, <1>1
<1>4. Head(q) \in Elements(q)
  BY <1>1 DEF Elements
<1>5. ASSUME NEW x \in Elements(Tail(q)) PROVE Head(q) < x /\ x \in Elements(q)
  <2>1. PICK k \in 1 .. Len(Tail(q)) : x = Tail(q)[k]
    BY DEF Elements
  <2>2. x = q[k + 1] /\ k + 1 \in 1 .. Len(q) /\ 1 \in 1 .. Len(q) /\ 1 < k + 1
    BY <2>1, <1>1, <1>2
  <2> QED BY <2>2, <1>1 DEF Increasing, Elements
<1> QED BY <1>3, <1>4, <1>5

LEMMA SuffixIncreasing ==
    ASSUME NEW S \in SUBSET Int, NEW q \in Seq(S), Increasing(q), NEW n \in 0 .. Len(q)
    PROVE  /\ Increasing(SubSeq(q, n + 1, Len(q)))
           /\ \A x \in Elements(SubSeq(q, n + 1, Len(q))) : \A k \in 1 .. n : q[k] < x
<1> DEFINE r == SubSeq(q, n + 1, Len(q))
<1>1. /\ Len(q) \in Nat /\ Len(r) = Len(q) - n
      /\ \A k \in 1 .. Len(r) : r[k] = q[n + k]
  <2>1. Len(q) \in Nat /\ n \in Nat /\ \A k \in n + 1 .. Len(q) : q[k] \in S
    BY LenProperties, ElementOfSeq
  <2>2. /\ Len(r) = IF n + 1 <= Len(q) THEN Len(q) - (n + 1) + 1 ELSE 0
        /\ \A k \in 1 .. Len(q) - (n + 1) + 1 : r[k] = q[n + 1 + k - 1]
    BY <2>1, SubSeqProperties
  <2>3. Len(r) = Len(q) - n /\ Len(q) - (n + 1) + 1 = Len(q) - n
    BY <2>1, <2>2
  <2> HIDE DEF r
  <2>4. ASSUME NEW k \in 1 .. Len(r) PROVE r[k] = q[n + k]
    <3>1. k \in 1 .. Len(q) - (n + 1) + 1 /\ n + 1 + k - 1 = n + k
      BY <2>1, <2>3
    <3> QED BY <3>1, <2>2
  <2> QED BY <2>1, <2>3, <2>4
<1> HIDE DEF r
<1>2. \A k \in 1 .. Len(r) : n + k \in 1 .. Len(q) /\ n < n + k
  BY <1>1
<1>3. Increasing(r)
  <2> SUFFICES ASSUME NEW k \in 1 .. Len(r), NEW l \in 1 .. Len(r), k < l
               PROVE  r[k] < r[l]
    BY DEF Increasing
  <2>1. n + k < n + l
    BY <1>1
  <2>2. q[n + k] < q[n + l]
    BY <2>1, <1>2 DEF Increasing
  <2> QED BY <2>2, <1>1
<1>4. ASSUME NEW x \in Elements(r), NEW k \in 1 .. n PROVE q[k] < x
  <2>1. PICK l \in 1 .. Len(r) : x = r[l]
    BY DEF Elements
  <2>2. x = q[n + l] /\ n + l \in 1 .. Len(q) /\ k \in 1 .. Len(q) /\ k < n + l
    BY <2>1, <1>1, <1>2
  <2> QED BY <2>2 DEF Increasing
<1> QED BY <1>3, <1>4 DEF r

LEMMA WithoutIncreasing ==
    ASSUME NEW S \in SUBSET Int, NEW q \in Seq(S), Increasing(q), NEW s \in Elements(q)
    PROVE  Increasing(Without(q, s))
<1> DEFINE p == CHOOSE k \in 1 .. Len(q) : q[k] = s
           r == Without(q, s)
<1>1. p \in 1 .. Len(q) /\ q[p] = s
  BY DEF Elements
<1>2. Len(q) \in Nat /\ \A k \in 1 .. Len(q) : q[k] \in S
  BY LenProperties, ElementOfSeq
<1>3. r = [k \in 1 .. Len(q) - 1 |-> IF k < p THEN q[k] ELSE q[k + 1]]
  BY DEF Without
<1> HIDE DEF p, r
<1>4. \A k \in 1 .. Len(q) - 1 : (IF k < p THEN q[k] ELSE q[k + 1]) \in S
  BY <1>1, <1>2
<1>5. Len(q) - 1 \in Nat
  BY <1>1, <1>2
<1>6. Len(r) = Len(q) - 1
  BY <1>3, <1>4, <1>5, SMTT(20)
<1>7. \A k \in 1 .. Len(r) : r[k] = IF k < p THEN q[k] ELSE q[k + 1]
  BY <1>3, <1>6
<1>8. Increasing(r)
  <2> SUFFICES ASSUME NEW k \in 1 .. Len(r), NEW l \in 1 .. Len(r), k < l
               PROVE  r[k] < r[l]
    BY DEF Increasing
  <2> DEFINE i == IF k < p THEN k ELSE k + 1
             j == IF l < p THEN l ELSE l + 1
  <2>1. i \in 1 .. Len(q) /\ j \in 1 .. Len(q) /\ q[i] = r[k] /\ q[j] = r[l] /\ i < j
    BY <1>1, <1>2, <1>6, <1>7
  <2> HIDE DEF i, j
  <2>2. q[i] < q[j]
    BY <2>1 DEF Increasing
  <2> QED BY <2>1, <2>2
<1> QED BY <1>8 DEF r

LEMMA AppendIncreasing ==
    ASSUME NEW S \in SUBSET Int, NEW q \in Seq(S), Increasing(q), NEW s \in S,
           \A x \in Elements(q) : x < s
    PROVE  /\ Increasing(Append(q, s))
           /\ Elements(Append(q, s)) = Elements(q) \union {s}
<1> DEFINE r == Append(q, s)
<1>1. /\ Len(q) \in Nat /\ Len(r) = Len(q) + 1
      /\ \A k \in 1 .. Len(q) : r[k] = q[k]
      /\ r[Len(q) + 1] = s
  BY SMTT(20)
<1> HIDE DEF r
<1>2. \A k \in 1 .. Len(r) : k \in 1 .. Len(q) \/ k = Len(q) + 1
  BY <1>1
<1>3. Increasing(r)
  <2> SUFFICES ASSUME NEW k \in 1 .. Len(r), NEW l \in 1 .. Len(r), k < l
               PROVE  r[k] < r[l]
    BY DEF Increasing
  <2>1. k \in 1 .. Len(q)
    BY <1>1
  <2>2. CASE l \in 1 .. Len(q)
    BY <2>1, <2>2, <1>1 DEF Increasing
  <2>3. CASE l = Len(q) + 1
    <3>1. r[k] \in Elements(q)
      BY <2>1, <1>1 DEF Elements
    <3> QED BY <3>1, <2>3, <1>1
  <2> QED BY <2>2, <2>3, <1>2
<1>4. Elements(r) = Elements(q) \union {s}
  BY <1>1, <1>2 DEF Elements
<1> QED BY <1>3, <1>4 DEF r

\* RemoveQueuedSession lets in the first of those who remain.
LEMMA RemovalInOrder ==
    ASSUME TypeOK, QueueConsistent, Increasing(m_QueuedSessions), NEW s
    PROVE  LET r == RemoveQueuedSession(s) IN
           /\ Increasing(r.queue)
           /\ \A x \in r.out \ {s} : \A t \in Elements(r.queue) : x < t
<1> DEFINE found    == s \in Elements(m_QueuedSessions)
           rest     == IF found THEN Without(m_QueuedSessions, s) ELSE m_QueuedSessions
           sessions == IF found \/ ActiveSessionCount = 0 THEN ActiveSessionCount
                       ELSE ActiveSessionCount - 1
           accept   == /\ Cardinality(Mapped) - Len(rest) < HardLimit
                       /\ m_playerLimit = 0 \/ sessions < m_playerLimit
                       /\ rest # <<>>
           queue    == IF accept THEN Tail(rest) ELSE rest
           gone     == IF found THEN {s} ELSE {}
           taken    == IF accept THEN {Head(rest)} ELSE {}
<1>1. /\ RemoveQueuedSession(s).queue = queue
      /\ RemoveQueuedSession(s).out = gone \union taken
  BY DEF RemoveQueuedSession
<1>2. /\ m_QueuedSessions \in Seq(Opened) /\ Distinct(m_QueuedSessions)
      /\ Opened \in SUBSET Int
  BY DEF TypeOK, QueueConsistent, Opened
<1>3. rest \in Seq(Opened) /\ Increasing(rest)
  <2>1. CASE found
    BY <1>2, <2>1, WithoutOfDistinct, WithoutIncreasing
  <2>2. CASE ~found
    BY <1>2, <2>2
  <2> QED BY <2>1, <2>2
<1>4. gone \subseteq {s}
  OBVIOUS
<1> HIDE DEF rest, gone, sessions
<1>5. accept => rest # <<>>
  OBVIOUS
<1> HIDE DEF accept
<1>6. /\ Increasing(queue)
      /\ \A x \in taken : \A t \in Elements(queue) : x < t
  <2>1. CASE accept
    <3>1. queue = Tail(rest) /\ taken = {Head(rest)}
      BY <2>1
    <3> HIDE DEF queue, taken
    <3> QED BY <3>1, <1>2, <1>3, <1>5, <2>1, TailIncreasing
  <2>2. CASE ~accept
    <3>1. queue = rest /\ taken = {}
      BY <2>2
    <3> HIDE DEF queue, taken
    <3> QED BY <3>1, <1>3
  <2> QED BY <2>1, <2>2
<1> HIDE DEF queue, taken
<1> QED BY <1>1, <1>4, <1>6

\* What NobodyOvertakes says of a step.
InTurn ==
    \A a \in Accounts :
       LET s == m_sessions'[a]
           letIn == /\ s \notin inQueue' \union skipped' \union {NoSession}
                    /\ m_sessions[a] # s \/ s \in inQueue
       IN  letIn => \A t \in Elements(m_QueuedSessions') : s < t

\* The steps that let nobody in: the queue stays, and no session comes.
LEMMA OrderQuiet ==
    ASSUME QueueInv, AgeInv, FullInv,
           \/ \E s \in Sessions : CloseSocket(s)
           \/ \E s \in Sessions, x \in {"none", "world"} : LoadingEnds(s, x)
           \/ \E a \in Accounts : \/ GraceEnds(a) \/ SessionStays(a) \/ HandlePlayerLoginOpcode(a)
                                  \/ SessionLogsOut(a) \/ SessionDisconnected(a)
           \/ AllSessionsAdded \/ AllSessionsUpdated \/ EndTick
           \/ \E limit \in Limits : SetPlayerLimit(limit)
           \/ UNCHANGED vars
    PROVE  AgeInv' /\ FullInv' /\ InTurn
<1>1. /\ UNCHANGED <<m_QueuedSessions, inQueue, skipped, addSessQueue>>
      /\ \/ m_sessions' = m_sessions
         \/ \E a \in Accounts : m_sessions' = [m_sessions EXCEPT ![a] = NoSession]
  BY DEF CloseSocket, LoadingEnds, GraceEnds, SessionStays, HandlePlayerLoginOpcode,
         SessionLogsOut, SessionDisconnected, AllSessionsAdded, AllSessionsUpdated, EndTick,
         SetPlayerLimit, vars, queueVars
<1>2. phase' = "add" => phase = "add" /\ m_sessions' = m_sessions /\ m_playerLimit' = m_playerLimit
  BY DEF CloseSocket, LoadingEnds, GraceEnds, SessionStays, HandlePlayerLoginOpcode,
         SessionLogsOut, SessionDisconnected, AllSessionsAdded, AllSessionsUpdated, EndTick,
         SetPlayerLimit, vars
<1>3. \A a \in Accounts : m_sessions'[a] = m_sessions[a] \/ m_sessions'[a] = NoSession
  BY <1>1 DEF QueueInv, TypeOK
<1>4. AgeInv'
  BY <1>1, <1>3 DEF AgeInv, Increasing, Elements, Mapped
<1>5. FullInv'
  BY <1>1, <1>2 DEF FullInv, Mapped
<1>6. InTurn
  BY <1>1, <1>3 DEF InTurn
<1> QED BY <1>4, <1>5, <1>6

\* A new socket is younger than every session.
LEMMA OrderConnect ==
    ASSUME QueueInv, AgeInv, FullInv, NEW a \in Accounts, Connect(a)
    PROVE  AgeInv' /\ FullInv' /\ InTurn
<1> USE DEF QueueInv
<1> DEFINE n == Len(owner) + 1
<1>1. /\ UNCHANGED <<phase, m_sessions, m_QueuedSessions, inQueue, skipped, m_playerLimit>>
      /\ addSessQueue' = Append(addSessQueue, n)
  <2>1. Len(owner') = Len(owner) + 1
    <3>1. owner \in Seq(Accounts) /\ owner' = Append(owner, a)
      BY DEF Connect, TypeOK
    <3> QED BY <3>1, SMTT(20)
  <2> QED BY <2>1 DEF Connect, queueVars
<1>2. /\ Opened \subseteq 1 .. n /\ n \in 1 .. n /\ 1 .. n \in SUBSET Int
      /\ \A s \in Opened : s < n
  BY OpenedSessions DEF Opened
<1> HIDE DEF n
<1>3. addSessQueue \in Seq(1 .. n) /\ \A s \in Elements(addSessQueue) : s < n
  <2>1. addSessQueue \in Seq(Opened)
    BY DEF TypeOK
  <2> DEFINE S == 1 .. n
  <2>2. addSessQueue \in Seq(S)
    <3>1. Opened \subseteq S
      BY <1>2
    <3> HIDE DEF S
    <3> QED BY <2>1, <3>1, SMTT(20)
  <2>3. \A s \in Elements(addSessQueue) : s \in Opened
    BY <2>1, ElementOfSeq DEF Elements
  <2> QED BY <1>2, <2>2, <2>3
<1>4. /\ Increasing(addSessQueue')
      /\ Elements(addSessQueue') = Elements(addSessQueue) \union {n}
  BY <1>1, <1>2, <1>3, AppendIncreasing DEF AgeInv
<1>5. AgeInv'
  <2>1. Mapped' = Mapped /\ Increasing(m_QueuedSessions')
    BY <1>1 DEF Mapped, AgeInv, Increasing
  <2>2. \A b \in Mapped : m_sessions[b] < n
    BY <1>2, OpenedSessions
  <2>3. \A b \in Mapped : \A s \in Elements(addSessQueue) \union {n} : m_sessions[b] < s
    BY <2>2 DEF AgeInv
  <2> QED BY <1>1, <1>4, <2>1, <2>3 DEF AgeInv
<1>6. FullInv' /\ InTurn
  BY <1>1 DEF FullInv, InTurn, Mapped
<1> QED BY <1>5, <1>6

\* The new session is refused.
LEMMA OrderRefused ==
    ASSUME QueueInv, AgeInv, FullInv, RefuseSession
    PROVE  AgeInv' /\ FullInv' /\ InTurn
<1>1. /\ UNCHANGED <<phase, m_sessions, m_QueuedSessions, inQueue, skipped, m_playerLimit>>
      /\ addSessQueue # <<>> /\ addSessQueue' = Tail(addSessQueue)
  BY DEF RefuseSession, queueVars
<1>2. addSessQueue \in Seq(Opened) /\ Opened \in SUBSET Int
  BY DEF QueueInv, TypeOK, Opened
<1>3. /\ Increasing(addSessQueue')
      /\ \A s \in Elements(addSessQueue') : s \in Elements(addSessQueue)
  BY <1>1, <1>2, TailIncreasing DEF AgeInv
<1>4. Mapped' = Mapped /\ Increasing(m_QueuedSessions')
  BY <1>1 DEF Mapped, AgeInv, Increasing
<1>5. AgeInv'
  BY <1>1, <1>3, <1>4 DEF AgeInv
<1>6. FullInv' /\ InTurn
  BY <1>1 DEF FullInv, InTurn, Mapped
<1> QED BY <1>5, <1>6

\* The first of the queue is let in; if others remain, the sessions are more
\* than the new limit.
LEMMA OrderRaised ==
    ASSUME LimitsPositive, LoginPerTick = 1, QueueInv, LimitInv, AgeInv, UpdatePlayerLimit
    PROVE  AgeInv' /\ FullInv' /\ InTurn
<1> USE DEF QueueInv
<1> DEFINE q      == m_QueuedSessions
           active == ActiveSessionCount
           limit  == IF HardLimit # 0 THEN Least(HardLimit, m_playerLimit) ELSE m_playerLimit
           raised == Least(limit, active) + LoginPerTick
           accept == IF raised > HardLimit THEN 0 ELSE Least(LoginPerTick, Len(q))
           raises == limit >= 0 /\ active < HardLimit /\ LoginPerTick # 0
<1>1. /\ phase' = "add" /\ UNCHANGED <<addSessQueue, m_sessions, skipped>>
      /\ raises => /\ m_playerLimit' = Least(HardLimit, raised)
                   /\ q' = SubSeq(q, accept + 1, Len(q))
                   /\ inQueue' = inQueue \ {q[k] : k \in 1 .. accept}
      /\ ~raises => m_playerLimit' = limit /\ inQueue' = inQueue /\ q' = q
  BY DEF UpdatePlayerLimit, queueVars
<1>2. /\ HardLimit \in Nat /\ HardLimit >= 1 /\ m_playerLimit \in Int
      /\ Len(q) \in Nat /\ active \in Nat /\ m_playerLimit >= 1
      /\ Cardinality(Mapped) = active + Len(q)
  BY ActiveIsAdmitted, LimitsAssumption
     DEF LimitsPositive, LimitInv, QueueInv, TypeOK, ActiveSessionCount
<1>3. q \in Seq(Opened) /\ Opened \in SUBSET Int /\ inQueue = Elements(q)
  BY DEF TypeOK, Opened, QueueConsistent
<1> HIDE DEF active, q
<1>4. limit \in Int /\ 1 <= limit /\ limit <= HardLimit
  BY <1>2 DEF Least
<1> HIDE DEF limit
<1>5. raised \in Int /\ raised <= active + 1
  BY <1>2, <1>4 DEF Least
<1> HIDE DEF raised
<1>6. /\ accept \in 0 .. Len(q)
      /\ raises => accept = 1 \/ Len(q) = 0
  <2>1. /\ Least(1, Len(q)) \in 0 .. Len(q)
        /\ Least(1, Len(q)) = 1 \/ Len(q) = 0
    <3>1. \A n \in Nat : Least(1, n) \in 0 .. n /\ (Least(1, n) = 1 \/ n = 0)
      BY DEF Least
    <3> QED BY <1>2, <3>1
  <2>2. raises => ~(raised > HardLimit)
    BY <1>2, <1>5
  <2> QED BY <1>2, <2>1, <2>2
<1> HIDE DEF accept
<1>7. Mapped' = Mapped
  BY <1>1 DEF Mapped
<1>8. CASE raises
  <2>1. /\ m_playerLimit' = Least(HardLimit, raised)
        /\ q' = SubSeq(q, accept + 1, Len(q))
        /\ inQueue' = inQueue \ {q[k] : k \in 1 .. accept}
    BY <1>1, <1>8
  <2>2. /\ Increasing(q')
        /\ \A x \in Elements(q') : \A k \in 1 .. accept : q[k] < x
    <3>1. Increasing(q)
      BY DEF AgeInv, q
    <3>2. /\ Increasing(SubSeq(q, accept + 1, Len(q)))
          /\ \A x \in Elements(SubSeq(q, accept + 1, Len(q))) : \A k \in 1 .. accept : q[k] < x
      BY <3>1, <1>3, <1>6, SuffixIncreasing
    <3> QED BY <2>1, <3>2
  <2>3. AgeInv'
    BY <1>1, <1>7, <2>2 DEF AgeInv, q
  <2>4. FullInv'
    <3> SUFFICES ASSUME NEW s \in inQueue' PROVE Cardinality(Mapped) > m_playerLimit'
      BY <1>7 DEF FullInv
    <3>1. PICK k \in 1 .. Len(q) : s = q[k]
      BY <1>3, <2>1 DEF Elements
    <3>2. k \notin 1 .. accept
      BY <2>1, <3>1
    <3>3. Len(q) >= 2
      BY <1>2, <1>6, <1>8, <3>1, <3>2
    <3>4. m_playerLimit' <= raised /\ m_playerLimit' \in Int
      BY <1>2, <1>5, <2>1 DEF Least
    <3> QED BY <1>2, <1>5, <3>3, <3>4
  <2>5. InTurn
    <3> SUFFICES ASSUME NEW a \in Accounts, m_sessions'[a] \notin inQueue', m_sessions[a] \in inQueue,
                        NEW t \in Elements(m_QueuedSessions')
                 PROVE  m_sessions'[a] < t
      BY <1>1 DEF InTurn
    <3>1. PICK k \in 1 .. accept : m_sessions[a] = q[k]
      BY <1>1, <2>1
    <3>2. t \in Elements(q')
      BY DEF q
    <3> QED BY <1>1, <2>2, <3>1, <3>2
  <2> QED BY <2>3, <2>4, <2>5
<1>9. CASE ~raises
  <2>1. m_playerLimit' = limit /\ inQueue' = inQueue /\ q' = q
    BY <1>1, <1>9
  <2>2. AgeInv'
    BY <1>1, <1>7, <2>1 DEF AgeInv, Increasing, Elements, q
  <2>3. FullInv'
    <3> SUFFICES ASSUME NEW s \in inQueue' PROVE Cardinality(Mapped) > m_playerLimit'
      BY <1>7 DEF FullInv
    <3>1. Len(q) >= 1
      <4>1. PICK k \in 1 .. Len(q) : s = q[k]
        BY <1>3, <2>1 DEF Elements
      <4> QED BY <4>1, <1>2
    <3>2. active >= HardLimit
      BY <1>2, <1>4, <1>9
    <3> QED BY <1>2, <1>4, <2>1, <3>1, <3>2
  <2>4. InTurn
    BY <1>1, <2>1 DEF InTurn
  <2> QED BY <2>2, <2>3, <2>4
<1> QED BY <1>8, <1>9

\* A session that is deleted: its place is given to the first who waits.
LEMMA OrderRemoved ==
    ASSUME QueueInv, AgeInv, NEW a \in Accounts, SessionRemoved(a)
    PROVE  AgeInv' /\ FullInv' /\ InTurn
<1> USE DEF QueueInv
<1> DEFINE s == m_sessions[a]
           r == RemoveQueuedSession(s)
<1>1. /\ phase' = "sessions" /\ UNCHANGED <<addSessQueue, skipped>>
      /\ m_sessions' = [m_sessions EXCEPT ![a] = NoSession]
      /\ m_QueuedSessions' = r.queue
      /\ inQueue' = inQueue \ r.out
  BY DEF SessionRemoved
<1>2. /\ Increasing(r.queue)
      /\ \A x \in r.out \ {s} : \A t \in Elements(r.queue) : x < t
  BY RemovalInOrder DEF AgeInv
<1> HIDE DEF r
<1>3. /\ Mapped' = Mapped \ {a}
      /\ \A b \in Mapped' : m_sessions'[b] = m_sessions[b]
  BY <1>1 DEF Mapped, TypeOK
<1>4. AgeInv'
  BY <1>1, <1>2, <1>3 DEF AgeInv, Increasing, Elements
<1>5. FullInv'
  BY <1>1 DEF FullInv
<1>6. InTurn
  <2> SUFFICES ASSUME NEW b \in Accounts, m_sessions'[b] \notin inQueue' \union {NoSession},
                      m_sessions[b] # m_sessions'[b] \/ m_sessions'[b] \in inQueue,
                      NEW t \in Elements(m_QueuedSessions')
               PROVE  m_sessions'[b] < t
    BY DEF InTurn
  <2>1. b \in Mapped' /\ b # a /\ m_sessions'[b] = m_sessions[b]
    BY <1>1, <1>3 DEF Mapped, TypeOK
  <2>2. m_sessions[b] # s
    <3>1. a \in Mapped
      BY DEF SessionRemoved, TypeOK
    <3> QED BY <1>3, <2>1, <3>1 DEF SessionsOwned
  <2>3. m_sessions[b] \in r.out \ {s}
    BY <1>1, <2>1, <2>2
  <2> QED BY <1>1, <1>2, <2>1, <2>3
<1> QED BY <1>4, <1>5, <1>6

\* A session comes.  If it need not wait, nobody does: the sessions, with those
\* who wait, would be more than the limit.
LEMMA OrderAdded ==
    ASSUME QueueInv, LimitInv, AgeInv, FullInv, AddSession
    PROVE  AgeInv' /\ FullInv' /\ InTurn
<1> USE DEF QueueInv
<1> DEFINE s   == Head(addSessQueue)
           a   == owner[s]
           old == m_sessions[a]
           r   == IF old # NoSession THEN RemoveQueuedSession(old)
                  ELSE [found |-> FALSE, queue |-> m_QueuedSessions, out |-> {}]
           count == Cardinality(Mapped \union {a}) - (IF r.found THEN 0 ELSE 1)
<1>1. /\ s \in Opened /\ a \in Accounts /\ s # NoSession /\ s \in Int
      /\ Increasing(addSessQueue')
      /\ \A t \in Elements(addSessQueue') : s < t /\ t \in Elements(addSessQueue)
      /\ s \in Elements(addSessQueue)
  <2>1. /\ addSessQueue \in Seq(Opened) /\ addSessQueue # <<>>
        /\ addSessQueue' = Tail(addSessQueue)
    BY DEF AddSession, TypeOK
  <2>2. Opened \in SUBSET Int
    BY DEF Opened
  <2>3. s \in Opened /\ a \in Accounts /\ s # NoSession /\ s \in Int
    BY <2>1, <2>2, HeadTailProperties, OpenedSessions
  <2>4. Increasing(addSessQueue)
    BY DEF AgeInv
  <2> QED BY <2>1, <2>2, <2>3, <2>4, TailIncreasing
<1>2. PICK waits \in BOOLEAN, skips \in BOOLEAN :
          /\ phase = "add" /\ UNCHANGED <<phase, m_playerLimit>>
          /\ m_sessions' = [m_sessions EXCEPT ![a] = s]
          /\ m_QueuedSessions' = IF waits THEN Append(r.queue, s) ELSE r.queue
          /\ inQueue' = (inQueue \ r.out) \union (IF waits THEN {s} ELSE {})
          /\ skipped' = IF skips THEN skipped \union {s} ELSE skipped
          /\ ~waits /\ ~skips /\ m_playerLimit >= 1 => count < m_playerLimit
          /\ waits /\ m_playerLimit >= 1 => count >= m_playerLimit
  <2> DEFINE logouts == IF old # NoSession /\ character[old] = "world" THEN LogoutNoted(a) ELSE recent
             limit   == IF m_playerLimit >= 0 THEN m_playerLimit ELSE 0
             canSkip == CanSkipQueue(a, logouts)
             w       == limit > 0 /\ count >= limit /\ ~canSkip
             k       == ~w /\ canSkip
  <2>1. /\ phase = "add" /\ UNCHANGED <<phase, m_playerLimit>>
        /\ m_sessions' = [m_sessions EXCEPT ![a] = s]
        /\ m_QueuedSessions' = IF w THEN Append(r.queue, s) ELSE r.queue
        /\ inQueue' = (inQueue \ r.out) \union (IF w THEN {s} ELSE {})
        /\ skipped' = IF k THEN skipped \union {s} ELSE skipped
    BY DEF AddSession
  <2>2. IsFiniteSet(Mapped \union {a}) /\ Cardinality(Mapped \union {a}) \in Nat
    BY ActiveIsAdmitted, FS_AddElement, FS_CardinalityType
  <2>3. count \in Int /\ m_playerLimit \in Int
    BY <2>2 DEF TypeOK
  <2> HIDE DEF count, r, canSkip
  <2>4. /\ ~w /\ ~k /\ m_playerLimit >= 1 => count < m_playerLimit
        /\ w /\ m_playerLimit >= 1 => count >= m_playerLimit
    BY <2>3
  <2>5. w \in BOOLEAN /\ k \in BOOLEAN
    OBVIOUS
  <2> HIDE DEF w, k
  <2> QED BY <2>1, <2>4, <2>5
<1>3. m_playerLimit >= 1 /\ m_playerLimit \in Int
  BY DEF LimitInv, TypeOK
<1>4. /\ r.queue \in Seq(Opened) /\ Increasing(r.queue)
      /\ Elements(r.queue) = inQueue \ r.out
      /\ \A x \in r.out \ {old} : \A t \in Elements(r.queue) : x < t
  <2>1. CASE old # NoSession
    <3>1. r = RemoveQueuedSession(old)
      BY <2>1
    <3>2. /\ Increasing(r.queue)
          /\ \A x \in r.out \ {old} : \A t \in Elements(r.queue) : x < t
      BY <3>1, RemovalInOrder DEF AgeInv
    <3>3. r.queue \in Seq(Opened) /\ Elements(r.queue) = Elements(m_QueuedSessions) \ r.out
      BY <3>1, Removal
    <3> HIDE DEF r
    <3> QED BY <3>2, <3>3 DEF QueueConsistent
  <2>2. CASE old = NoSession
    <3>1. r = [found |-> FALSE, queue |-> m_QueuedSessions, out |-> {}]
      BY <2>2
    <3>2. r.queue = m_QueuedSessions /\ r.out = {}
      BY <3>1
    <3> HIDE DEF r
    <3> QED BY <3>2 DEF QueueConsistent, TypeOK, AgeInv
  <2> QED BY <2>1, <2>2
<1>5. /\ r.found \in BOOLEAN
      /\ r.found => a \in Mapped /\ inQueue # {}
  <2>1. CASE old # NoSession
    <3>1. r.found <=> old \in Elements(m_QueuedSessions)
      BY <2>1 DEF RemoveQueuedSession
    <3>2. r.found \in BOOLEAN
      BY <2>1, Removal
    <3> HIDE DEF r
    <3> QED BY <1>1, <2>1, <3>1, <3>2 DEF QueueConsistent, Mapped
  <2>2. CASE old = NoSession
    <3>1. r = [found |-> FALSE, queue |-> m_QueuedSessions, out |-> {}]
      BY <2>2
    <3>2. r.found = FALSE
      BY <3>1
    <3> HIDE DEF r
    <3> QED BY <3>2
  <2> QED BY <2>1, <2>2
<1> HIDE DEF r
<1>6. /\ Mapped' = Mapped \union {a}
      /\ \A b \in Accounts \ {a} : m_sessions'[b] = m_sessions[b]
      /\ m_sessions'[a] = s
  BY <1>1, <1>2 DEF Mapped, TypeOK
<1>7. \A t \in Elements(r.queue) : t < s
  <2> SUFFICES ASSUME NEW t \in Elements(r.queue) PROVE t < s
    OBVIOUS
  <2>1. t \in Elements(m_QueuedSessions) /\ t \in Opened
    <3>1. t \in inQueue
      BY <1>4
    <3> QED BY <3>1 DEF QueueConsistent, TypeOK
  <2>2. m_sessions[owner[t]] = t /\ owner[t] \in Mapped
    BY <2>1, OpenedSessions DEF QueueConsistent, Waiting, Mapped
  <2> QED BY <1>1, <2>2 DEF AgeInv
<1>8. /\ Increasing(m_QueuedSessions')
      /\ Elements(m_QueuedSessions') = Elements(r.queue) \union (IF waits THEN {s} ELSE {})
  <2>1. CASE waits
    <3>1. Opened \in SUBSET Int
      BY DEF Opened
    <3> HIDE DEF s
    <3>2. /\ Increasing(Append(r.queue, s))
          /\ Elements(Append(r.queue, s)) = Elements(r.queue) \union {s}
      BY <1>1, <1>4, <1>7, <3>1, AppendIncreasing
    <3> QED BY <1>2, <2>1, <3>2
  <2>2. CASE ~waits
    BY <1>2, <1>4, <2>2
  <2> QED BY <2>1, <2>2
<1>9. AgeInv'
  <2> SUFFICES ASSUME NEW b \in Mapped', NEW t \in Elements(addSessQueue')
               PROVE  m_sessions'[b] < t
    BY <1>1, <1>8 DEF AgeInv
  <2>1. CASE b = a
    BY <1>1, <1>6, <2>1
  <2>2. CASE b # a
    <3>1. b \in Mapped /\ m_sessions'[b] = m_sessions[b]
      BY <1>6, <2>2 DEF Mapped
    <3> QED BY <1>1, <3>1 DEF AgeInv
  <2> QED BY <2>1, <2>2
<1>10. /\ IsFiniteSet(Mapped \union {a})
       /\ Cardinality(Mapped \union {a}) \in Nat /\ Cardinality(Mapped) \in Nat
       /\ Cardinality(Mapped) <= Cardinality(Mapped \union {a})
  <2>1. IsFiniteSet(Mapped \union {a})
    BY ActiveIsAdmitted, FS_AddElement
  <2>2. Mapped \subseteq Mapped \union {a}
    OBVIOUS
  <2> HIDE DEF a
  <2> QED BY <2>1, <2>2, SubsetSize
<1>11. FullInv'
  <2> SUFFICES ASSUME inQueue' # {} PROVE Cardinality(Mapped \union {a}) > m_playerLimit
    BY <1>2, <1>6 DEF FullInv
  <2>1. CASE inQueue # {}
    <3>1. Cardinality(Mapped) > m_playerLimit
      BY <1>2, <2>1 DEF FullInv
    <3> HIDE DEF a
    <3> QED BY <1>3, <1>10, <3>1
  <2>2. CASE inQueue = {}
    <3>1. waits /\ ~r.found
      BY <1>2, <1>5, <2>2
    <3>2. count = Cardinality(Mapped \union {a}) - 1 /\ count >= m_playerLimit
      BY <1>2, <1>3, <3>1
    <3> HIDE DEF a, count
    <3> QED BY <1>3, <1>10, <3>2
  <2> QED BY <2>1, <2>2
<1>12. ~waits /\ ~skips => Elements(m_QueuedSessions') = {}
  <2> SUFFICES ASSUME ~waits, ~skips, inQueue # {} PROVE FALSE
    BY <1>4, <1>8
  <2>1. count < m_playerLimit /\ Cardinality(Mapped) > m_playerLimit
    BY <1>2, <1>3 DEF FullInv
  <2>2. CASE r.found
    <3>1. Mapped \union {a} = Mapped
      BY <1>5, <2>2
    <3>2. count = Cardinality(Mapped)
      <4>1. count = Cardinality(Mapped \union {a}) - 0
        BY <2>2
      <4> HIDE DEF a, count
      <4> QED BY <1>10, <3>1, <4>1
    <3> HIDE DEF a, count
    <3> QED BY <1>3, <1>10, <2>1, <3>2
  <2>3. CASE ~r.found
    <3>1. count = Cardinality(Mapped \union {a}) - 1
      BY <2>3
    <3> HIDE DEF a, count
    <3> QED BY <1>3, <1>10, <2>1, <3>1
  <2> QED BY <2>2, <2>3
<1>13. InTurn
  <2> SUFFICES ASSUME NEW b \in Accounts,
                      m_sessions'[b] \notin inQueue' \union skipped' \union {NoSession},
                      m_sessions[b] # m_sessions'[b] \/ m_sessions'[b] \in inQueue,
                      NEW t \in Elements(m_QueuedSessions')
               PROVE  m_sessions'[b] < t
    BY DEF InTurn
  <2>1. CASE b = a
    <3>1. ~waits /\ ~skips
      <4> HIDE DEF s, a
      <4> QED BY <1>2, <1>6, <2>1
    <3> QED BY <1>12, <3>1
  <2>2. CASE b # a
    <3>1. m_sessions'[b] = m_sessions[b] /\ b \in Mapped
      BY <1>6, <2>2 DEF Mapped
    <3>2. m_sessions[b] # old
      <4>1. CASE old = NoSession
        BY <3>1, <4>1 DEF Mapped
      <4>2. CASE old # NoSession
        <5>1. a \in Mapped
          BY <1>1, <4>2 DEF Mapped
        <5>2. owner[m_sessions[b]] = b /\ owner[m_sessions[a]] = a
          BY <3>1, <5>1 DEF SessionsOwned
        <5> HIDE DEF a
        <5> QED BY <2>2, <5>2
      <4> QED BY <4>1, <4>2
    <3>3. m_sessions[b] \in r.out \ {old}
      BY <1>2, <3>1, <3>2
    <3>4. m_sessions[b] < s
      BY <1>1, <3>1 DEF AgeInv
    <3>5. t \in Elements(r.queue) \/ t = s
      BY <1>8
    <3> QED BY <1>4, <3>1, <3>3, <3>4, <3>5
  <2> QED BY <2>1, <2>2
<1> QED BY <1>9, <1>11, <1>13

\* Each step keeps the order, and lets in whose turn it is.
LEMMA NextOrder ==
    ASSUME LimitsPositive, LoginPerTick = 1, QueueInv, LimitInv, AgeInv, FullInv, [Next]_vars
    PROVE  AgeInv' /\ FullInv' /\ InTurn
<1>1. CASE \/ \E s \in Sessions : CloseSocket(s)
           \/ \E s \in Sessions, x \in {"none", "world"} : LoadingEnds(s, x)
           \/ \E a \in Accounts : \/ GraceEnds(a) \/ SessionStays(a) \/ HandlePlayerLoginOpcode(a)
                                  \/ SessionLogsOut(a) \/ SessionDisconnected(a)
           \/ AllSessionsAdded \/ AllSessionsUpdated \/ EndTick
           \/ \E limit \in Limits : SetPlayerLimit(limit)
           \/ UNCHANGED vars
  BY <1>1, OrderQuiet
<1>2. CASE \E a \in Accounts : Connect(a)
  BY <1>2, OrderConnect
<1>3. CASE RefuseSession
  BY <1>3, OrderRefused
<1>4. CASE UpdatePlayerLimit
  BY <1>4, OrderRaised
<1>5. CASE \E a \in Accounts : SessionRemoved(a)
  BY <1>5, OrderRemoved
<1>6. CASE AddSession
  BY <1>6, OrderAdded
<1> QED BY <1>1, <1>2, <1>3, <1>4, <1>5, <1>6 DEF Next, UpdateSessions

LEMMA InitOrder == Init => AgeInv /\ FullInv
<1> SUFFICES ASSUME Init PROVE AgeInv /\ FullInv
  OBVIOUS
<1>1. /\ m_QueuedSessions = <<>> /\ addSessQueue = <<>> /\ phase = "limit" /\ Mapped = {}
  BY DEF Init, Mapped
<1>2. Len(m_QueuedSessions) = 0 /\ Len(addSessQueue) = 0
  BY <1>1
<1> QED BY <1>1, <1>2 DEF AgeInv, FullInv, Increasing

\* With one session per tick and positive limits nobody overtakes who waits,
\* for any number of accounts and sessions: the queue is in the order of
\* arrival, its places are given away from its head, and while somebody waits
\* there are too many sessions for a newcomer not to.
THEOREM NobodyEverOvertakes ==
    ASSUME LimitsPositive, LoginPerTick = 1
    PROVE  Spec => NobodyOvertakes
<1> DEFINE Inv == QueueInv /\ LimitInv /\ AgeInv /\ FullInv
<1>1. RaisesFit
  BY DEF RaisesFit
<1>2. Init => Inv
  BY <1>1, InitQueueInv, InitLimitInv, InitOrder
<1>3. Inv /\ [Next]_vars => Inv'
  BY <1>1, NextQueueInv, NextLimitInv, NextOrder
<1>4. Inv /\ [Next]_vars => [InTurn]_vars
  BY NextOrder
<1>5. Spec => [][InTurn]_vars
  <2> HIDE DEF Inv
  <2> QED BY <1>2, <1>3, <1>4, PTL DEF Spec
<1> QED BY <1>5 DEF NobodyOvertakes, InTurn
=============================================================================
