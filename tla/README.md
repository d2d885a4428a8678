# A verification project for the server core

This directory holds TLA+ models of parts of the MaNGOS-derived game server in this repository (`mangosd`,
the world server, and the libraries below it), the TLC configurations that check them on small instances,
and theorems about them with proofs that TLAPS checks. Every definition is translated from the C++ sources;
`PROJECT.json` ("map") names the lines behind each one.

    tlc -workers 2 -config MCAsyncDatabase.cfg MCAsyncDatabase     one of the runs
    tlapm AsyncDatabase_proofs.tla                                 proofs; the theorems about module X are in X_proofs, except that
                                                                   SqlOperations_proofs is about SqlTransaction and SqlResultQueue

## 1. The system and its parts

Two programs: `realmd` authenticates accounts and lists realms, `mangosd` runs one world. Inside `mangosd` the
threads are

* the **world thread** (`WorldRunnable`), which calls `World::Update` in a loop: auctions, sessions, maps,
  battlegrounds, groups, then the callbacks of asynchronous queries;
* **map threads** (pools of `MapManager` and `Map`) that run inside `MapManager::Update` while the world thread waits;
* **network threads** (ACE reactors) that own the sockets and push packets on the queues of a `WorldSession`;
* **database workers** (`SqlDelayThread`), one to many per database, that run asynchronous SQL;
* **broadcaster threads** (`PacketBroadcast`), a freeze detector, CLI, RA and SOAP consoles.

| part | state it keeps | operations | what makes it correct | status |
|---|---|---|---|---|
| `shared/Database` queues | a shared delay queue, a serial queue per worker, a transaction per thread, the result queue | Execute, Begin/Commit/Rollback, AsyncQuery, DelayQueryHolder, the worker loop, StopServer | nothing lost, nothing twice, order per serial id, shutdown drains | `AsyncDatabase`, `SerialExecution` |
| `SqlOperations`, `DatabaseMysql` | the statements of a transaction, a connection, the server's session | SqlTransaction::Execute, retry and reconnect | all or nothing, truthful results, order | `SqlTransaction` |
| `SqlResultQueue` | callbacks, the "unsafe" ones apart, a pool of 6 threads | Update, CancelAll | each callback once and in order, none outside Update, none left at shutdown | `SqlResultQueue` over `TaskBatch` |
| `ThreadPool` | status, workload, index, active count, promise | operator<<, processWorkload, wait, destroy | each task once, wait returns when all ran, no missed wake-up | `ThreadPool`, `TaskBatch` |
| login queue (`World`) | sessions, queued sessions, limits | AddSession_, RemoveQueuedSession, UpdateSessions | no deleted session in the queue, the limit is kept, nobody overtakes, room admits (one log-in per tick, positive limits) | `LoginQueue` |
| `WorldSession`, character login | session state, player, disconnected sessions | login holder, callback, log out, kick, lost socket, shutdown | one owner per character, saved when it leaves, loads the last save, nobody lost between two maps, no account locked out | `CharacterLogin`, `FarTeleports` |
| map updates | continents finished, scheduled teleports and switches | Update, DoUpdate, far teleports | barrier releases all, nobody teleported in mid update, nothing stays scheduled | `MapUpdate` |
| packet broadcast | a queue and listeners per player | QueuePacket, ProcessQueue, listeners | no deadlock, order per sender | planned; off by default |
| battleground queue | groups queued, invitations and their timed events, places | join, update, invite, enter, time out, leave, log out | places are counted, every invitation ends, free places are offered | `BattleGroundQueue` |
| LFG | groups and players in lists | join, leave, round | one thread, in rounds | planned |
| groups and loot rolls | votes, rolls | vote, time out, award | each item awarded once | planned |
| trade | a window, an acceptance and a time per side | start, offer, accept, take back, cancel, exchange | what was accepted is what changes hands, whole or not at all | `Trade` |
| auction, mail | items and money between players and tables | bid, expire, send, take | nothing duplicated or lost | planned |
| `realmd` AuthSocket | protocol state | challenge, proof, reconnect, realm list | no command before its state | planned |
| guilds, accounts, social lists | registries mirrored in tables | - | - | not modelled: one thread, no protocol |
| objects, spells, AI, scripts, movement, threat | game rules | - | - | not modelled: large numerical data |
| pools, events, weather, transports, honor, tickets | timers | - | - | not modelled: one thread, driven by data |
| Warden, anticheat | checks and heuristics | - | - | not modelled, Warden's states may follow |
| configuration, logs, consoles, chat, vmap, mmap | - | - | - | not modelled: I/O, formatting, geometry |

`dep/`, `contrib/` and `sql/` are vendored code, tools and data and are left out.

**How the parts meet.** Everything that is saved goes through `Database`: game code opens a transaction with the
GUID of the player as serial id, and the commit goes to the serial queue of one worker. A log-in is a query holder
with the same serial id; its callback comes back through `SqlResultQueue`, which the world thread empties at the end
of `World::Update`. `World`, `MapManager`, `Map` and `SqlResultQueue` share work out with `ThreadPool` and wait for
the future. `Master` starts all of it and, when the world thread has ended, stops the databases.

**What is hard**: races for the queues, the order of saves and loads, work queued while a thread stops, connections
lost in the middle of a transaction, wake-ups of the pool, exceptions in tasks, and above these the protocols of
sessions, maps and battlegrounds. `PROJECT.json` ("hazards") lists them with their lines.

## 2. The modules

### AsyncDatabase, SerialExecution - `Database.cpp`, `SqlDelayThread.cpp`

An operation is its number; `issued[i]` keeps its kind, its serial id and the queue it went to (`direct`: executed
by the caller). Clients (`Threads`) run `Execute`, `DirectExecute`, `BeginTransaction`, `CommitTransaction`,
`RollbackTransaction`, `AsyncQuery`, `DelayQueryHolder`, `ProcessResultQueue`. `RouteOf` is `AddToSerialDelayQueue`'s
decision. A worker is one of `LoopTest`, `NextDelayedOperation` (shared queue), `NextSerialOperation` (its own queue)
and `ExecuteOperation`; taking an operation and executing it are separate steps, because the lock of `LockedQueue`
covers only the first. `StopServer` is cut where other threads can come between: stop flags one by one, joins one by
one, then the destructors of the bodies, each running `ProcessRequests` again in the stopping thread (the model lets
the worker's own steps do it, in phase `destroy`), then `CancelAll`.

`SerialExecution` is the promise to callers that use serial ids: the operations of one id stand in a line of their own and the first
of the line is executed, each once. `ImplementsSerialExecution` maps the line of an id to its operations that are not done, wherever they are
(one of the queues, or a worker's hand); direct operations are the caller's own and stand in no line.

Left out: what a statement says and whether it succeeds (the workers ignore the result of `Execute`; the next module
has it), the ping, the synchronous connections, `Initialize` that fails half way. `m_running` is a plain `volatile
bool`; the model reads and writes it atomically, as every supported platform does.

### SqlTransaction - `SqlOperations.cpp`, `DatabaseMysql.cpp`

One client thread, one worker, one connection, one server. `handle` says whether `mMysql` is non-null, `link` whether the
server still knows the session, `inTx`/`pending` what the session has changed and not committed, `durable` what the
tables contain. The worker walks through `SqlTransaction::Execute` (`begin`, `statement`, `commit` or `rollback`);
the server may refuse a statement, roll back on a deadlock, drop the session between any two steps, or drop it after
it ran the statement and before the answer. Plain statements reconnect and retry (`HandleMySQLError`), prepared ones
fail; `_TransactionCmd` uses the handle without looking at it (`Crash`). The server's part is external: it is modelled
from what the client code relies on (autocommit on, a transaction ends with its session).

### ThreadPool, TaskBatch - `ThreadPool.cpp`, `ThreadPool.h`

`TaskBatch` is the promise: a batch is submitted, its tasks run once each, the owner goes on when none is left.
`ThreadPool` is the code: the owner adds tasks, publishes (status and counters before the lock, `busy` flags and
`notify_all` under it: two steps), waits, destroys; a worker tests for work and waits in one step under the lock,
fetches an index (shared for `worker_sq`, its own stride for `worker_mq`), runs or throws, clears `busy`, decrements
`m_active`, and the last one makes the pool ready and then fulfils the promise. `m_status`, `m_workload` and `busy`
are not atomic in the code; the model takes single reads and writes of them in some order (sequential consistency).
`WorkloadNotShared` shows why `m_workload` needs no lock: owner and workers are never at it together.
The owner keeps to the order that every caller in the program keeps to (no second workload before the wait).
`ClearMode::NEVER` and `Status::ERROR` are used nowhere and are left out, as are the `pre` and `post` hooks.

### SqlResultQueue - `SqlOperations.cpp`

`AddCallback` is the end of `SqlQuery::Execute` in a worker. The world thread's `Update` is cut into `BeginUpdate`, `Route`
(first loop, one callback each, so that workers come in between), `ProcessWorkload`, `RunUnsafe` (second loop; whether the time
is up is an arbitrary choice, allowed only with a time-out), `NoUnsafeLeft` and `EndUpdate` (`job.wait()`); `m_callbackThreads` is an instance
of `TaskBatch`, which `ThreadPool` is shown to implement. `StopServer`, `CancelNext` and `Close` are `CancelAll` and
the end of the queue. Left out: what callbacks do, except that they may take any time.

### CharacterLogin - `World.cpp`, `WorldSession.cpp`, `CharacterHandler.cpp`

All sessions that one account ever opens, numbered in that order, and its characters. The world thread goes through the phases
of `World::Update` that matter: new sessions (`AddSession_`), the account's session (packets, then one of log-out, closed socket, idle kick or
nothing), the disconnected sessions, the maps, the callbacks. `current` is `m_sessions[account]`, `disconnected` is
`m_disconnectedSessions`, `player` and `session` are the two pointers between `WorldSession` and `Player`, `place` is what
`IsInWorld` and `IsBeingTeleportedFar` say. `LogoutPlayers` is the whole of `LogoutPlayer`, called for a set because the
disconnected sessions are updated in one loop. A character's data are a version number: playing increments it, `Save` and `Load`
operations go to `dbQueue[c]`, which is first in, first out - a line of `SerialExecution`, which `AsyncDatabase` is
proved to implement. A load ends as a callback, which finds whatever session the account then has.

Sockets close at any time; the world may be stopped at any time, and then the last `UpdateSessions` of `World::Shutdown` runs.
A far teleport leaves the character outside of every map until the client answers, and the map may refuse it, which puts it on the way to another
one. Here a log-out ends in a map, where the character is saved, from wherever it begins: that this is so is what `FarTeleports` shows.
Left out: other accounts, the population limit, bots, the master player (chat identity), and the packets of playing.

### FarTeleports - `Player.cpp`, `MovementHandler.cpp`, `WorldSession.cpp`, `MapManager.cpp`

One character, the continents, which refuse nobody, and dungeons, which may refuse it for what the dungeon is at (`admitting`: full, in
combat, being reset) or for what its group is (`permitted`); both change at any time but inside of `LogoutPlayer`. `TeleportTo` schedules the teleport
during the update of the maps (`EndMaps` executes it, if it is still allowed) and executes it at once otherwise. `MoveWorldportAck` is
`HandleMoveWorldportAckOpcode`: the character arrives, or is sent back to where `m_mapId` says it was before, or, when that is refused too, to
its home. `LogoutPlayer` is three actions: `BeginLogout` (home, if the instance is not valid), `FinishTransfer`, one round of the loop that finishes
teleports, and `EndLogout`, which saves who is in a map and nobody else. The home is on a continent (`_LoadHomeBind` accepts no other).
Left out: battlegrounds, game masters, coordinates that are not valid, corpses and transports.

### LoginQueue - `World.cpp`, `WorldSession.cpp`

Sessions are numbered in the order in which they come to `addSessQueue`; `owner` is the account of each. `UpdateSessions` is cut
into the phases `limit` (the player limit is set anew and the first of the queue are accepted), `add` (`AddSession_`, one new session
per step), `sessions` (each session of `m_sessions` in any order: packets, then what ends it) and `cli` (callbacks and console). Sockets open and close
between any two steps. `RemoveQueuedSession` is an operator on the state, because `AddSession` and `SessionRemoved` both call it in their
middle; it keeps the code's comparison of a count that includes the leaving session with the hard limit. `recent` is
`m_accountsLastLogout`, reduced to who is within the grace period. A session that loses its socket with a character in the world leaves this
module; what becomes of it is in `CharacterLogin`. Bots and the shutdown are left out.

### MapUpdate - `MapManager.cpp`, `Map.cpp`, `Player.cpp`

The world thread goes through `MapManager::Update` (`switch`, `submit`, `instances`, `decide`, `continents`), each continent and each
instance is a task of a pool. The world thread waits for a round of the instances as `TaskBatch` says, which `ThreadPool` is shown to implement. A continent's task marks itself finished and waits for the other
continents (`MarkContinentUpdateFinished`), then rests while the world thread decides whether the instances get another round. Players schedule far
teleports and switches between the parts of a continent from the threads of their maps; the world thread executes them outside of the
update, or at its beginning, and a player may log out before. Parts of continents exist only with `Continents.Instanciate`.
Left out: what a map does with its objects, and the threads that a map starts for its own cells and relocations.

### Trade - `TradeHandler.cpp`, `Player.cpp`

A `TradeData` per player, with the setters of the source (`SetItem` takes back spells and both acceptances), and the handlers.
`HandleAcceptTradeOpcode` is one action per early return, in the order of the code, and `CompleteTrade`, whose `moveItems` goes
slot by slot as the code does, with the place that is left in each bag. An item is in somebody's inventory or in nobody's; between two packets it may be used up,
sold or found, without a look at the window. The scam prevention delay of 200 ms is compared in whole seconds, so it is one flag,
`recent`, that the next second clears. The handlers of two players who trade run in one map's thread, one after the other.

### BattleGroundQueue - `BattleGroundMgr.cpp`, `BattleGround.cpp`, `BattleGroundHandler.cpp`, `Player.cpp`

The queue of one type and bracket of battlegrounds. Groups are numbered in the order in which they join, which is their order in the
queue; `groupInfo`, `invitedTo`, `removeInviteTime` and `offline` are `m_QueuedPlayers` and `GroupQueueInfo`, `slot` is the player's side of it
(`m_bgBattleGroundQueueID`), `events` are the `BGQueueRemoveEvent`s, which go with a player that logs out. The clock is the number of
groups that have joined: what is compared with it is only whether a player's invitation is still the one that the event was made for.
`BattleGroundQueue::Update` is cut into `BeginUpdate` (those offline too long), one `FillPlayersToBG` for each battleground with free slots,
and `CreateNewBattleGround` or `NoMatch`; `Selected` is how `SelectionPool::AddGroup` collects the groups of a team. A battleground is
`running` (waiting to start or in progress), in `leave` after its end, or `deleted`. `CMSG_BATTLEFIELD_PORT` is handled by the world thread,
so the teleport of `EnterBattleGround` is executed at once; the player arrives with `WorldportAck`. `place` is the map of a battleground (its number),
any other map (`World`), between two maps (`Far`) or `Offline`; `members` is `m_Players`.

A player who logs out on the way (`LogoutOnTheWay`) is not found by `RemovePlayerAtLeave`, which looks only in the world, so that slot and battleground id
stay; the loop of `LogoutPlayer` then finishes the teleport, `AddPlayer` enters the player in `m_Players`, and only then `PlayerLoggedOut` frees the
slot. The player stays in `m_Players` while offline and after the next log-in, which is outside, and is counted until the battleground ends. Its end
(`RemoveAllPlayers`) looks for the player in any map, and if the player is in another battleground of the type or invited to one by then, takes the slot for
that one away; `struck` remembers who this happened to, until the next log-in. What follows for a struck player who queues again is left out
(`Join` is for others).

`BattleGround.InvitationType` is 0, the default of the code (the configuration file that is shipped says 1, balanced invitations, which are not
modelled). Left out: groups of `PremadeQueue.MinGroupSize` and more, a queue that is randomized, what Alterac Valley does differently (a
second attempt, a minimum in the queue), a teleport that is refused or asked for while another is under way, and two threads of maps at
once: timed events fire in them, and the queue's locks are commented out.

## 3. The runs

| run | instance | shows |
|---|---|---|
| `db` | 2 client threads, 2 workers, serial ids 1 and 2, 2 operations, fairness | `NothingLost`, `ExecutedOnce`, `HaltDrains`, `EventuallyExecuted`, `StopServerReturns`, refinement of `SerialExecution` (`ImplementsSerialExecution`) |
| `sql` | 3 statements, 2 lost connections, 2 queued operations | `PreparedTransactionAtomic`, `OutcomeIsExact`, `AppliedInOrder` |
| `sql_atomic` | 2 statements, 1 lost connection | **violated**: `TransactionAtomic` |
| `pool` | 2 workers, 4 tasks, both kinds of worker, both clear modes, three error modes, fairness | `TaskStartedOnce`, `WorkloadNotShared`, refinement of `TaskBatch` (`ImplementsTaskBatch`), `OwnerReturns` |
| `results` | 4 callbacks, a time-out, fairness | `CallbackOnce`, `UnsafeInOrder`, `QuietOutsideUpdate`, `EventuallyExecuted` |
| `login` | 2 sessions, 2 characters, 2 log-ins, a timer of 2 ticks, fairness | `OwnersAgree`, `ShutdownLogsOutConnected`, `OfflineLoginReadsLastSave`, `LoadingEnds`, `UnattendedLeaves` |
| `login_stale` | 2 sessions, 1 character | **violated**: `LoadsLastSave` |
| `teleports` | 2 continents, 2 dungeons, fairness, deadlock checked | `NeverLost`, `LogoutEnds` |
| `queue` | 3 accounts, 4 sessions, limit and hard limit 1, one log-in per tick, grace period, console, fairness | `QueueConsistent`, `HardLimitKept`, `NobodyOvertakes`, `RoomAdmits` |
| `maps` | 2 continents, 1 instance, 2 players, fairness, deadlock checked | `TeleportsPending`, `NoTeleportMidUpdate`, `UpdateReturns` |
| `trade` | 3 players (symmetric), 2 items (symmetric), 1 traded slot, 1 bag place, at most 2 gold | `TradesPaired`, `AcceptedIsShown`, `TradeIsWhole`, `GoldIsKept` |
| `battleground` | 3 players against 1 (symmetric), 1 to 2 a team, 3 groups join, at most 2 players out of the world | `PlacesCounted`, `SlotsAgree`, `InvitationTimed`, `FreePlaceOffered`, `TimeOutOfOwnGroup` |

**Bounds.** In `db` two serial ids over two workers fall on different queues, two operations let one be overtaken by another of its own or
of another queue, and two clients each have a transaction of their own. In `sql` three statements make a
transaction with a first, a middle and a last statement, or two transactions; two losses allow a reconnection to be
lost again. In `pool` there are more tasks than workers, which makes the strides of
`worker_mq` matter, and room for two workloads. In `results` four callbacks of two kinds let unsafe ones wait for a later `Update` while
new ones arrive. In `login` one session can be connected and one disconnected, each with a character; the timer of two ticks
(two minutes in the code) is the shortest that outlasts the update in which it is set and the last one; two log-ins and one change
of a character are enough for an old state to be told from a new one. In `teleports` a character can be between two dungeons, each of which
may refuse it, and there is a continent that is not its home. In `queue` one place for three accounts gives a queue of two, and a
fourth session replaces one that plays or waits. In `maps` two continents are the least that wait for each other, and
two players can be in one map, in two, or scheduled together. In `trade` a third player can meet the two
in every state of theirs; a bag place per player, one traded and the untraded slot make space, order and lost items matter; two gold are enough to overflow
`MAX_MONEY_AMOUNT`. In `battleground` one place more than one player needs leaves room for a second invitation, and not for a group of two when one
player is in; three joins let a player leave and come back with a group to the battleground that it was invited to; a battleground with
all its four places taken is not reached, and what `PlacesCounted` and `FreePlaceOffered` say of it is left to their theorems. At most two players are
between two maps or offline at once (`FewAway`): the invariants relate one player to one battleground and its counts, which two who are away and two who are
not can make wrong together; the theorems have no such bound.
Other cases that the instances do not reach and only theorems cover: no worker at all in `db`, and several slots on each side in `trade`.
`CHECK_DEADLOCK FALSE`, except in `maps` and `teleports`: the programs stop, and the counters of submissions and sessions are bounded.

**Fairness.** Weak fairness for each worker thread, and for Master or the pool's owner once a call is under way: the
operating system schedules every thread, and none of the locks involved is held across a blocking call. In `results`, `login`, `queue` and `maps` the
world thread goes on looping, and so do the pool's threads, the map threads and the database workers. In `teleports` only
`LogoutPlayer` is fair: it runs on the world thread without waiting for anybody. Clients, players and the console are
not fair: nobody has to submit, answer, teleport or disconnect. `EventuallyExecuted` of `db` holds only because submissions end (`MaxOps`): a worker drains the
shared queue before its own, so an endless stream on the shared queue would starve the serial ones.

**The violated runs** each check a sentence of the repository that the code does not keep.

* `sql_atomic`: with the connection lost between two plain statements of a transaction, `MySQLConnection::Execute` reconnects and
  repeats the statement on a session that has no transaction, so the rest of the transaction is applied although its beginning
  was rolled back; the comment in `OpenConnection` (DatabaseMysql.cpp:113) says that atomic updates work.
* `login_stale`: a session loses its socket and its character stays in the world; before the two minutes are over the player
  connects again and asks for the character, and the holder reads the tables; then the timer ends, the character is saved and deleted, and
  only then the callback runs, finds nobody in the world and loads what was read before the save. The serial queue orders the
  save after a load that was submitted first, which is what the comment on duping (Player.cpp:16490) did not want.
  `OfflineLoginReadsLastSave` states what does hold: no such thing happens to a log-in that was asked for after the character had left.

Smaller disagreements that the models contain and no run is kept for: `ThreadPool::m_errors` is never cleared, so `taskErrors()` returns
more than the exceptions "generated during last processed workload" (ThreadPool.h:132); `CancelAll` forgets the callbacks that an `Update` under a
time-out has deferred ("Delete queued queries", Database.cpp:202); a shutdown neither logs out nor saves disconnected
sessions whose timer runs ("save and kick all players", World.cpp:182). Of the login queue: with `LoginPerTick` of 2 or more, a raise that would
pass the hard limit admits nobody although one would fit (World.cpp:2536-2540), and a newcomer in the same tick is then let in before who waits, which `NobodyOvertakes` excludes;
after the console has lowered the limit, the raise starts from that limit and not from the sessions that are in (World.cpp:2535), so with `LoginPerTick` of
2 or more the queue is let in past `PlayerHardLimit` ("Maximum number of players in the world, after increasing PlayerLimit with LoginPerTick", mangosd.conf.dist.in:119): TLC
finds four sessions in with 4 accounts, `PlayerLimit` 2, `HardLimit` 3, `LoginPerTick` 2 and a console that sets 1. A session that leaves a full realm lets
nobody in, because the count includes who is leaving (World.cpp:361-363), and a lost socket with a character in the world frees a place without telling the queue; the
place is given by the next tick when `LoginPerTick` is 1. When it is 0, as in the file that is shipped (mangosd.conf.dist.in:126-129), `UpdateSessions` lets nobody in,
so the place stays free while others wait, as TLC finds with 2 accounts: `RoomAdmits` is therefore stated for `LoginPerTick` of 1 and positive limits.
`PlayerHardLimit` of 0, the default, is "Disabled. No population limit." (mangosd.conf.dist.in:120), but both places that let the first of the queue in compare the number of
players with it (World.cpp:362, World.cpp:2532), so nobody who once waits because of `PlayerLimit` is ever let in.
Of the maps: `SwitchPlayersInstances` runs after the continents have been handed to their threads (MapManager.cpp:295) and takes players out of maps
that are being updated, which the comment at Player.cpp:2148 says must not be done. Of the battlegrounds: a player who logs in with an invitation
waiting gets no event that ends it ("players have only 80 seconds to click", BattleGroundMgr.cpp:589), which `InvitationTimed` leaves out; one who logs out on the way
to a battleground takes one of its places until it ends, and its end resets battleground id and slot of that player in another battleground, although the comment says
"Do next only if found in battleground" (BattleGround.cpp:906): the code has looked in the whole world. TLC finds it when `SlotsAgree` is stated for everybody, `struck` or not:
log out on the way, log in, join again, and let the first battleground end. A battleground is not filled further by the update that has opened it
("invite as much players to bg as possible", the comment of `BattleGround.InvitationType`), which `FreePlaceOffered` leaves out.

## 4. What is proved

`AsyncDatabase_proofs` proves, for any sets of threads and serial ids, any number of workers (0 included) and any bound on
operations, the type invariant and every safety property of `db`, the order of operations with one serial id (`SerialOrder`) and that of the shared queue: `TypeCorrect`, `Lossless`, `AtMostOnce`,
`HaltLeavesNothing`, `SerialOperationsInOrder`, `SharedOperationsInOrder`, `DatabaseExecutesSerially`. They rest only on the three named assumptions of
`AsyncDatabase` (worker count and bound are naturals, serial ids are positive).

The argument: none of the properties is inductive. `Inv` adds

* `QueueInv`, the conjunction of
  * `PlaceInv`: an operation is in exactly one place (done, in one queue once, or in one worker's hand) - this gives
    `NothingLost` and `ExecutedOnce`;
  * `DelayQueueInv`, `SerialQueueInv`: queues are sorted by submission, and a serial queue holds only the operations whose id selects it;
  * `SharedFlightInv`, `SerialFlightInv`: the operation that a worker took from a queue is older than all that are still in it -
    with the sorted queues this gives both order properties;
  * `RouteInv`: the route recorded for an operation is where it can be found;
* `HaltInv`: how far the shutdown is: which workers have been stopped, have exited, have been destroyed, and which queues are empty
  because of it - this gives `HaltDrains`.

`Invariance` proves `Spec => []Inv` from one lemma per conjunct and action; the order properties and the action properties follow, and from
them that every step is one of `SerialExecution` or a stutter (`DatabaseExecutesSerially`): what a worker executes is the oldest of its line, because
what it took is older than what is left in the queue, and all of a line is in one queue.

`SqlOperations_proofs` proves, of `SqlResultQueue`, for any number of callbacks, with and without a time-out, every safety property of `results`:
`ResultsTypeCorrect`, `Once`, `InOrder`, `Quiet`, from the two named assumptions of `SqlResultQueue`. `ResultsInv` adds

* `HeldInv` and `OnePlaceInv`: a callback that arrived has run once, or it has not run and is held in exactly one of the queue, the
  deferred queue, the load that is being collected and the pool's batch; unsafe ones are never in the last two;
* `OrderInv`: both queues are sorted by arrival, and everything deferred arrived before everything queued. So whoever is older than the
  head of the deferred queue and is not thread-safe has already run (`OlderHasRun`), which is `UnsafeInOrder`;
* `PhaseInv`: in which parts of `Update` there may be a load or a batch, and that without a time-out nothing stays deferred.

The pool enters through `TaskBatch`, which `ThreadPool_proofs` proves to be what the pool does.

`LoginQueue_proofs` proves for any accounts, limits, number of sessions and use of the console that no pointer in `m_QueuedSessions` outlives its
session, none is there twice, and `m_inQueue` says who is in it (`QueueAlwaysConsistent`). `QueueInv` adds the types, `SessionsOwned`, that `m_sessions` maps
an account to a session of its own, and `CharacterOwned`, that only such a session has a character; the argument is one lemma per action over what
`RemoveQueuedSession` does to a queue without duplicates. Two more properties hold under conditions, which are hypotheses of their theorems, and which
TLC shows to be needed (section 3):

* `HardLimitAlwaysKept`, when every limit is positive (`LimitsPositive`) and the console sets no limit from which a raise of several sessions starts too low
  (`RaisesFit`, which `LoginPerTick` of 1 satisfies whatever the console does). `LimitInv` says that the sessions that are in and did not skip the queue fit in the hard limit; it
  rests on `ActiveIsAdmitted`, that the count `GetActiveSessionCount` computes from the sizes of two containers is the number of sessions outside the
  queue, by a bijection between the sessions of `m_sessions` and those of the queue and the rest;
* `NobodyEverOvertakes`, for one log-in per tick. `AgeInv` says that both queues are sorted by age and that whoever is mapped is older than whoever is
  still to be added; `FullInv`, that while sessions are added and somebody waits, more sessions are mapped than the limit admits, so that no newcomer finds room.

`MapUpdate_proofs` proves, for any continents, instances and players, that who is scheduled for a far teleport knows it, is in a
map, and that nobody is scheduled between two updates (`TeleportsAlwaysPending`); that no far teleport takes a player out of a map
while a map thread runs (`TeleportsOutsideUpdates`); and that no continent leaves the barrier before all have come to it (`BarrierAlwaysHolds`). `MapInv` and `BarrierInv` add how far the tasks can be in each part of `Update`.
`BarrierAlwaysOpens` is the other half of the barrier: nobody waits for a continent that never comes. `ThreadsInv` says that the pool has a thread for every
continent of the update; the threads that are taken belong to other continents than the one that is still queued, so one is left for it.

`ThreadPool_proofs` proves `TaskStartedOnce`, `WorkloadNotShared` and the refinement of `TaskBatch` (`PoolImplementsTaskBatch`) for any number of workers and
tasks, both kinds of worker and the three error modes. The conjuncts of `PoolInv`:

* `ProgressInv`: the tasks that workers have fetched lie below the shared index, or, with `worker_mq`, in the worker's own residue class and below its own
  index; a task that was fetched has been started once unless a worker has it in hand; `m_active` counts the workers that have not counted themselves out;
* `WorkInv`: all of that while the owner waits and the last worker has not counted itself out; `EndInv`: from then on every task of the batch has
  run once, every worker but the last one rests, and the owner's future becomes ready after the workload has been settled;
* `IdleInv`, `LoadInv`, `PublishInv`, `DestroyInv`, `WaitedFor`: where the workers are while there is no workload, while it is published, and in the destructor.

The refinement maps what is left of the batch to its tasks that have not run, while the owner waits; a step of a worker starts one of them or is a stutter.

`NobodySleepsOnWork` proves `NoMissedWakeUp`, the part of `OwnerReturns` that is about states: who sleeps has nothing to do and is not joined, and while a
future is pending somebody is awake who will fulfil it. `AwakeInv` adds to `PoolInv` that `m_active` stays positive until the last worker
has counted itself out, so that somebody is counted; whoever is counted is awake, because every change of `busy` is followed by a `notify_all` under the lock.

Of `SqlTransaction`, `SqlOperations_proofs` proves `PreparedTransactionAtomic`, `OutcomeIsExact` and `AppliedInOrder` for any number of operations and of lost connections. `TransInv` says

* in which order the statements are: what has ended is older than the operation in hand, which is older than the delay queue, which is older than the
  open transaction of the client (`ClientInv`, `DelayInv`, `TakenInv`); what the client rolled back is nowhere (`DiscardedInv`);
* how much of the operation in hand the server's session and the tables have at each place of the worker (`PlaceInv`, `ProgressInv`, `SessionInv`), and that
  a session without a transaction has it all or nothing when all its statements are prepared (`PreparedInv`): a prepared statement fails on a
  lost connection, where a plain one opens a new one and is repeated alone, which is why only prepared transactions are atomic.

The three properties are conjuncts of `TransInv` themselves: the order of what has been applied is needed to show that what is applied next is new.

`CharacterLogin_proofs` proves the three safety properties of `login`, for any characters, sessions, requests and length of the stay of a disconnected
session: `OwnersAlwaysAgree`, `ShutdownLogsOut`, `OfflineLoginsReadLastSave`. `LoginInv` adds

* `PairInv`: only the connected and the disconnected sessions have characters, and who loads has none: so a session that is deleted is logged out first or has no character;
* `OrderInv`: the sessions still to be added are younger than those that were, so none of them is already connected or disconnected;
* `FinalInv`: after `KickAll` the connected session is kicked and not yet updated, or has no character, up to the end;
* `LoadsInv`, `HoldersInv`: of a log-in that was requested while the character was out of memory, and that no other overtook: no save follows
  its load in the serial queue, and once the load is executed the tables hold what it read and no save waits;
* `LeftInv`: of a character that is out of memory, the last save that waits, or else the tables, hold what it had when it left. With the two before it
  this gives `OfflineLoginsReadLastSave`, which `login_stale` shows to be false for log-ins that were requested too early.

`LoadingAlwaysUnderway` proves `LoadingIsUnderway`, which is inductive together with `LoginInv`: who loads is the connected session, and the callback of any
holder, also of one that an earlier session asked for, ends its loading. It is what `LoadingEnds` rests on besides fairness.

Of `FarTeleports`, the same module proves `NobodyIsLost` (`NeverLost`, for any continents and dungeons, whichever refuse the character) and its types. `TransferInv`
adds `WayInv`: what is known of the map that a character on its way goes to and of the one it came from, so that a refusal never sends it to the map whose id is already
set, for which the way back would be a near teleport that finds no map.

`BattleGroundQueue_proofs` proves the four invariants of `battleground` and `TimeOutOfOwnGroup` for any players, teams and sizes. `QueueInv` adds to them

* `KnownInv`: what holds of every player, struck ones included: a slot that is not free says what it should, whoever has a battleground id is in its map or on the
  way to it, and whoever the queue takes for offline is;
* `JoinInv`: groups are numbered as they join, a player waits or is in a battleground and never both, and an invitation is younger than its group;
* `EventInv`: the next group of a player is younger than the events of the one before, so that an old event cannot end a new invitation;
* `StatusInv`, `FreeInv`: nobody is invited before a battleground opens, and every running battleground that is not full is once among those with free slots;
* `OfferInv`: `FreePlaceOffered` for the groups and battlegrounds that an update which is under way has dealt with. It rests on a lemma on the greedy choice of groups: what is chosen waits uninvited,
  fits, and leaves out only groups that did not fit, by induction over the numbers of the groups.

`Trade_proofs` proves the four properties of `trade` for any finite sets of players and items, any number of slots, size of the bags and limit of gold:
`TradesAlwaysPaired`, `AcceptedAlwaysShown`, `TradesAreWhole`, `GoldAlwaysKept`. `TradeInv` adds to the two invariants only `DistinctInv`, that no item is twice in
a window. The proofs of the two action properties are about one action, `CompleteTrade`:

* whole: `moveItems` goes slot by slot, and the bags that it fills are not those that `CanStoreItems` looked at. At every slot the items that the receiver has got and
  has still to get fit together (`RoomAtSlot`), so that each `MoveSlot` finds room and none of the items is lost on the way;
* the gold: `CompleteTrade` moves what each side offers, and every other step leaves the purses alone. That the sum is the same (`GoldMoves`) needs the sum over a finite set as a
  recursion that exists (`FoldExists`) and an induction over the players; both are written out with sets of numbers and least elements, because
  the induction theorems of the library are out of the provers' reach.

`Queues` defines membership and order of a queue of numbers. What `Append` and `Tail` do to them is proved in each of the two modules that use it. Every invariant was
checked by TLC on the instances of the runs, some on larger ones, before it was proved, and the only assumptions are the named ones on constants.

Only model-checked: the liveness properties `EventuallyExecuted` (of `db` and of `results`), `StopServerReturns`, `OwnerReturns`, `LoadingEnds`, `UnattendedLeaves`,
`LogoutEnds`, `RoomAdmits` and `UpdateReturns`. Fairness and ENABLED are outside of what the prover does; `NoMissedWakeUp`, `BarrierOpens` and `LoadingIsUnderway` are
what could be proved of three of them, that there is always somebody who can make the awaited step.

Each module states its types (`TypeOK`, `ResultsTypeOK`, `TransferTypeOK`); the runs leave it to the proofs where there are any. They also leave to the proofs `SerialOrder` and
`SharedOrderWithOneWorker`, `BarrierHolds` and `BarrierOpens`, `NoMissedWakeUp` and `LoadingIsUnderway`: the refinements and liveness properties of the
same runs fail where one of these does, and TLC checked each on the instance of its run before it was proved.

## 5. Not modelled, and the plan

The models cover the concurrency, persistence and session protocols of `mangosd`, which is a small part of its text: most of the repository is game rules
(objects, spells, AI, scripts), vendored code and generated data, where one thread follows numerical data and no protocol, and a model would be a copy.

1. `PlayerBroadcast` (locks and threads of `PacketBroadcast`). It is off by default, and with `Network.PacketBroadcast.Threads` set, `QueuePacket`
   (PlayerBroadcaster.cpp:107) calls `release()` on its `unique_lock`, which gives up the lock object and leaves the mutex locked: the second packet of
   a player blocks its caller for ever. A model of it is worth having for the listeners once that is settled.
2. Group loot rolls, auction and mail, LFG, `AuthSocket`; the relocation threads' shared index; balanced invitations of battlegrounds.
