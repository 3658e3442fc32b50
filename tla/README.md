# A TLA+ model of Operation Front Line

Operation Front Line is an Arma 3 game mode: mission scripts (SQF), and a server
extension, `OPFL.dll`, that keeps the players' accounts in a MySQL database. This
directory models the extension and the parts of the mission that keep state, checks the
models with TLC and proves some of their properties with TLAPS.

## 1. Inventory

### The extension (`src/OPFL`, `src/DatabaseConnector`)

| part | state | operations | what makes it correct |
|---|---|---|---|
| Message queue, `HiveQueueC` (ThreadHive.h) | a circular array, `head`, `tail`, `count`, `aSize` | push, grow, peek, pop, remove | a FIFO queue whatever wraps, resets and growths happen |
| Thread handles, `ThreadHive<T>` | a static list of handles, one queue and one share counter in each | addThread, spawnThread, sendMsg, receiveMsg, receiveAll, isRunning, getThreadHandle, destructor | a handle lives exactly as long as an object that shares it; the list stays a list |
| Connection pool (ConnectionPool.h, OPFLConnection.h) | a deque of idle connections, a set of borrowed ones | constructor, borrow, unborrow; pointers that go out of scope | no connection in two hands, none lost |
| Entry point `RVExtension` (OPFL.cpp) | three static hives | Connect, GetOutput, Publish*, Commit, GetState, GetDllState | pointers the mission holds are valid; messages reach the right thread in order |
| Connection threads, `mycallback` | two connections, one account | borrow loop, reading, serving, committing, the crash path | what was committed stays; no half-done transaction spreads; the thread ends |
| Cleanup thread, `CleanupThreads` | the pool, its message queue | builds the pool; waits for each committed worker and deletes its hives | everything is deleted, once, and only when nobody uses it |
| Database connector | prepared statements per connection | one transaction per connection, autocommit off, READ COMMITTED | - |
| `ArmaData`, `ArmaMessage`, and CALL_EXTENSION of the mission | trees of typed values | parse, print, twice over | what one side prints the other reads as it was meant |
| DateTime.cpp | a date, a duration | add, subtract, compare, timeBetween | dates exist and count time; the repository does not use it yet |

### The mission (`src/OPFLBetaAltis-54.Altis`)

| part | state | operations | what makes it correct |
|---|---|---|---|
| Rank module | records, pending / active / side lists, publish list | AddPlayer, RemovePlayer, UpdatePlayerKills, Agree, the shop, EndGame, the per-frame loop | the lists agree; every session is released; the last record of a player is what is committed |
| Connection handler | UID and client tables, client ID counter | OnConnected, OnDisconnected, ConnectUID, CheckConnection | tables are inverse to each other; IDs are unique |
| Vehicle respawn | the vehicle list, its copy on each client | per-frame check, block transfer, index update | a client who joins gets the server's list, whoever else joins and whatever is replaced meanwhile |
| Flag zones | two flags, rally points, tickets, a request queue, bodies | deploy, undeploy, redeploy, destroy, scan, tick, delete a body | requests that became stale do no harm; a flag is carried or planted; one ticket script per flag |
| Client zones, group manager, kits, settings, rotation menu, sounds | dialogs and data | - | - |

### How the parts interact

The game thread calls `RVExtension` synchronously. `Connect` makes two hives (an input
queue for the new thread and an output queue), sends the first message, spawns
`mycallback` on a *copy* of the input hive, and returns both pointers to the mission,
which passes them back in later calls. The worker finds the output queue by *name*.
`Commit` sends each worker a message that *shares* the array of its record with the
message that then goes to the cleanup thread. Workers share the pool, and through the
database the rows of a player who left and came back. Crash reports and the one "pool
ready" message go through two more queues that the mission polls.

### What is hard

- Three kinds of threads and a polled game loop: the order of Connect, pool start,
  Commit, crash, cleanup and reconnect is arbitrary.
- Memory is shared through raw pointers, share counters and `unique()`.
- Database links fail between any two statements; a commit can happen although its
  answer is lost; row locks outlive their thread.
- The DLL survives a change of mission, the mission's counters do not.
- The mission's lists, indices and variables about one player are changed by handlers that
  run in the order of the network; players leave in the middle of every exchange.
- Two languages print and parse the same text, each with its own code.

`PROJECT.json` lists the hazards one by one, each at its line.

## 2. Modules

| module | models | state and actions |
|---|---|---|
| `HiveFifo` | the promise of a message queue | `fifo`; push, refuse, pop |
| `HiveQueueC` | the class `HiveQueueC` | its five members; push() is split into its three branches, `grow()` is the function `Grown`. Implements `HiveFifo` with `fifo <- Contents` |
| `SharedHandles` | the promise of the thread handles | `live`, `held`; give, share, drop |
| `ThreadHandles` | `addThread`, `spawnThread`, `~ThreadHive` | the list as pointers; `order`, `start` and `intact` are history variables: the order in which handles joined, what their counters held when they were allocated, and that none has started at its greatest value. Implements `SharedHandles` with `live <- Promised`, `held <- mine` |
| `ConnectionPool` | ConnectionPool.h | `pool`, `borrowed`, and for each pointer variable of a thread (a *holder*) what it refers to. `lent` is the protocol of the callers: borrowed and not yet returned |
| `OpflExtension` | RVExtension, mycallback, CleanupThreads and the rank module's calls | queues and hives by session; `worker`, `at`, `half` are program counters |
| `AccountSession` | mycallback by statement, extends `ConnectionPool` | `place` is the statement the thread is at; the tables with their locks and uncommitted values |
| `RankModule` | RANK_MODULE of the mission, on top of the threads of the extension | the record, the pending, active and side lists, the publish list and the index remembered for it; for each session the stage and the inbox of its thread. `final` is a history variable |
| `FlagZone` | SERVER_ZONE_SYSTEM and SERVER_DEATH_SYSTEM, with the requests of CLIENT_ZONE_SYSTEM | the variables of the two flag objects, units and bodies with their locks, requests in the network and in the queue; a frame is a run of steps that nothing else interrupts |
| `VehicleList` | VEHICLE_RESPAWN_SYSTEM, with PCS_CPQ, AddConnection, ConnectUID and HangForInits | the server's list and transfer, each client's copy, messages under way and scripts not yet run |
| `ArmaData` | ArmaData and ArmaMessage of ThreadHive.h, CALL_EXTENSION of the mission | the printers and parsers are operators; a call, its reading, the answer and its reading are the actions |
| `DateTime` | DateTime.cpp | the methods are operators; the actions add and subtract, beside a clock that counts days and milliseconds |
| `MCAccountSession`, `MCOpflExtension`, `MCFlagZone`, `MCArmaData`, `MCDateTime` | | constants and symmetry for TLC |
| `HiveQueueC_proofs`, `ThreadHandles_proofs`, `OpflExtension_proofs`, `AccountSession_proofs`, `FlagZone_proofs`, `RankModule_proofs`, `VehicleList_proofs`, `DateTime_proofs` | | theorems, each about the module it extends; `AccountSession_proofs` begins with those about `ConnectionPool` |

How they fit together: `OpflExtension` uses queues as sequences and a handle as an object
that dies with its last owner; `HiveQueueC` and `ThreadHandles` justify that, by what they
implement, `HiveFifo` and `SharedHandles` (as far as counters start at 0, section 6). It reduces what
a worker does with its connections to success or failure, in any order; `AccountSession` has
the rest on top of `ConnectionPool`, and reduces the mission to Connect, publish and leave.
`RankModule` composes the mission's side of this with the stages a worker goes through
(borrow, load, serve, ended), so that what the mission believes of a session can be compared
with what the session does; of failures it has those of `borrow()` only.

Names beginning with the action they change are *mutants*: each is the same
operator with a plausible bug (a dropped guard, an off-by-one, a missing reset), used
to make sure that the property it is listed with in `PROJECT.json` notices the bug. They
are not part of any specification.

### Correspondence, where it is not one to one

- **One step per critical section.** A call under `threadMutex`, `hiveAccess` or
  `io_mutex` is one step. `mycallback` takes one step per database statement, borrow,
  unborrow and receive; its local computations belong to the step before.
- **`Commit` in RVExtension** is `CommitRecord` for each record, then `CommitDone`, and
  the game thread does nothing else in between (`GameIdle`). Threads run in between.
- **The mission** is single-threaded towards the extension: each call it makes is one
  action, with the changes of its own variables. `EndGame` is modelled with the main loop
  installed. In `RankModule` it may stop at the division by PCS_RNK_REAL_GL, if the clock has
  not run (`ran`) and somebody is on a side; with PCS_RNK_ON false nothing is divided, so both
  outcomes are allowed then. In `OpflExtension`, which has no clock, it commits.
- **Session.** One Connect is one session; its player may have a later one. The player
  connects again only when the mission has removed him, since the engine reports
  connects and disconnects in this order.
- **Data.** An account is one number that grows with each change the mission publishes, so
  "older" can be said of it; `PublishKills` and `PublishChickens` differ from
  `PublishAccount` only in the column. Ban data is the ditch counter; whether an hour has
  passed is a free choice.
- **Database (external).** Autocommit off. `INSERT IGNORE`, `SELECT ... FOR UPDATE` and
  `UPDATE` lock the row exclusively until the connection commits, rolls back or is closed
  (an `INSERT IGNORE` of an existing row takes a shared lock in MySQL; two of these that
  then deadlock are one more statement that fails). A failing commit may have happened.
- **Failures.** `MaxFailures` bounds lost links, failing statements and failing commits;
  lock wait timeouts are not counted. A null pointer that is dereferenced, and an
  exception nobody catches, set `fault`: the process is gone.
- **Uninitialised memory.** A slot of a new array holds `Garbage`; the share counter of a
  new handle holds any member of the set `Garbage`. A counter that starts at its greatest value
  is 0 when it should be 1, and a pointer may then be used after its handle was deleted, of
  which C++ says nothing: what is claimed of handles is claimed while `intact`, that is, until
  this has happened. No other start is excluded.
- **Handlers of the mission.** Arma runs event handlers, per-frame events and calls to the
  extension to their end before the next; scripts that were spawned run in between. So a
  handler is one action in `RankModule` and `VehicleList`, and in `FlagZone` one frame is a
  sequence of steps (`phase`), during which nothing else happens.
- **Script errors (`RankModule`).** A handler that indexes a number, where a record should be,
  stops there; the handlers before and after are not affected. `deleteAt -1` removes the last
  entry or none, and an index behind the end removes none: both readings are allowed.
- **What players and the engine do** (die, leave, respawn, stand near a flag, let time pass,
  lose a vehicle) is open. `Tick`, `Die`, `Leave`, `Respawn` are external.
- **Networks.** A request in `FlagZone` may take any time, and requests may overtake each
  other. Messages to one client in `VehicleList` stay in order, which the engine guarantees
  for one sender; so do the scripts a client spawned. A request is appended to the flags'
  queue at once, although DeployMsg does it from a script that could be suspended within
  the statement.
- **Places (`FlagZone`).** Home, a field, or far: behind the line, where a flag may not be
  put down and from where it falls back home.
- **Text (`ArmaData`).** A text is a sequence of characters, a number one character: neither
  parser looks into it. `Failed` stands for a parse that ends the process or reads behind
  the end.
- **Dates (`DateTime`).** Years stay between 1 and `MaxYear`, amounts at most `MaxAmount`, so
  no `unsigned int` of the code wraps. A loop that takes a year's days off until none is left
  is written as the choice of the year in which the days end; `DaysOf` adds up the years before.
  The reference is `Instant`, which counts days in closed form and shares nothing with the code.

## 3. Runs

| run | question | bounds | result |
|---|---|---|---|
| `queue` | Is the circular queue a FIFO queue? | blocks of 2, counters modulo 8, 2 messages: it grows twice, from every head, and the third growth overflows | holds |
| `handles` | Do handle, counter and list survive every order of destruction, and is a handle there as long as it is shared? | 3 handles, 4 objects, counters modulo 3 that start at 0, 1 (overflow with the second owner) or 2 | holds |
| `session` | Are accounts, ditch counters and pooled transactions right? | 2 sessions of one player, pool of 4 (nobody waits, nothing is replaced), 2 failures, counters 0, 4 and 5 | holds |
| `session_ends` | Does a committed session end, and the borrow loop of one that is alone? Is a connection ever in two hands or lost? | pool of 2 for 4 variables, 5 objects, 1 failure, fairness | holds |
| `ext` | Is shared memory safe, do messages arrive, is everything given back, and does every death of a thread end its player's game, over a change of mission? | 2 missions, 2 sessions, 2 players, 1 publish each, fairness | holds |
| `ext_names` | Does an account string reach its session in every mission? | 2 missions, 2 sessions, 2 players, no publishing | violated: section 6 |
| `rank` | Do the rank module's lists agree with each other and with the sessions? | 2 players, 2 sessions, 2 kills, an inbox of 1 message for ticks (a last publish and a Commit always fit), fairness | holds |
| `rank_reset` | Does an account ever lose kills? | 2 players, 3 sessions, 3 kills | violated: section 6 |
| `zone` | Do late requests, deaths and departures leave flags, tickets and bodies in order? | 2 players of one side, whose opponent's flag is there to be destroyed; one field; 1 request under way and queued beside those for bodies; a time of 2 until a flag is ready, 1 scan to capture it; micro and pinned mode both ways; fairness | holds |
| `join` | Does who joins get the vehicles, and the right ones? | 3 clients, 2 vehicles in blocks of 1, 1 replacement, fairness | holds |
| `data` | Is what is printed read as it was meant? | strings with a comma and with brackets, all leaf types, arrays of up to 2 elements, nested to depth 3, 6,773 states in all | holds |
| `date` | Do dates count time? | 7 dates at ends of months, leap days, centuries and the start of the calendar, all sequences of 2 calls with amounts up to 4001 | holds |

Why these bounds are enough. What goes wrong in the extension goes wrong between a session
and its own cleanup, or between two sessions (of one player, for the database; of the same
thread name, for handles); a third adds a longer list for the cleanup thread and no new kind
of step. In the rank module a third session adds one more return of a player, which is what
`rank_reset` has. For `join`, two clients who wait at once and a third who comes in the middle
of their transfer are all the cases of the pending counter (none, one, several). For `zone`
the sides do not interact except by the destruction of a flag, which a scan can cause without
a player of the other side; the invariants and action properties of that run are proved for
all players and times. In `handles` the counter has one value more than a handle has owners, so
each start is met: one that returns to 0, one that overflows on the way up, and the greatest;
the theorems have every width. `ext` has one state constraint: the first session is of a fixed player,
the other half is its mirror image; it does not restrict later steps.

Deadlock is not checked where the system may rightly stop: all sessions have ended, the
game is over, the process is gone, all clients have left, the pool's constructor failed, or
the finite bounds are used up: in `handles`, where handles that are left behind use up the
addresses.

**Fairness.**

- `ext`: a Commit call that has begun is finished, the cleanup thread is scheduled, and each
  worker is, with one exception: in the borrow loop only when there is a message to receive
  (`WorkerDriven`), so the result does not depend on getting a connection.
  `CrashEnds` has a premise besides (`Polled`): that the handler of each frame polls GetDllState
  and, once a second, GetState, and that the server carries out its own kick.
- `session_ends`: weak fairness of each worker. Both rest on the operating system's scheduler
  and on MySQL calls returning, by an answer, an error or a lock wait timeout.
- `rank`: weak fairness of the polling handler, which runs in every frame, of each thread's
  load and serve, and of its borrow loop as long as there is a message (`BorrowDriven`). That a
  borrow succeeds is not assumed: the pool has 50 connections, a session takes two, and the
  mission has 54 players, who may wait for each other. It is a premise of `Served` (`Lent`).
- `zone`: weak fairness of the frame handler, which the engine calls in every frame; strong
  fairness of a script that sleeps and then asks for a body to be deleted, since scripts get
  their turn between frames, where that step is enabled again and again.
- `join`: weak fairness of the system's steps taken together (frames, the delay between two
  blocks, the network, scripts): each stays enabled until it is taken, so one of them must be
  taken as long as there is one.

Nothing is assumed of players: they need not leave, return, or agree, and matches need not end.

## 4. What the properties say

- `ImplementsFifo`, `TailFollows`, `NoGarbageLive`: the queue.
- `NoDanglingHandle`, `ListIntact`: handles. `LastOneDeletes`: a handle whose counter started
  at 0 goes with its last owner. `ImplementsSharing`: whatever counter and list do, a handle is
  there as long as it is shared, and no longer if its counter started at 0. From other starts handles are left behind (section 6).
- `Exclusive`, `Conserved`: the pool. `CommitEnds`, `BorrowGetsOn`: the thread of a committed
  session ends; the borrow loop of a session that is alone ends.
- `GameHivesLive`: pointers in the mission's hands are valid. `DeletedOnce`: no record
  gets to the cleanup thread twice. `CommitDataLive`: the array a Commit message shares is
  not deleted under the worker. `CommitLast`: no message is left behind a Commit.
  `OutputInMission`: as long as thread names are unique an account string reaches its own
  session, through a handle that exists. `CrashReported`: of a session that goes on after its
  thread has died, the report waits to be read, or the kick has been ordered. `CrashEnds`: such a
  session ends. The converse, that who is kicked has a dead thread in this very session, does
  not hold (section 6).
  `CommitCleans`: all memory of a session that was left is given back.
- `PoolClean`: no idle connection has an open transaction. `OneOwner`: row locks order the
  sessions of a player. `SavedIsDurable`, `NoLostUpdate`: a successful commit contains what
  the mission published, and no later one goes back behind it. `DitchMoves`: one
  punishment or pardon at a time.
- `ListsAgree`: the rank module's lists tell one story. `FinalIsWritten`: the record a player
  leaves with is what his session commits. `SessionsReleased`: a thread that is not closed has
  a live player or its Commit, except in a match of no second. `Served`: who has agreed gets his
  account, if none of his sessions is in the borrow loop for ever.
- `CarrierKept`: a flag stands or has a carrier and a place to fall at; the bodies of carriers,
  and only they, are locked. `OneGain`: one ticket script per flag. `WaitsOut`: no flag is
  taken before its time, after a destruction neither. `PinnedStays`: no flag is saved from being captured. `BodiesGo`:
  every body is deleted.
- `EntriesCurrent`: a list that has settled holds the server's vehicles. `Joins`: who waits
  for the list gets it.
- `ReadAsMeant`, `AnsweredAsMeant`: values survive the way to the other side.
  `KeepsTime`, `OrderAgrees`, `BetweenInYear`: dates.

The type invariants of the modules (`TypeOK`, `PoolTypeOK`, `SessionTypeOK`, `ZoneTypeOK`) and the
auxiliary `IdleOnce`, `Exhausted` and `SharesCountOwners` are not among the runs'
properties; those of the modules with proofs are parts of the inductive invariants.

## 5. Proofs

| theorem | for | argument |
|---|---|---|
| `QueueInvariant`, `QueueTailFollows` | every block size above 1, any counter width, any message set | `TypeOK /\ TailFollows /\ NoGarbageLive` is inductive as it stands: the position of the i-th message, `Slot(i)`, is shown to survive each branch of push and pop |
| `QueueIsFifo` | the same | every step maps to a step of `HiveFifo`; lemmas say what `Contents` is after each branch, growth included |
| `PoolSafe` | every pool size, all sets of connections and holders | `PoolTypeOK /\ IdleOnce /\ Exclusive` is inductive: a lent connection is in `borrowed` and referenced, hence never abandoned, and a fresh one is neither owned nor referenced |
| `PoolConserved` | the same | from `PoolSafe`: each step moves one connection, or exchanges one for another, so the sum of sizes is kept; the sets are shown to be finite on the way |
| `HandlesCounted`, `HandlesLive`, `HandlesOwned` | all sets of handles and hives, any width of the counter above 2, any memory, while `intact` | `HInv`: the counter is where it started and the number of owners, modulo its width. These are at most 2, since an object that has spawned its thread does not spawn again, and a handle without owner did not start at 0 (`Counted`). Counting down undoes counting up across the overflow, and comes to 0 only from one owner and a start at 0 (`CountUp`, `CountDown`) |
| `HandlesListed` | the same | `LInv`: the pointers spell `order`, a sequence of handles that all differ. A handle joins at its end (`LinkList`); the one that goes is where the destructor's walk finds it, since `next` leads to it from its predecessor only (`UnlinkList`). That a handle which goes is linked at all is part of `HInv` |
| `HandlesAreShared` | the same | every step maps to a step of `SharedHandles`: `spawnThread` and `addThread` share or give, and `~ThreadHive` drops. A handle that started elsewhere than at 0 leaves `Promised` with its last owner, though not the list |
| `GameHivesAlive`, `DeletesOnce`, `CommitDataAlive`, `CommitComesLast`, `CrashesReported` | any number of sessions, players, missions and messages | `EInv`: the queues of whoever may use them exist, that is of sessions the mission has, of threads that run, and of records the cleanup thread has not done yet (`Kept`); each session that was left is listed once over all lists (`Listed`, where the lists are those under way, waiting and in work put one behind the other); the threads of the records already done have ended (`Cleaned`), which is why deleting an input hive takes nothing from a thread; the Commit stands last (`Commits`); a thread ends without a report only if its session was left (`Reported`) |
| `OutputsInMission` | the same, in the first mission | the part `Names` of `EInv`: names are numbers that go up, so a thread finds its own queue |
| `PoolIsClean`, `AccountHasOneOwner`, `SavedStays` | any number of sessions, players, connections and holders, any failures | `AInv` extends `Counted`, the invariant of the pool. For each place a thread can be at, it says which of its two connections are lent to it and which hold no lock (`Holds`); that a working connection has the rows its thread believes it has, with the values it has written (`Owns`); and that what was published is in the queue in order, or written (`Queued`). `Rows` says of every row, lock or not, that an uncommitted account is never behind the committed one |
| `SessionPool` | the same | each step of a thread is a step of `ConnectionPool` or leaves the pool alone |
| `NoUpdateIsLost`, `DitchMovesByOne` | the same | from `Rows`: a commit exchanges the committed value for the uncommitted one, a rollback the other way round |
| `ZoneCarrierKept`, `ZoneOneGain`, `ZoneTypeCorrect` | any players on both sides, any fields, any times above 0, any bound on requests | `ZoneInv`: types, the two properties for each flag (`Kept`), locks, and that requests of one mode only are under way (`RequestsInv`: without micro mode nobody asks to pick up a flag). One lemma per part of a handler says what it does to a flag, one per action that `ZoneInv` is kept |
| `ZoneWaitsOut`, `ZonePinnedStays` | the same | `ToldInv` adds to `ZoneInv` what players are told: a flag that is ready is `ReadyTime` old, and the broadcast level is the level. The code tests the broadcast, so without this the properties would not follow. `May(z, y)` is what one step may turn a flag into |
| `RankListsAgree`, `RankSessionsReleased`, `RankFinalIsWritten` | any number of players, sessions and kills, any inboxes | `RInv` adds to the types and `ListsAgree` what holds of a thread. If its player is here (`Works`), no Commit is in its inbox, and it serves as soon as his account was sent: so a merged record never meets the borrow loop, which drops messages. If he has gone (`Leaves`), a Commit is on its way, and the last record stands right before it. Handles tell sessions apart, so a publish entry of an earlier visit never reaches an old session |
| `VehiclesCurrent` | any number of clients below 255, of vehicles, replacements, and any size of a block | `VInv`: of each place, the last broadcast of a replacement in the queue of the server, and every block behind it, name the vehicle that is there (`Queued`); if the queue is silent about a place the same holds of the messages that travel to a client (`Arriving`), if these are too, of his scripts (`Spawned`), and then of his list (`Known`). Messages move from one to the next in order, so the claim moves with them. A script may write an old vehicle over a newer one from a block, but only with the script of the newer one behind it |
| `DateKeepsTime` | all dates of the years 1 to `MaxYear`, all amounts up to `MaxAmount`, any number of calls | `IInv` is `KeepsTime`, and that the start is a date. What the loops add up over years and months is `YearStart` and `MonthStart`. A date has a number in each unit, of days (`DayNumber`) to milliseconds (`MsNumber`); one lemma for each method says that it moves that number by its argument, from what a field keeps and carries (`Carries24` and so on) and the lemma of the next larger unit |
| `DateOrderAgrees` | the same | the first field that differs decides between the numbers, since what is left of a year, month or day is less than one |
| `DateBetweenInYear` | two dates of one year | the duration is as long as the time between the two (`ElapsedInYear`), and two dates at the same instant are the same (`LeadsBack`) |

Assumptions: `QueueAssumption`, `PoolAssumption`, `HandleAssumption`, `ExtensionAssumption`,
`SessionAssumption`, `ZoneAssumption`, `RankAssumption`, `VehicleAssumption` and
`DateAssumption` of the modules. The invariants `EInv`,
`AInv`, `RInv` and `VInv` were model-checked before they were proved; `EInvariant`, `AInvariant`,
`RankInvariant` and `VehicleInvariant` state them.

Three places of the models are written with the proofs in mind: `CDeleteOutput` of `OpflExtension`
takes an element out of a list by its index, `InOrder` of `VehicleList` says what the
order of places is rather than how to sort, and `DateTime` sums with recursive functions. The
library's induction theorems take an operator, which the provers cannot instantiate. So what is
shown for every year, or for every month, is shown of the least one for which it fails, which
a set of numbers has by the library's `WFMin`.

Only model-checked: the liveness properties `CommitCleans`, `CrashEnds`, `CommitEnds`, `BorrowGetsOn`, `Served`,
`BodiesGo` and `Joins`, since liveness under fairness is beyond the prover; the two violations,
which are counterexamples; and `ReadAsMeant` and `AnsweredAsMeant` of `ArmaData`, whose printers
and parsers recur on trees and texts. They are RECURSIVE operators, about which the prover
cannot reason, and the module is kept apart from all those with theorems.

## 6. Where code and comments disagree

Two runs show it:

- `ext_names`: names of output queues start over with each mission; a worker may find a handle
  the last mission left behind, and its player waits for an account that was sent elsewhere.
- `rank_reset`: a live player's enemy kill is counted by two calls of UpdatePlayerKills
  (OnKilled.sqf:9 and 22), the second of which stores -1 as the index of the publish entry. If he
  leaves before the next tick his entry stays. While he is away the tick stops with an error at
  it, in every turn, and entries behind it are not published. When he is back, the zeros of his
  record, which waits for the database, go to his new session; if he leaves before the account
  was merged, they are committed.

Met while modelling, in the code the models name; no run is spent on them:

- *Kick by player.* A crash report names a player (OPFL.cpp:290). A player leaves while his thread
  is in a database call and comes back; then the old thread fails, and his new session, whose
  thread works, is kicked by the loop for "clients with dead DB connections" (RankMain.sqf:246-251).
  `GetState` has this step; a property that forbids it is violated by two sessions of one player.
- *Uninitialised counter.* `ThreadHandle()` does not initialise `shares` (ThreadHive.h:851, 631).
  From anything but 0 the handle is not deleted "after their instance has "ended""
  (OPFL.cpp:326): it stays in the list, where `getThreadHandle` still finds its name. This is why
  `LastOneDeletes` speaks of a start at 0; that every handle in the list has an owner is
  violated by one whose counter starts at 1.
- *Pool not ready.* AddPlayer connects at once, while `mysql_pool` is null until the cleanup
  thread has filled it (OPFL.cpp:69, 306; the wait at RankMain.sqf:305 is the main loop's).
- *Crash path.* `opflcon->ThreadEnd()` (OPFL.cpp:294) with a null pointer, if no connection was
  ever borrowed.
- *Pool.* The header promises healthy connections (ConnectionPool.h:20), `borrow()` hands out
  the front of the deque (169). A connection that a crashed thread abandoned keeps its row
  locks until `borrow()` finds the deque empty (136-151).
- *Borrow loop.* It drops every message but Commit (OPFL.cpp:83-106), a publish included.
- *Rank module.* Kills of live enemies count twice. With round mode nothing calls EndGame, and
  sessions stay uncommitted until players leave. EndGame divides by PCS_RNK_REAL_GL, which may
  be 0, and says so (EndGame.sqf:26): `EndGame` has this path, and `SessionsReleased` excepts the
  sessions it leaves behind, whose threads and connections nothing ends but the process.
- *Flags.* DESTROYED stays set when a flag is picked up and put down again. A carrier who dies
  behind the line resets the flag to home, where it is not scanned while its ticket script
  runs. OPFL_MICRO_MODE is set in Parameters.sqf, so the redeploy path is off by default; its
  branch at ReDeployFlagZone.sqf:27 queues itself with the code of another request and is not
  reachable.
- *Vehicles.* InitVehicleRespawn.sqf:16 broadcasts `VR_VEHICLE_COUNT`, a misspelling: in a mission
  without vehicles clients would wait for ever (the model takes at least one). AddConnection
  pushes an array into the client counter at the 255th connection.
- *Format.* The extension's parser ends the process at an `@` inside quoted text and at an empty
  string inside an array, and reads behind the end of `@[]` within or instead of an array; the mission's
  numbers from a million on print as `1e+006`, which it reads as 1. An array whose elements
  all lack data prints as `@]`. A named answer keeps the comma in its name (ParseArmaData.sqf:117);
  only the echo of an unknown function has one.
- *Dates.* timeBetween across the end of a year adds the day of the year where it should add the
  rest (DateTime.cpp:1106-1115); comparison of durations ignores the sign; a year below 1 wraps.

## 7. Plan

Done: all modules of section 2 and the theorems of section 5. What is left, by what it would add:

1. Proofs: that the steps of `RankModule` are among those the extension is driven with in
   `OpflExtension`.
2. Rally points and the ticket clock beside `FlagZone`; the start of the rank module's main
   loop and the kick of crashed sessions inside `RankModule`.
3. The connection handler's tables for players who are kicked before they were assigned.

## 8. Not modelled

- Dialogs, kits, settings, rotation menu, sounds, HUD and the group manager: layout and data.
  The loader and packaging.
- MySQL, its connector and the engine beyond what the code relies on. The vendored headers of
  MySQL, about 30,000 lines, and the `.hpp` files of the dialogs are by far the largest part of
  the C and C++ in this repository, and hold declarations; the mission itself, which four of
  the modules are about, is SQF. The share of C and C++ lines that `PROJECT.json` maps is
  small for that reason.
- `HiveQueue`, the linked-list queue of ThreadHive.h, which nothing instantiates.
- Time, except as the order of steps and, in `FlagZone`, as the age of a flag: how long others
  wait while the cleanup thread waits for a worker is not measured.
