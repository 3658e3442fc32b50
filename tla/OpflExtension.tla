--------------------------- MODULE OpflExtension ---------------------------
(***************************************************************************)
(* The threads of the extension DLL (OPFL.cpp) and the memory they share.  *)
(*                                                                         *)
(*   - the game thread enters RVExtension, on behalf of the rank module of *)
(*     the mission (RankMain, AddPlayer, RemovePlayer and EndGame.sqf);    *)
(*   - a connection thread runs mycallback for one session, from Connect   *)
(*     until its Commit message or a failure of its database connection;   *)
(*   - the cleanup thread runs CleanupThreads: it builds the pool, and     *)
(*     then deletes the queues of the sessions that were committed.        *)
(*                                                                         *)
(* A session is one Connect.  It has an input queue, shared by the hive    *)
(* the game keeps a pointer to and by the functor its thread runs on, and  *)
(* an output queue, which the thread finds by name in the list of all      *)
(* output queues.  What a thread does with its database connections is     *)
(* abstracted here to success or failure; AccountSession has the detail.   *)
(* A queue is a sequence here: HiveQueueC implements it; a handle dies     *)
(* with the last object that shares it: ThreadHandles shows when.          *)
(***************************************************************************)
EXTENDS Integers, Sequences, FiniteSets

CONSTANTS
  Sessions,      (* how many Connects are modelled; sessions are 1 .. Sessions *)
  Players,       (* the players, by UID                                    *)
  MaxMissions,   (* how many missions the server plays                     *)
  MaxPublish,    (* how many messages a session publishes before it leaves *)
  NoOne          (* no session                                             *)

ASSUME ExtensionAssumption ==
  /\ Sessions \in Nat \ {0}
  /\ MaxMissions \in Nat \ {0}
  /\ MaxPublish \in Nat
  /\ NoOne \notin 1 .. Sessions

Session == 1 .. Sessions

VARIABLES
  (* the rank module of the mission, on the game thread *)
  mission,     (* the number of the mission                                *)
  running,     (* PCS_RNK_RUNNING                                          *)
  dllSeen,     (* PCS_RNK_DLL_READY, kept in uiNamespace                   *)
  lastTrd,     (* PCS_RNK_LAST_TRD                                         *)
  player,      (* the UID of each session                                  *)
  game,        (* "none", "pending", "active", "left": the session as the  *)
               (* rank module sees it                                      *)
  published,   (* messages published so far                                *)
  commit,      (* the Commit call in progress: sessions to go, and all     *)
  kicked,      (* the sessions whose player GetState had kicked            *)
  (* the queues and the memory of a session *)
  oname,       (* the name of the output queue                             *)
  inQ, outQ,   (* the messages queued                                      *)
  inHive, inFunctor, (* whether they still share the input handle          *)
  outputs,     (* the list of output handles, in order of creation         *)
  data,        (* the array of a Commit record: "none", "live", "freed"    *)
  (* the connection threads *)
  worker,      (* where each one is; "over" once its handle says so        *)
  target,      (* the output handle it found                               *)
  (* the cleanup thread *)
  pool,        (* "none" or "ready": the global pointer mysql_pool         *)
  dllQ,        (* the +1 in DLL_O                                          *)
  cleanQ,      (* committed record lists that it has not received          *)
  batch,       (* those it has received, first one in progress             *)
  at,          (* the record of the first one it is at                     *)
  half,        (* the input hive of that record is deleted already         *)
  stateQ,      (* crash reports in CLEANUP_O                               *)
  fault        (* the process has died                                     *)

gameVars == <<mission, running, dllSeen, lastTrd, player, game, published,
              commit, kicked>>
queueVars == <<oname, inQ, outQ, inHive, inFunctor, outputs, data>>
workerVars == <<worker, target>>
cleanVars == <<pool, dllQ, cleanQ, batch, at, half>>
vars == <<gameVars, queueVars, workerVars, cleanVars, stateQ, fault>>

NoCommit == [todo |-> <<>>, all |-> <<>>]

Init ==
  /\ mission = 1
  /\ running = TRUE
  /\ dllSeen = FALSE
  /\ lastTrd = 0
  /\ player = [s \in Session |-> NoOne]
  /\ game = [s \in Session |-> "none"]
  /\ published = [s \in Session |-> 0]
  /\ commit = NoCommit
  /\ kicked = {}
  /\ oname = [s \in Session |-> 0]
  /\ inQ = [s \in Session |-> <<>>]
  /\ outQ = [s \in Session |-> <<>>]
  /\ inHive = {}
  /\ inFunctor = {}
  /\ outputs = <<>>
  /\ data = [s \in Session |-> "none"]
  /\ worker = [s \in Session |-> "none"]
  /\ target = [s \in Session |-> NoOne]
  /\ pool = "none"
  /\ dllQ = 0
  /\ cleanQ = <<>>
  /\ batch = <<>>
  /\ at = 1
  /\ half = FALSE
  /\ stateQ = <<>>
  /\ fault = FALSE

Outputs == {outputs[i] : i \in DOMAIN outputs}

(* The game thread is inside no other call, and the process lives.         *)
GameIdle == commit = NoCommit /\ ~fault

Open(s) == game[s] \in {"pending", "active"}

Push(q, s, m) == [q EXCEPT ![s] = Append(@, m)]
Pop(q, s) == [q EXCEPT ![s] = Tail(@)]
-----------------------------------------------------------------------------
(* The game thread.                                                        *)

(* AddPlayer: the EachFrame handler that waits for the pool does not hold  *)
(* it back.  RVExtension adds both handles, queues the Connect message and *)
(* spawns the thread, in this order.                                       *)
Connect(s, p) ==
  /\ GameIdle
  /\ running
  /\ game[s] = "none"
  /\ \A t \in 1 .. s - 1 : game[t] # "none"
  /\ \A t \in Session : player[t] = p => ~Open(t)
  /\ lastTrd' = lastTrd + 2
  /\ oname' = [oname EXCEPT ![s] = lastTrd + 1]
  /\ player' = [player EXCEPT ![s] = p]
  /\ game' = [game EXCEPT ![s] = "pending"]
  /\ inHive' = inHive \cup {s}
  /\ inFunctor' = inFunctor \cup {s}
  /\ outputs' = Append(outputs, s)
  /\ inQ' = Push(inQ, s, "Connect")
  /\ worker' = [worker EXCEPT ![s] = "start"]
  /\ UNCHANGED <<mission, running, dllSeen, published, commit, kicked, outQ,
                 data, target, cleanVars, stateQ, fault>>

(* GetDllState, polled once per frame until it returns 1.                  *)
GetDllState ==
  /\ GameIdle
  /\ running
  /\ ~dllSeen
  /\ dllQ > 0
  /\ dllQ' = dllQ - 1
  /\ dllSeen' = TRUE
  /\ UNCHANGED <<mission, running, lastTrd, player, game, published, commit,
                 kicked, queueVars, workerVars, pool, cleanQ, batch, at, half,
                 stateQ, fault>>

(* GetOutput for a pending record: the account string, if it is there.     *)
GetOutput(s) ==
  /\ GameIdle
  /\ running /\ dllSeen
  /\ game[s] = "pending"
  /\ outQ[s] # <<>>
  /\ outQ' = Pop(outQ, s)
  /\ game' = [game EXCEPT ![s] = "active"]
  /\ UNCHANGED <<mission, running, dllSeen, lastTrd, player, published, commit,
                 kicked, oname, inQ, inHive, inFunctor, outputs, data,
                 workerVars, cleanVars, stateQ, fault>>

(* Two sessions of one mission: each takes the next two thread names.      *)
SameMission(s, t) == oname[s] - oname[t] = 2 * (s - t)

(* The publish list names players, not sessions: an entry made for a       *)
(* session that was left, and not taken off the list, publishes for the    *)
(* next session of that player as soon as it is there (RankMain.sqf:284).  *)
StaleEntry(s) ==
  \E t \in 1 .. s - 1 :
    player[t] = player[s] /\ game[t] = "left" /\ SameMission(s, t)

(* Mutant: the publish list still finds the handle of one who has left.    *)
PublishLate(s) ==
  /\ GameIdle
  /\ running /\ dllSeen
  /\ game[s] \in {"active", "left"}
  /\ published[s] < MaxPublish
  /\ published' = [published EXCEPT ![s] = @ + 1]
  /\ inQ' = Push(inQ, s, "Publish")
  /\ UNCHANGED <<mission, running, dllSeen, lastTrd, player, game, commit,
                 kicked, oname, outQ, inHive, inFunctor, outputs, data,
                 workerVars, cleanVars, stateQ, fault>>

(* PublishKills, PublishChickens and PublishAccount.                       *)
Publish(s) ==
  /\ GameIdle
  /\ running /\ dllSeen
  /\ game[s] = "active" \/ (game[s] = "pending" /\ StaleEntry(s))
  /\ published[s] < MaxPublish
  /\ published' = [published EXCEPT ![s] = @ + 1]
  /\ inQ' = Push(inQ, s, "Publish")
  /\ UNCHANGED <<mission, running, dllSeen, lastTrd, player, game, commit,
                 kicked, oname, outQ, inHive, inFunctor, outputs, data,
                 workerVars, cleanVars, stateQ, fault>>

(* Mutant: only the first report is looked at.                             *)
FirstReported == {player[Head(stateQ)]}

(* GetState: all crash reports, and each player named in one is kicked if  *)
(* he is connected (RankMain.sqf:246-253).                                 *)
ReportedPlayers == {player[stateQ[i]] : i \in DOMAIN stateQ}

(* Mutant: the loop goes over the active records alone.                    *)
GetStateActive ==
  /\ GameIdle
  /\ running /\ dllSeen
  /\ stateQ # <<>>
  /\ stateQ' = <<>>
  /\ kicked' = kicked \cup {s \in Session : game[s] = "active" /\ player[s] \in ReportedPlayers}
  /\ UNCHANGED <<mission, running, dllSeen, lastTrd, player, game, published,
                 commit, queueVars, workerVars, cleanVars, fault>>

GetState ==
  /\ GameIdle
  /\ running /\ dllSeen
  /\ stateQ # <<>>
  /\ stateQ' = <<>>
  /\ kicked' = kicked \cup {s \in Session : Open(s) /\ player[s] \in ReportedPlayers}
  /\ UNCHANGED <<mission, running, dllSeen, lastTrd, player, game, published,
                 commit, queueVars, workerVars, cleanVars, fault>>

(* Mutant: the record stays among the active ones.                         *)
LeaveStays(s) ==
  /\ GameIdle
  /\ running
  /\ Open(s)
  /\ inQ' = (IF game[s] = "active" THEN Push(inQ, s, "Publish") ELSE inQ)
  /\ commit' = [todo |-> <<s>>, all |-> <<s>>]
  /\ UNCHANGED <<mission, running, dllSeen, lastTrd, player, game, published,
                 kicked, oname, outQ, inHive, inFunctor, outputs, data,
                 workerVars, cleanVars, stateQ, fault>>

(* RemovePlayer: the last PublishAccount of an active record, then Commit. *)
Leave(s) ==
  /\ GameIdle
  /\ running
  /\ Open(s)
  /\ game' = [game EXCEPT ![s] = "left"]
  /\ inQ' = (IF game[s] = "active" THEN Push(inQ, s, "Publish") ELSE inQ)
  /\ commit' = [todo |-> <<s>>, all |-> <<s>>]
  /\ UNCHANGED <<mission, running, dllSeen, lastTrd, player, published, kicked,
                 oname, outQ, inHive, inFunctor, outputs, data, workerVars,
                 cleanVars, stateQ, fault>>

(* EndGame, of a match that ran, hence with the main loop installed that   *)
(* it removes: PublishAccount for the active records that are on a side (a *)
(* banned player never is), then one Commit with all records, in some      *)
(* order.                                                                  *)
IsListOf(seq, set) ==
  /\ {seq[i] : i \in DOMAIN seq} = set
  /\ Len(seq) = Cardinality(set)

(* Mutant: every record there ever was is committed.                       *)
EndGameAll ==
  LET open == {s \in Session : game[s] # "none"} IN
  /\ GameIdle
  /\ running /\ dllSeen
  /\ running' = FALSE
  /\ game' = [s \in Session |-> IF s \in open THEN "left" ELSE game[s]]
  /\ \E all \in [1 .. Cardinality(open) -> open] :
       /\ IsListOf(all, open)
       /\ commit' = [todo |-> all, all |-> all]
  /\ UNCHANGED <<mission, dllSeen, lastTrd, player, published, kicked, oname,
                 inQ, outQ, inHive, inFunctor, outputs, data, workerVars,
                 cleanVars, stateQ, fault>>

EndGame ==
  LET open == {s \in Session : Open(s)} IN
  /\ GameIdle
  /\ running /\ dllSeen
  /\ running' = FALSE
  /\ game' = [s \in Session |-> IF s \in open THEN "left" ELSE game[s]]
  /\ \E listed \in SUBSET {s \in Session : game[s] = "active"} :
       inQ' = [s \in Session |->
                 IF s \in listed THEN Append(inQ[s], "Publish") ELSE inQ[s]]
  /\ \E all \in [1 .. Cardinality(open) -> open] :
       /\ IsListOf(all, open)
       /\ commit' = [todo |-> all, all |-> all]
  /\ UNCHANGED <<mission, dllSeen, lastTrd, player, published, kicked, oname,
                 outQ, inHive, inFunctor, outputs, data, workerVars, cleanVars,
                 stateQ, fault>>

(* RVExtension's loop over the records of a Commit: each worker is sent a  *)
(* message that shares the array of its record.                            *)
CommitRecord ==
  /\ ~fault
  /\ commit.todo # <<>>
  /\ LET s == Head(commit.todo) IN
       /\ inQ' = Push(inQ, s, "Commit")
       /\ data' = [data EXCEPT ![s] = "live"]
  /\ commit' = [commit EXCEPT !.todo = Tail(@)]
  /\ UNCHANGED <<mission, running, dllSeen, lastTrd, player, game, published,
                 kicked, oname, outQ, inHive, inFunctor, outputs, workerVars,
                 cleanVars, stateQ, fault>>

(* After the loop the message goes to the cleanup thread, which owns it.   *)
CommitDone ==
  /\ ~fault
  /\ commit.todo = <<>>
  /\ commit.all # <<>>
  /\ cleanQ' = Append(cleanQ, commit.all)
  /\ commit' = NoCommit
  /\ UNCHANGED <<mission, running, dllSeen, lastTrd, player, game, published,
                 kicked, queueVars, workerVars, pool, dllQ, batch, at, half,
                 stateQ, fault>>

(* The next mission starts: RankMain.sqf resets its variables, among them  *)
(* the counter thread names are made from.  The DLL stays loaded.          *)
NewMission ==
  /\ GameIdle
  /\ ~running
  /\ mission < MaxMissions
  /\ mission' = mission + 1
  /\ running' = TRUE
  /\ lastTrd' = 0
  /\ kicked' = {}
  /\ UNCHANGED <<dllSeen, player, game, published, commit, queueVars,
                 workerVars, cleanVars, stateQ, fault>>
-----------------------------------------------------------------------------
(* The connection threads.                                                 *)

MoveTo(s, place) == worker' = [worker EXCEPT ![s] = place]

At(s, place) == ~fault /\ worker[s] = place

(* The first receiveMsg does not block: Connect was queued before spawn.   *)
WStart(s) ==
  /\ At(s, "start")
  /\ inQ' = Pop(inQ, s)
  /\ MoveTo(s, "borrow")
  /\ UNCHANGED <<gameVars, oname, outQ, inHive, inFunctor, outputs, data,
                 target, cleanVars, stateQ, fault>>

(* One round of the borrow loop: two connections, one of them not to be    *)
(* had, or none that can be created; then one message is received, and     *)
(* dropped unless it is Commit.  "crashnull" is the failure that leaves    *)
(* opflcon without any connection.                                         *)
WBorrow(s) ==
  /\ At(s, "borrow")
  /\ pool = "ready"
  /\ inQ' = (IF inQ[s] = <<>> THEN inQ ELSE Pop(inQ, s))
  /\ IF inQ[s] # <<>> /\ Head(inQ[s]) = "Commit"
       THEN MoveTo(s, "over")
       ELSE \E place \in {"borrow", "setup", "crash", "crashnull"} : MoveTo(s, place)
  /\ UNCHANGED <<gameVars, oname, outQ, inHive, inFunctor, outputs, data,
                 target, cleanVars, stateQ, fault>>

(* mysql_pool is a null pointer until the constructor has returned.        *)
WBorrowNull(s) ==
  /\ At(s, "borrow")
  /\ pool = "none"
  /\ fault' = TRUE
  /\ UNCHANGED <<gameVars, queueVars, workerVars, cleanVars, stateQ>>

(* getThreadHandle: the first handle of that name in the list.             *)
Named(name) == {i \in DOMAIN outputs : oname[outputs[i]] = name}

(* Mutant: the handle that joined the list last.                           *)
LookupLast(name) == outputs[Len(outputs)]

Lookup(name) ==
  IF Named(name) = {} THEN NoOne
  ELSE outputs[CHOOSE i \in Named(name) : \A j \in Named(name) : i <= j]

(* The account and the ban data are read, the output handle looked up.     *)
WSetup(s) ==
  /\ At(s, "setup")
  /\ \/ MoveTo(s, "send") /\ target' = [target EXCEPT ![s] = Lookup(oname[s])]
     \/ MoveTo(s, "crash") /\ UNCHANGED target
  /\ UNCHANGED <<gameVars, queueVars, cleanVars, stateQ, fault>>

(* sendMsg to that handle, which holds no lock on the list: on a handle    *)
(* that is deleted by now anything may happen.                             *)
WSend(s) ==
  /\ At(s, "send")
  /\ IF target[s] \in Outputs
       THEN outQ' = Push(outQ, target[s], s) /\ UNCHANGED fault
       ELSE fault' \in BOOLEAN /\ UNCHANGED outQ
  /\ MoveTo(s, "serve")
  /\ UNCHANGED <<gameVars, oname, inQ, inHive, inFunctor, outputs, data,
                 target, cleanVars, stateQ>>

(* The blocking receive and the write of one message.                      *)
WServe(s) ==
  /\ At(s, "serve")
  /\ inQ[s] # <<>>
  /\ inQ' = Pop(inQ, s)
  /\ IF Head(inQ[s]) = "Commit"
       THEN MoveTo(s, "over")
       ELSE \E place \in {"serve", "crash"} : MoveTo(s, place)
  /\ UNCHANGED <<gameVars, oname, outQ, inHive, inFunctor, outputs, data,
                 target, cleanVars, stateQ, fault>>

(* The report for CLEANUP_O, then opflcon->ThreadEnd().                    *)
WCrash(s) ==
  /\ ~fault /\ worker[s] \in {"crash", "crashnull"}
  /\ stateQ' = Append(stateQ, s)
  /\ fault' = (worker[s] = "crashnull")
  /\ MoveTo(s, "over")
  /\ UNCHANGED <<gameVars, queueVars, target, cleanVars>>

(* The functor is destroyed, some time after running was reset.            *)
WGone(s) ==
  /\ At(s, "over")
  /\ s \in inFunctor
  /\ inFunctor' = inFunctor \ {s}
  /\ UNCHANGED <<gameVars, oname, inQ, outQ, inHive, outputs, data, workerVars,
                 cleanVars, stateQ, fault>>

Worker(s) ==
  \/ WStart(s) \/ WBorrow(s) \/ WBorrowNull(s) \/ WSetup(s)
  \/ WSend(s) \/ WServe(s) \/ WCrash(s) \/ WGone(s)
-----------------------------------------------------------------------------
(* The cleanup thread.                                                     *)

(* The pool's constructor returns, or throws what nothing catches.         *)
CStart ==
  /\ ~fault
  /\ pool = "none"
  /\ \/ pool' = "ready" /\ dllQ' = 1 /\ UNCHANGED fault
     \/ fault' = TRUE /\ UNCHANGED <<pool, dllQ>>
  /\ UNCHANGED <<gameVars, queueVars, workerVars, cleanQ, batch, at, half, stateQ>>

(* Mutant: one message is processed of all that were received.             *)
CReceiveOne ==
  /\ ~fault
  /\ pool = "ready"
  /\ batch = <<>>
  /\ cleanQ # <<>>
  /\ batch' = <<Head(cleanQ)>>
  /\ cleanQ' = <<>>
  /\ at' = 1
  /\ UNCHANGED <<gameVars, queueVars, workerVars, pool, dllQ, half, stateQ, fault>>

(* receiveAll, blocking.                                                   *)
CReceive ==
  /\ ~fault
  /\ pool = "ready"
  /\ batch = <<>>
  /\ cleanQ # <<>>
  /\ batch' = cleanQ
  /\ cleanQ' = <<>>
  /\ at' = 1
  /\ UNCHANGED <<gameVars, queueVars, workerVars, pool, dllQ, half, stateQ, fault>>

Busy == ~fault /\ batch # <<>> /\ at <= Len(Head(batch))

Record == Head(batch)[at]

(* Mutant: it does not wait.                                               *)
EndedUnasked(s) == TRUE

(* It sleeps until the thread has ended, then deletes the input hive ...   *)
Ended(s) == worker[s] = "over"

CDeleteInput ==
  /\ Busy
  /\ ~half
  /\ Ended(Record)
  /\ inHive' = inHive \ {Record}
  /\ half' = TRUE
  /\ UNCHANGED <<gameVars, oname, inQ, outQ, inFunctor, outputs, data,
                 workerVars, pool, dllQ, cleanQ, batch, at, stateQ, fault>>

(* ... and the output hive, the only object that shares its handle.        *)
CDeleteOutput ==
  /\ Busy
  /\ half
  /\ \E i \in DOMAIN outputs :
       /\ outputs[i] = Record
       /\ outputs' = SubSeq(outputs, 1, i - 1) \o SubSeq(outputs, i + 1, Len(outputs))
  /\ half' = FALSE
  /\ at' = at + 1
  /\ UNCHANGED <<gameVars, oname, inQ, outQ, inHive, inFunctor, data,
                 workerVars, pool, dllQ, cleanQ, batch, stateQ, fault>>

(* delete input[i]: the arrays of all its records go with it.              *)
CDeleteMsg ==
  /\ ~fault /\ batch # <<>>
  /\ at > Len(Head(batch))
  /\ data' = [s \in Session |->
                IF \E i \in DOMAIN Head(batch) : Head(batch)[i] = s
                  THEN "freed" ELSE data[s]]
  /\ batch' = Tail(batch)
  /\ at' = 1
  /\ UNCHANGED <<gameVars, oname, inQ, outQ, inHive, inFunctor, outputs,
                 workerVars, pool, dllQ, cleanQ, half, stateQ, fault>>

Cleanup == CStart \/ CReceive \/ CDeleteInput \/ CDeleteOutput \/ CDeleteMsg

CommitCall == CommitRecord \/ CommitDone

Next ==
  \/ \E s \in Session, p \in Players : Connect(s, p)
  \/ GetDllState
  \/ \E s \in Session : GetOutput(s) \/ Publish(s) \/ Leave(s)
  \/ GetState
  \/ EndGame
  \/ CommitCall
  \/ NewMission
  \/ \E s \in Session : Worker(s)
  \/ Cleanup

Spec == Init /\ [][Next]_vars

(* The threads are scheduled and a database call returns in the end, with  *)
(* an answer or an error.  Nothing forces a borrow to succeed: the loop is *)
(* only sure to get on when there is a message to receive.                 *)
WorkerDriven(s) == Worker(s) /\ (worker[s] # "borrow" \/ inQ[s] # <<>>)

Fairness ==
  /\ WF_vars(CommitCall)
  /\ WF_vars(Cleanup)
  /\ \A s \in Session : WF_vars(WorkerDriven(s))

FairSpec == Spec /\ Fairness

(* The EachFrame handler polls GetDllState every frame and GetState every  *)
(* second, and the server carries out its own `#exec kick`.                *)
Polled ==
  /\ WF_vars(GetDllState)
  /\ WF_vars(GetState)
  /\ \A s \in Session : WF_vars(s \in kicked /\ Leave(s))
-----------------------------------------------------------------------------
InSeq(s, q) == \E i \in DOMAIN q : q[i] = s

(* A pointer the mission still holds, and hands to GetOutput, Publish or   *)
(* Commit, is not one the cleanup thread has deleted; the same of a record *)
(* whose Commit is not sent yet.                                           *)
GameHivesLive ==
  \A s \in Session :
    Open(s) \/ InSeq(s, commit.todo) => s \in inHive /\ s \in Outputs

(* A record is handed to the cleanup thread once, so that it never waits   *)
(* on a hive, or deletes one, that it has already deleted.                 *)
Lists == batch \o cleanQ \o <<commit.all>>

ToDelete ==
  {x \in (DOMAIN Lists) \X (1 .. Sessions) :
     /\ x[2] <= Len(Lists[x[1]])
     /\ batch # <<>> /\ x[1] = 1 => x[2] >= at + (IF half THEN 1 ELSE 0)}

DeletedOnce ==
  LET named(x) == Lists[x[1]][x[2]] IN
  /\ \A x \in ToDelete : named(x) \in inHive \cap Outputs
  /\ \A x, y \in ToDelete : named(x) = named(y) => x = y

(* A Commit message shares the array of its record with the message the    *)
(* cleanup thread deletes (OPFL.cpp:505): as long as a thread may receive  *)
(* the one, the other is there.                                            *)
CommitDataLive ==
  \A s \in Session :
    worker[s] # "over" /\ InSeq("Commit", inQ[s]) => data[s] = "live"

(* Commit is the last message of a session: whatever the mission published *)
(* before it is ahead of it in the queue, and nothing comes after it that  *)
(* a thread would leave unwritten.                                         *)
CommitLast ==
  \A s \in Session : \A i \in DOMAIN inQ[s] :
    inQ[s][i] = "Commit" => i = Len(inQ[s])

(* A thread sends its account string to a handle that exists.              *)
TargetLive ==
  \A s \in Session : worker[s] = "send" => target[s] \in Outputs

(* "unique output queue", "the correct output will be given to the output  *)
(* thread" (OPFL.cpp:457, 464): a session reads its own account, once.     *)
OutputReachesOwner ==
  \A s \in Session : outQ[s] \in {<<>>, <<s>>}

(* "kick all clients with dead DB connections" (RankMain.sqf:246): however *)
(* many threads died at once, none of their players plays on with nothing  *)
(* of his being saved; each session is left, by its player or the kick.    *)
CrashEnds ==
  Polled => \A s \in Session :
              Open(s) /\ worker[s] = "over" ~> fault \/ game[s] = "left"

(* The part of it that no fairness is needed for: the thread of a session  *)
(* the mission still has ends with a report, and a report that was read    *)
(* is acted on, whatever the record of the player was doing.  (The         *)
(* converse does not hold: a report names the player only, and kicks the   *)
(* session he has by then.)                                                *)
CrashReported ==
  \A s \in Session :
    Open(s) /\ worker[s] = "over" => InSeq(s, stateQ) \/ s \in kicked

(* Thread names are unique as long as the mission that loaded the DLL      *)
(* lasts: each thread then sends to a handle that is there, its own.       *)
OutputInMission == mission = 1 => OutputReachesOwner /\ TargetLive

(* A session that was left gives all of its memory back, whatever its      *)
(* thread was doing: waiting for a connection, serving, or dead.           *)
CommitCleans ==
  \A s \in Session :
    game[s] = "left" ~> fault \/ (s \notin inHive \cup inFunctor /\ s \notin Outputs
                                   /\ data[s] = "freed")
=============================================================================
