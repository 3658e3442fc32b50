--------------------------- MODULE AccountSession ---------------------------
(***************************************************************************)
(* mycallback of OPFL.cpp, the life of one session's thread, with the two  *)
(* pooled connections it holds (opflcon for the account, opflcon2 for the  *)
(* ban data) and the transactions it runs on them.                         *)
(*                                                                         *)
(* The database is external: two tables of rows, autocommit off, READ      *)
(* COMMITTED.  INSERT IGNORE, SELECT ... FOR UPDATE and UPDATE lock the    *)
(* row for their connection until it commits, rolls back or is closed.  A  *)
(* statement fails because the link is lost (the server has rolled back),  *)
(* because it waited too long for a lock, or with an error of its own; in  *)
(* the last two cases the transaction stays open.  Of an account's columns *)
(* the model keeps one number that grows with every change the mission     *)
(* publishes; of the ban data, the ditch counter (left).                   *)
(***************************************************************************)
EXTENDS ConnectionPool

CONSTANTS
  Sessions,     (* sessions are 1 .. Sessions                              *)
  Account,      (* the UIDs                                                *)
  AccountOf,    (* the account of each session                             *)
  StartLeft,    (* the ditch counters the database may start with          *)
  MaxVal,       (* how far an account grows                                *)
  MaxFailures   (* how many links are lost and statements go wrong         *)

Session == 1 .. Sessions
One(s) == <<s, "opflcon">>
Two(s) == <<s, "opflcon2">>

ASSUME SessionAssumption ==
  /\ Sessions \in Nat \ {0}
  /\ AccountOf \in [Session -> Account]
  /\ StartLeft \subseteq 0 .. 5
  /\ MaxVal \in Nat /\ MaxFailures \in Nat
  /\ Holder = Session \X {"opflcon", "opflcon2"}

VARIABLES
  account,   (* the table useraccounts: value, lock, uncommitted value     *)
  ban,       (* the table administration, the same for the ditch counter   *)
  place,     (* the call each session's thread is at                       *)
  msgs,      (* its input queue                                            *)
  rejoin,    (* the player took part in this match before                  *)
  val, left, (* act.rank .. act.chickens, and act.left                     *)
  view,      (* the account as the mission has it                          *)
  played,    (* the accounts with points in the current match              *)
  gone,      (* the sessions the mission has committed                     *)
  outcome,   (* "saved" when the account's last commit went through        *)
  failures,
  fault      (* the process has died                                       *)

dbVars == <<account, ban>>
ownVars == <<val, left, outcome>>
gameVars == <<rejoin, view, played, gone>>
vars == <<poolVars, dbVars, place, msgs, ownVars, gameVars, failures, fault>>

Row(v) == [val |-> v, lock |-> NoConn, tx |-> v]

Init ==
  /\ pool \in {q \in [1 .. PoolSize -> Conn] :
                 \A i, j \in 1 .. PoolSize : q[i] = q[j] => i = j}
  /\ borrowed = {}
  /\ ptr = [h \in Holder |-> NoConn]
  /\ lent = {}
  /\ built = "ready"
  /\ healthy = InPool
  /\ account = [a \in Account |-> Row(0)]
  /\ ban \in [Account -> {Row(n) : n \in StartLeft}]
  /\ place = [s \in Session |-> "none"]
  /\ msgs = [s \in Session |-> <<>>]
  /\ rejoin = [s \in Session |-> FALSE]
  /\ val = [s \in Session |-> 0]
  /\ left = [s \in Session |-> 0]
  /\ view = [s \in Session |-> -1]
  /\ played = {}
  /\ gone = {}
  /\ outcome = [s \in Session |-> "open"]
  /\ failures = 0
  /\ fault = FALSE

MoveTo(s, p) == place' = [place EXCEPT ![s] = p]

At(s, p) == ~fault /\ place[s] = p

Con(s) == ptr[One(s)]
Con2(s) == ptr[Two(s)]
-----------------------------------------------------------------------------
(* The database.                                                           *)

Free(row, c) == row.lock \in {NoConn, c}

(* Mutant: SELECT without FOR UPDATE, and no other lock.                   *)
NotLocked(row, c) == row

Locked(row, c) == [row EXCEPT !.lock = c]

Written(row, v) == [row EXCEPT !.tx = v]

Committed(row) == [val |-> row.tx, lock |-> NoConn, tx |-> row.tx]

RolledBack(row) == [val |-> row.val, lock |-> NoConn, tx |-> row.val]

CommittedIn(table, c) ==
  [a \in Account |-> IF table[a].lock = c THEN Committed(table[a]) ELSE table[a]]

RolledBackIn(table, C) ==
  [a \in Account |-> IF table[a].lock \in C THEN RolledBack(table[a]) ELSE table[a]]

Commit(c) ==
  account' = CommittedIn(account, c) /\ ban' = CommittedIn(ban, c)

Rollback(C) ==
  account' = RolledBackIn(account, C) /\ ban' = RolledBackIn(ban, C)

AccountRow(s) == account[AccountOf[s]]
BanRow(s) == ban[AccountOf[s]]

(* A statement of s on connection c that needs the row.                    *)
Runs(row, c) == c \in healthy /\ Free(row, c)

OnAccount(s, row) ==
  /\ Runs(AccountRow(s), Con(s))
  /\ account' = [account EXCEPT ![AccountOf[s]] = Locked(row, Con(s))]
  /\ UNCHANGED <<poolVars, ban, gameVars, failures, fault>>

OnBan(s, row) ==
  /\ Runs(BanRow(s), Con2(s))
  /\ ban' = [ban EXCEPT ![AccountOf[s]] = Locked(row, Con2(s))]
  /\ UNCHANGED <<poolVars, account, gameVars, failures, fault>>

(* A lost link and a lock that is not released cost no failure: the one    *)
(* was counted when it happened, the other is a lock wait timeout.         *)
GoesWrong(row, c) ==
  \/ c \notin healthy /\ UNCHANGED failures
  \/ ~Free(row, c) /\ UNCHANGED failures
  \/ failures < MaxFailures /\ failures' = failures + 1

StatementFails(s, row, c, next) ==
  /\ GoesWrong(row, c)
  /\ MoveTo(s, next)
  /\ UNCHANGED <<poolVars, dbVars, msgs, ownVars, gameVars, fault>>

(* CommitData: a commit whose link breaks may or may not have happened.    *)
CommitSucceeds(c) ==
  /\ c \in healthy
  /\ Commit(c)
  /\ UNCHANGED <<poolVars, failures>>

CommitFails(c) ==
  \/ c \notin healthy /\ UNCHANGED <<poolVars, dbVars, failures>>
  \/ /\ c \in healthy
     /\ failures < MaxFailures
     /\ failures' = failures + 1
     /\ healthy' = healthy \ {c}
     /\ Commit(c) \/ Rollback({c})
     /\ UNCHANGED <<pool, borrowed, ptr, lent, built>>

(* The server or the network drops a link, and rolls back what was open.   *)
LinkLost(c) ==
  /\ ~fault
  /\ failures < MaxFailures
  /\ failures' = failures + 1
  /\ Break(c)
  /\ Rollback({c})
  /\ UNCHANGED <<place, msgs, ownVars, gameVars, fault>>
-----------------------------------------------------------------------------
(* The mission, as OpflExtension has it, one session of a player at a time. *)

Message(name, v, punish) == [name |-> name, val |-> v, punish |-> punish]

PublishAccount(s, v) == Message("PublishAccount", v, FALSE)

Sent(s) == view[s] >= 0

Connect(s) ==
  /\ ~fault
  /\ place[s] = "none"
  /\ \A t \in 1 .. s - 1 :
       place[t] # "none" /\ (AccountOf[t] = AccountOf[s] => t \in gone)
  /\ MoveTo(s, "borrow")
  /\ rejoin' = [rejoin EXCEPT ![s] = AccountOf[s] \in played]
  /\ UNCHANGED <<poolVars, dbVars, msgs, ownVars, view, played, gone, failures,
                 fault>>

(* PublishKills and PublishChickens would differ in the column only.       *)
Publish(s) ==
  /\ ~fault
  /\ Sent(s) /\ s \notin gone
  /\ view[s] < MaxVal
  /\ view' = [view EXCEPT ![s] = @ + 1]
  /\ msgs' = [msgs EXCEPT ![s] = Append(@, PublishAccount(s, view[s] + 1))]
  /\ UNCHANGED <<poolVars, dbVars, place, ownVars, rejoin, played, gone,
                 failures, fault>>

(* RemovePlayer.  Whoever has points is punished, unless the module is off *)
(* (PCS_RNK_ON) or the match is over (EndGame); points are for players who *)
(* have their record, and stay for the match.                              *)
Leave(s) ==
  /\ ~fault
  /\ place[s] # "none" /\ s \notin gone
  /\ gone' = gone \cup {s}
  /\ \E active \in {FALSE, Sent(s)} :
       /\ played' \in {played, IF active THEN played \cup {AccountOf[s]} ELSE played}
       /\ \E punish \in {FALSE, AccountOf[s] \in played'} :
            msgs' = [msgs EXCEPT ![s] =
                       (IF active THEN Append(@, PublishAccount(s, view[s])) ELSE @)
                         \o <<Message("Commit", 0, punish)>>]
  /\ UNCHANGED <<poolVars, dbVars, place, ownVars, rejoin, view, failures, fault>>
-----------------------------------------------------------------------------
(* The borrow loop.                                                        *)

(* A replaced connection is closed, and the server rolls it back.          *)
Borrow(h) ==
  /\ BorrowIdle(h) \/ BorrowReplace(h)
  /\ Rollback(borrowed \ borrowed')
  /\ UNCHANGED built

BorrowFails(s) ==
  /\ \/ BorrowUnavailable /\ MoveTo(s, "again")
     \/ BorrowImpossible /\ MoveTo(s, "hopeless")
  /\ UNCHANGED <<built, dbVars>>

WBorrow(s) ==
  /\ At(s, "borrow")
  /\ (Borrow(One(s)) /\ MoveTo(s, "borrow2")) \/ BorrowFails(s)
  /\ UNCHANGED <<msgs, ownVars, gameVars, failures, fault>>

WBorrow2(s) ==
  /\ At(s, "borrow2")
  /\ (Borrow(Two(s)) /\ MoveTo(s, "got")) \/ BorrowFails(s)
  /\ UNCHANGED <<msgs, ownVars, gameVars, failures, fault>>

(* The locals go out of scope, and the thread ends.                        *)
ThreadEnds(s) ==
  /\ MoveTo(s, "over")
  /\ ptr' = [ptr EXCEPT ![One(s)] = NoConn, ![Two(s)] = NoConn]
  /\ lent' = lent \ {One(s), Two(s)}
  /\ UNCHANGED <<pool, borrowed, built, healthy>>

(* receiveMsg, not blocking, after each try.                               *)
NextTry(s) ==
  MoveTo(s, CASE place[s] = "got" -> "CreateAccount"
              [] place[s] = "again" -> "borrow"
              [] place[s] = "hopeless" -> "crash")

(* Mutant: Commit is dropped like any other message.                       *)
DropsCommit(s) == NextTry(s) /\ UNCHANGED poolVars

GivesUp(s) ==
  IF place[s] = "got"
    THEN MoveTo(s, "unborrow2") /\ UNCHANGED poolVars
    ELSE ThreadEnds(s)

WPoll(s) ==
  /\ ~fault /\ place[s] \in {"got", "again", "hopeless"}
  /\ msgs' = [msgs EXCEPT ![s] = IF @ = <<>> THEN @ ELSE Tail(@)]
  /\ IF msgs[s] # <<>> /\ Head(msgs[s]).name = "Commit"
       THEN GivesUp(s)
       ELSE NextTry(s) /\ UNCHANGED poolVars
  /\ UNCHANGED <<dbVars, ownVars, gameVars, failures, fault>>
-----------------------------------------------------------------------------
(* Reading the account and the ban data.                                   *)

WCreateAccount(s) ==
  /\ At(s, "CreateAccount")
  /\ \/ OnAccount(s, AccountRow(s)) /\ MoveTo(s, "GetAccount") /\ UNCHANGED <<msgs, ownVars>>
     \/ StatementFails(s, AccountRow(s), Con(s), "crash")

(* Mutant: the struct is not filled in.                                    *)
WGetAccountUnread(s) ==
  /\ At(s, "GetAccount")
  /\ \/ /\ OnAccount(s, AccountRow(s))
        /\ MoveTo(s, "CreateBanData")
        /\ UNCHANGED <<msgs, ownVars>>
     \/ StatementFails(s, AccountRow(s), Con(s), "crash")

WGetAccount(s) ==
  /\ At(s, "GetAccount")
  /\ \/ /\ OnAccount(s, AccountRow(s))
        /\ val' = [val EXCEPT ![s] = AccountRow(s).tx]
        /\ MoveTo(s, "CreateBanData")
        /\ UNCHANGED <<msgs, left, outcome>>
     \/ StatementFails(s, AccountRow(s), Con(s), "crash")

WCreateBanData(s) ==
  /\ At(s, "CreateBanData")
  /\ \/ OnBan(s, BanRow(s)) /\ MoveTo(s, "GetBanData") /\ UNCHANGED <<msgs, ownVars>>
     \/ StatementFails(s, BanRow(s), Con2(s), "crash")

(* Mutant: whoever is not banned is forgiven everything.                   *)
ForgivenAll(n, banned) == IF n = 0 \/ ~banned THEN 0 ELSE n - 1

(* A player who comes back is forgiven one point of the counter, or all of *)
(* them when he had five and his ban is over, which the clock decides.     *)
Forgiven(n, banned) ==
  IF n = 0 THEN 0 ELSE IF n > 4 /\ ~banned THEN 0 ELSE n - 1

WGetBanData(s) ==
  /\ At(s, "GetBanData")
  /\ \/ /\ OnBan(s, BanRow(s))
        /\ IF rejoin[s]
             THEN /\ \E banned \in BOOLEAN :
                       left' = [left EXCEPT ![s] = Forgiven(BanRow(s).tx, banned)]
                  /\ MoveTo(s, "WriteBanData")
             ELSE /\ left' = [left EXCEPT ![s] = BanRow(s).tx]
                  /\ MoveTo(s, "CommitBanData")
        /\ UNCHANGED <<msgs, val, outcome>>
     \/ StatementFails(s, BanRow(s), Con2(s), "crash")

WWriteBanData(s) ==
  /\ At(s, "WriteBanData")
  /\ \/ /\ OnBan(s, Written(BanRow(s), left[s]))
        /\ MoveTo(s, "CommitBanData")
        /\ UNCHANGED <<msgs, ownVars>>
     \/ StatementFails(s, BanRow(s), Con2(s), "crash")

WCommitBanData(s) ==
  /\ At(s, "CommitBanData")
  /\ \/ CommitSucceeds(Con2(s)) /\ MoveTo(s, "send")
     \/ CommitFails(Con2(s)) /\ MoveTo(s, "crash")
  /\ UNCHANGED <<msgs, ownVars, gameVars, fault>>

WSend(s) ==
  /\ At(s, "send")
  /\ view' = [view EXCEPT ![s] = val[s]]
  /\ MoveTo(s, "serve")
  /\ UNCHANGED <<poolVars, dbVars, msgs, ownVars, rejoin, played, gone, failures,
                 fault>>
-----------------------------------------------------------------------------
(* Serving the session, and its end.                                       *)

WPublish(s) ==
  LET m == Head(msgs[s]) IN
  /\ At(s, "serve")
  /\ msgs[s] # <<>> /\ m.name = "PublishAccount"
  /\ msgs' = [msgs EXCEPT ![s] = Tail(@)]
  /\ val' = [val EXCEPT ![s] = m.val]
  /\ \/ OnAccount(s, Written(AccountRow(s), m.val)) /\ UNCHANGED place
     \/ /\ GoesWrong(AccountRow(s), Con(s))
        /\ MoveTo(s, "crash")
        /\ UNCHANGED <<poolVars, dbVars, gameVars, fault>>
  /\ UNCHANGED <<left, outcome>>

WCommitMsg(s) ==
  LET m == Head(msgs[s]) IN
  /\ At(s, "serve")
  /\ msgs[s] # <<>> /\ m.name = "Commit"
  /\ msgs' = [msgs EXCEPT ![s] = Tail(@)]
  /\ MoveTo(s, IF m.punish THEN "PunishGet" ELSE "Return2")
  /\ UNCHANGED <<poolVars, dbVars, ownVars, gameVars, failures, fault>>

(* The sixth point of a ditch counter starts the count again.              *)
Punished(n) == IF n > 4 THEN 1 ELSE IF n > 3 THEN 5 ELSE n + 1

WPunishGet(s) ==
  /\ At(s, "PunishGet")
  /\ \/ /\ OnBan(s, BanRow(s))
        /\ left' = [left EXCEPT ![s] = Punished(BanRow(s).tx)]
        /\ MoveTo(s, "PunishWrite")
        /\ UNCHANGED <<msgs, val, outcome>>
     \/ StatementFails(s, BanRow(s), Con2(s), "CommitData")

(* Mutant: opflcon2 is returned although the write went wrong.             *)
WPunishWriteReturns(s) ==
  /\ At(s, "PunishWrite")
  /\ \/ /\ OnBan(s, Written(BanRow(s), left[s]))
        /\ MoveTo(s, "PunishCommit")
        /\ UNCHANGED <<msgs, ownVars>>
     \/ StatementFails(s, BanRow(s), Con2(s), "Return2")

WPunishWrite(s) ==
  /\ At(s, "PunishWrite")
  /\ \/ /\ OnBan(s, Written(BanRow(s), left[s]))
        /\ MoveTo(s, "PunishCommit")
        /\ UNCHANGED <<msgs, ownVars>>
     \/ StatementFails(s, BanRow(s), Con2(s), "CommitData")

WPunishCommit(s) ==
  /\ At(s, "PunishCommit")
  /\ \/ CommitSucceeds(Con2(s)) /\ MoveTo(s, "Return2")
     \/ CommitFails(Con2(s)) /\ MoveTo(s, "CommitData")
  /\ UNCHANGED <<msgs, ownVars, gameVars, fault>>

(* Mutant: the thread ends without CommitData.                             *)
WNoCommitData(s) ==
  /\ At(s, "CommitData")
  /\ MoveTo(s, "Return1")
  /\ outcome' = [outcome EXCEPT ![s] = "saved"]
  /\ UNCHANGED <<poolVars, dbVars, msgs, val, left, gameVars, failures, fault>>

WCommitData(s) ==
  /\ At(s, "CommitData")
  /\ \/ /\ CommitSucceeds(Con(s))
        /\ MoveTo(s, "Return1")
        /\ outcome' = [outcome EXCEPT ![s] = "saved"]
     \/ /\ CommitFails(Con(s))
        /\ MoveTo(s, "end")
        /\ UNCHANGED outcome
  /\ UNCHANGED <<msgs, val, left, gameVars, fault>>

(* unborrow(opflcon2) and unborrow(opflcon): "Return" after serving, and   *)
(* "unborrow" when Commit came while the connections were being borrowed.  *)
WReturn(s) ==
  /\ ~fault
  /\ \/ place[s] = "Return2" /\ Unborrow(Two(s)) /\ MoveTo(s, "CommitData")
     \/ place[s] = "unborrow2" /\ Unborrow(Two(s)) /\ MoveTo(s, "Return1")
     \/ place[s] = "Return1" /\ Unborrow(One(s)) /\ MoveTo(s, "end")
  /\ UNCHANGED <<built, dbVars, msgs, ownVars, gameVars, failures, fault>>

WEnd(s) ==
  /\ At(s, "end")
  /\ ThreadEnds(s)
  /\ UNCHANGED <<dbVars, msgs, ownVars, gameVars, failures, fault>>

(* The report to CLEANUP_O, then opflcon->ThreadEnd(), whatever opflcon is. *)
WCrash(s) ==
  /\ At(s, "crash")
  /\ fault' = (Con(s) = NoConn)
  /\ ThreadEnds(s)
  /\ UNCHANGED <<dbVars, msgs, ownVars, gameVars, failures>>

Worker(s) ==
  \/ WBorrow(s) \/ WBorrow2(s) \/ WPoll(s)
  \/ WCreateAccount(s) \/ WGetAccount(s) \/ WCreateBanData(s) \/ WGetBanData(s)
  \/ WWriteBanData(s) \/ WCommitBanData(s) \/ WSend(s)
  \/ WPublish(s) \/ WCommitMsg(s)
  \/ WPunishGet(s) \/ WPunishWrite(s) \/ WPunishCommit(s)
  \/ WCommitData(s) \/ WReturn(s) \/ WEnd(s) \/ WCrash(s)

Next ==
  \/ \E s \in Session : Connect(s) \/ Publish(s) \/ Leave(s) \/ Worker(s)
  \/ \E c \in Conn : LinkLost(c)

Spec == Init /\ [][Next]_vars

(* Each thread is scheduled, and each call it makes returns in the end.    *)
FairSpec == Spec /\ \A s \in Session : WF_vars(Worker(s))
-----------------------------------------------------------------------------
(* What goes back to the pool holds no row: the next player who is lent    *)
(* the connection does not inherit a transaction of the last one.          *)
PoolClean ==
  \A a \in Account : {account[a].lock, ban[a].lock} \cap InPool = {}

(* While the links hold, one thread at a time is between reading an        *)
(* account and committing it: a player who comes back reads what his last  *)
(* session left, its punishment included, and not the state before.        *)
Owning == {"CreateBanData", "GetBanData", "WriteBanData", "CommitBanData", "send",
           "serve", "PunishGet", "PunishWrite", "PunishCommit", "Return2", "CommitData"}

OneOwner ==
  \A s, t \in Session :
    /\ place[s] \in Owning /\ Con(s) \in healthy
    /\ place[t] \in Owning /\ Con(t) \in healthy
    /\ AccountOf[s] = AccountOf[t]
    => s = t

(* What the mission published is in the table once CommitData succeeded,   *)
(* and stays there.                                                        *)
SavedIsDurable ==
  \A s \in Session : outcome[s] = "saved" => AccountRow(s).val >= view[s]

(* No commit puts an older account over a newer one, in whatever order the *)
(* threads of a player's sessions run and fail.                            *)
NoLostUpdate == [][\A a \in Account : account'[a].val >= account[a].val]_vars

(* A commit moves the ditch counter by one punishment or one pardon, never *)
(* by two at once and never past five.                                     *)
OneStep(m, n) ==
  \/ n \in {m - 1, m + 1} /\ n \in 0 .. 5
  \/ m = 5 /\ n \in {0, 1}

DitchMoves ==
  [][\A a \in Account : ban'[a].val # ban[a].val =>
        OneStep(ban[a].val, ban'[a].val)]_vars

(* A session that was left ends, wherever its thread was.                  *)
CommitEnds == \A s \in Session : s \in gone ~> place[s] = "over" \/ fault

(* A session that is alone gets its connections in the end, whatever the   *)
(* others left behind: connections that were returned, or abandoned with a *)
(* transaction still open, or whose link is lost.                          *)
Alone(s) == \A t \in Session \ {s} : place[t] \in {"none", "over"}

BorrowGetsOn ==
  \A s \in Session :
    Alone(s) /\ place[s] = "borrow"
      ~> ~Alone(s) \/ place[s] \notin {"borrow", "borrow2", "again"} \/ fault

=============================================================================
