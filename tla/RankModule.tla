----------------------------- MODULE RankModule -----------------------------
(***************************************************************************)
(* The rank module of the mission, PUBLIC_CODE_SYSTEM/RANK_MODULE, on top  *)
(* of the threads of the extension it talks to.                            *)
(*                                                                         *)
(* A player who connects gets a session of the extension (AddPlayer) and a *)
(* record of zeros that waits in PCS_RNK_PENDING_RECORDS for the account;  *)
(* the main loop polls for it, merges it into the record and puts the      *)
(* player on the list of his side.  Kills change the record and put an     *)
(* entry into PCS_RNK_PUBLISH, which the loop empties once a second.  A    *)
(* player who leaves (RemovePlayer), or the end of the game (EndGame),     *)
(* publishes the record once more and commits the session.                 *)
(*                                                                         *)
(* The extension runs every command to completion before the next, so each *)
(* event handler of the mission is one step; the threads of the sessions   *)
(* run in between.  Of an account only the kills are modelled: no handler  *)
(* treats another field differently.  A publish entry names a player and   *)
(* the id of one of his connections, for which the session number stands.  *)
(* After EndGame the mission is over: what its handlers still do changes   *)
(* no record, and none of them is modelled.                                *)
(***************************************************************************)
EXTENDS Integers, Sequences, SequencesExt, FiniteSets

CONSTANTS
  Player,       (* UIDs                                                    *)
  MaxSessions,  (* bound: how many connections of players there are        *)
  MaxKills,     (* bound: the kills in a record                            *)
  Initial,      (* the kills in the accounts before the mission            *)
  MaxInbox,     (* bound: messages that wait for one thread                *)
  None          (* nil, or nothing there                                   *)

ASSUME RankAssumption ==
  /\ MaxSessions \in Nat /\ MaxKills \in Nat /\ MaxInbox \in Nat
  /\ Initial \in 0 .. MaxKills
  /\ None \notin Int /\ None \notin {"west", "east"}

VARIABLES
  here,     (* UIDs the connection handler lists                           *)
  side,     (* <uid>_SIDE                                                  *)
  agreed,   (* <uid>_AGREED                                                *)
  handle,   (* the session in RECORDS[uid]; None: it is the bare progress  *)
  kills,    (* the kills in the record                                     *)
  played,   (* the progress is greater than 0                              *)
  pending,  (* PCS_RNK_PENDING_RECORDS, whose order is of no importance    *)
  active,   (* PCS_RNK_ACTIVE_RECORDS                                      *)
  team,     (* PCS_RNK_WEST_RECORDS and PCS_RNK_EAST_RECORDS               *)
  publish,  (* PCS_RNK_PUBLISH                                             *)
  lpi,      (* <uid>_LPI                                                   *)
  running,  (* PCS_RNK_RUNNING; the main loop goes with it                 *)
  ran,      (* PCS_RNK_REAL_GL > 0: the clock of the match has run         *)
  bodies,   (* the players of whom a body lies about: OPFL_UNIT_UID        *)
  owner,    (* whose session is the s-th                                   *)
  stage,    (* what the thread of a session is at                          *)
  inbox,    (* messages that wait for it                                   *)
  output,   (* the account it has sent to the mission                      *)
  row,      (* the account as its transaction sees it                      *)
  db,       (* the accounts, as committed                                  *)
  final     (* history: the record of a player in the game at his Commit   *)

mission == <<here, side, agreed, handle, kills, played, pending,
             active, team, publish, lpi, running, ran, bodies>>
threads == <<stage, inbox, output, row, db>>
vars == <<mission, owner, threads, final>>

Side == {"west", "east"}
Session == 1 .. MaxSessions
Open == DOMAIN owner

PublishAccount(k) == [name |-> "PublishAccount", kills |-> k]
Commit == [name |-> "Commit", kills |-> 0]

InGame == team["west"] \cup team["east"]
Uids(entries) == {e.uid : e \in entries}

Init ==
  /\ here = {}
  /\ side = [p \in Player |-> None]
  /\ agreed = [p \in Player |-> FALSE]
  /\ handle = [p \in Player |-> None]
  /\ kills = [p \in Player |-> 0]
  /\ played = [p \in Player |-> FALSE]
  /\ pending = {} /\ active = {}
  /\ team = [x \in Side |-> {}]
  /\ publish = <<>>
  /\ lpi = [p \in Player |-> None]
  /\ running = TRUE
  /\ ran = FALSE
  /\ bodies = {}
  /\ owner = <<>>
  /\ stage = [s \in Session |-> "none"]
  /\ inbox = [s \in Session |-> <<>>]
  /\ output = [s \in Session |-> None]
  /\ row = [s \in Session |-> None]
  /\ db = [p \in Player |-> Initial]
  /\ final = [s \in Session |-> None]
-----------------------------------------------------------------------------
(* AddPlayer: Connect starts a thread; the new record is zeros, except for *)
(* the progress of the player's last connection in this mission.           *)
AddPlayer(p) ==
  LET s == Len(owner) + 1 IN
    /\ Len(owner) < MaxSessions
    /\ owner' = Append(owner, p)
    /\ stage' = [stage EXCEPT ![s] = "borrow"]
    /\ handle' = [handle EXCEPT ![p] = s]
    /\ kills' = [kills EXCEPT ![p] = 0]
    /\ active' = active \cup {p}
    /\ pending' = pending \cup {[uid |-> p, handle |-> s]}

(* OnConnected: AddConnection, AddPendingClient and AddPlayer, in a row.   *)
OnConnected(p) ==
  /\ p \notin here
  /\ here' = here \cup {p}
  /\ running
  /\ AddPlayer(p)
  /\ UNCHANGED <<side, agreed, played, team, publish, lpi, running, ran, bodies,
                 inbox, output, row, db, final>>

(* deleteAt: an index past the end deletes nothing; what -1 deletes, the   *)
(* last entry or none, depends on the version of the engine.               *)
DeleteAt(entries, i) ==
  IF i = -1 THEN {entries} \cup {Front(e) : e \in {entries} \ {<<>>}}
  ELSE IF i < Len(entries) THEN {RemoveAt(entries, i + 1)}
  ELSE {entries}

(* Mutants: the session is committed before the record is published; it is *)
(* not committed at all.                                                   *)
CommitFirst(p) ==
  /\ inbox' = [inbox EXCEPT ![handle[p]] =
                 @ \o <<Commit, PublishAccount(kills[p])>>]
  /\ pending' = pending \ {[uid |-> p, handle |-> handle[p]]}
  /\ final' = [final EXCEPT ![handle[p]] =
                 IF p \in Uids(pending) THEN None ELSE kills[p]]
  /\ UNCHANGED <<publish, lpi>>

PublishOnly(p) ==
  /\ inbox' = [inbox EXCEPT ![handle[p]] = Append(@, PublishAccount(kills[p]))]
  /\ pending' = pending \ {[uid |-> p, handle |-> handle[p]]}
  /\ UNCHANGED <<publish, lpi, final>>

(* A record that is not pending any more is published once more, and the   *)
(* entry at the remembered index is taken off the publish list.            *)
LastPublish(p) ==
  LET waits == [uid |-> p, handle |-> handle[p]] IN
    IF waits \in pending
      THEN /\ pending' = pending \ {waits}
           /\ inbox' = [inbox EXCEPT ![handle[p]] = Append(@, Commit)]
           /\ UNCHANGED <<publish, lpi, final>>
      ELSE /\ inbox' = [inbox EXCEPT ![handle[p]] =
                          @ \o <<PublishAccount(kills[p]), Commit>>]
           /\ publish' \in (IF lpi[p] = None THEN {publish}
                                             ELSE DeleteAt(publish, lpi[p]))
           /\ lpi' = [lpi EXCEPT ![p] = None]
           /\ final' = [final EXCEPT ![handle[p]] = kills[p]]
           /\ UNCHANGED pending

(* Mutant: the player stays on the list of his side.                       *)
RemovePlayerNotSide(p) ==
  /\ LastPublish(p)
  /\ active' = active \ {p}
  /\ agreed' = [agreed EXCEPT ![p] = FALSE]
  /\ side' = [side EXCEPT ![p] = None]
  /\ handle' = [handle EXCEPT ![p] = None]
  /\ kills' = [kills EXCEPT ![p] = 0]
  /\ UNCHANGED team

(* RemovePlayer, which comes first in the list of disconnect functions.    *)
RemovePlayer(p) ==
  /\ LastPublish(p)
  /\ team' = [x \in Side |-> team[x] \ {p}]
  /\ active' = active \ {p}
  /\ agreed' = [agreed EXCEPT ![p] = FALSE]
  /\ side' = [side EXCEPT ![p] = None]
  /\ handle' = [handle EXCEPT ![p] = None]
  /\ kills' = [kills EXCEPT ![p] = 0]

(* OnDisconnected: RemovePlayer, RemovePendingClient, RemoveConnection.    *)
OnDisconnected(p) ==
  /\ p \in here
  /\ here' = here \ {p}
  /\ running
  /\ RemovePlayer(p)
  /\ UNCHANGED <<played, running, ran, bodies, owner, stage, output, row, db>>
-----------------------------------------------------------------------------
(* The frame handler meets the unit of a pending client.                   *)
SetSide(p) ==
  /\ running
  /\ p \in here /\ side[p] = None
  /\ \E x \in Side : side' = [side EXCEPT ![p] = x]
  /\ UNCHANGED <<here, agreed, handle, kills, played, pending, active, team,
                 publish, lpi, running, ran, bodies, owner, threads, final>>

(* Agree: the player has pressed the button of the welcome screen, which   *)
(* sends the id that came with PCS_TEMPORARY_ID_ESTABLISHED.               *)
Agree(p) ==
  /\ running
  /\ p \in here /\ side[p] # None
  /\ ~agreed[p]
  /\ agreed' = [agreed EXCEPT ![p] = TRUE]
  /\ UNCHANGED <<here, side, handle, kills, played, pending, active,
                 team, publish, lpi, running, ran, bodies, owner, threads, final>>

Ready ==
  {e \in pending :
     side[e.uid] # None /\ agreed[e.uid] /\ output[e.handle] # None}

(* The first part of the main loop: the accounts that have arrived are     *)
(* merged.  A banned player who has not played in this match is kicked     *)
(* instead of getting on a side; he leaves like anyone else.               *)
MergeRecords ==
  /\ running
  /\ Ready # {}
  /\ pending' = pending \ Ready
  /\ kills' = [p \in Player |->
                 IF p \in Uids(Ready) THEN output[handle[p]] ELSE kills[p]]
  /\ output' = [s \in Session |->
                  IF s \in {e.handle : e \in Ready} THEN None ELSE output[s]]
  /\ \E banned \in SUBSET Uids(Ready) :
       team' = [x \in Side |->
                  team[x] \cup {p \in Uids(Ready) :
                                  side[p] = x /\ (played[p] \/ p \notin banned)}]
  /\ UNCHANGED <<here, side, agreed, handle, played, active, publish,
                 lpi, running, ran, bodies, owner, stage, inbox, row, db, final>>

(* The second part, once a second while the clock runs: every player on a  *)
(* side gets points for the match.                                         *)
Accumulate ==
  /\ running
  /\ ran' = TRUE
  /\ played' = [p \in Player |-> played[p] \/ p \in InGame]
  /\ UNCHANGED <<here, side, agreed, handle, kills, pending, active,
                 team, publish, lpi, running, bodies, owner, threads, final>>

(* The entries in front of the first one whose player has gone: his record *)
(* is a number, and the script ends with an error when it indexes it.      *)
Sendable ==
  {i \in DOMAIN publish : \A j \in 1 .. i : handle[publish[j].uid] # None}

Sent == SubSeq(publish, 1, Cardinality(Sendable))

MessagesFor(s) ==
  [n \in 1 .. Cardinality({i \in Sendable : handle[publish[i].uid] = s}) |->
     PublishAccount(kills[owner[s]])]

(* The third part, once a second: the publish list is sent and emptied.    *)
PublishTick ==
  /\ running
  /\ publish # <<>>
  /\ \A s \in Open : Len(inbox[s]) + Len(MessagesFor(s)) <= MaxInbox
  /\ inbox' = [s \in Session |->
                 IF s \in Open THEN inbox[s] \o MessagesFor(s) ELSE inbox[s]]
  /\ lpi' = [p \in Player |-> IF p \in Uids(Range(Sent)) THEN None ELSE lpi[p]]
  /\ publish' = (IF Len(Sent) = Len(publish) THEN <<>> ELSE publish)
  /\ UNCHANGED <<here, side, agreed, handle, kills, played, pending,
                 active, team, running, ran, bodies, owner, stage, output, row, db,
                 final>>
-----------------------------------------------------------------------------
(* pushBackUnique returns the index of a new entry, -1 if it is there.     *)
PushEntry(p, again) ==
  LET entry == [uid |-> p, id |-> handle[p]]
      known == entry \in Range(publish)
  IN  /\ publish' = (IF known THEN publish ELSE Append(publish, entry))
      /\ lpi' = [lpi EXCEPT ![p] = IF known \/ again THEN -1 ELSE Len(publish)]

(* UpdatePlayerKills, called n times in a row.                             *)
UpdatePlayerKills(p, n) ==
  /\ kills[p] + n <= MaxKills
  /\ kills' = [kills EXCEPT ![p] = @ + n]
  /\ PushEntry(p, n > 1)

(* OnKilled for a victim in the game.  A living killer counts once, twice  *)
(* if the victim is an enemy; a body, whose mine or shell went off, counts *)
(* for an enemy only, on behalf of whoever has its UID now (he may have    *)
(* changed sides since: the side of a body is not kept).                   *)
OnKilled(victim) ==
  /\ running
  /\ victim \in InGame
  /\ bodies' = bodies \cup {victim}
  /\ \/ \E p \in InGame :
          UpdatePlayerKills(p, IF side[p] # side[victim] THEN 2 ELSE 1)
     \/ \E p \in bodies \cap here : UpdatePlayerKills(p, 1)
     \/ UNCHANGED <<kills, publish, lpi>>
  /\ UNCHANGED <<here, side, agreed, handle, played, pending, active,
                 team, running, ran, owner, threads, final>>

(* The handler of PCS_RNK_PIPE, when the player can pay for the vehicle.   *)
Buy(p) ==
  /\ running
  /\ p \in InGame
  /\ PushEntry(p, FALSE)
  /\ UNCHANGED <<here, side, agreed, handle, kills, played, pending,
                 active, team, running, ran, bodies, owner, threads, final>>

(* The players on the sides are published, and every session is committed. *)
CommitAll ==
  LET ofSession(s) == {p \in active : handle[p] = s}
      last(p) == IF p \in InGame THEN <<PublishAccount(kills[p]), Commit>>
                                 ELSE <<Commit>>
  IN  /\ inbox' = [s \in Session |->
                     IF ofSession(s) = {} THEN inbox[s]
                     ELSE inbox[s] \o last(owner[s])]
      /\ final' = [s \in Session |->
                     IF \E p \in InGame : handle[p] = s THEN kills[owner[s]] ELSE final[s]]

(* EndGame; the handlers do nothing from now on.  If the clock never ran,  *)
(* points are divided by zero seconds, and the script stops at the first   *)
(* player on a side, with nothing published or committed; unless           *)
(* PCS_RNK_ON is false, when neither clock nor points are reckoned.        *)
NoPoints == ~ran /\ InGame # {}

EndGame ==
  /\ running
  /\ running' = FALSE
  /\ CommitAll \/ (NoPoints /\ UNCHANGED <<inbox, final>>)
  /\ UNCHANGED <<here, side, agreed, handle, kills, played, pending, active, team,
                 publish, lpi, ran, bodies, owner, stage, output, row, db>>
-----------------------------------------------------------------------------
(* One iteration of the borrow loop of a thread: it tries to borrow two    *)
(* connections, then takes a message and drops it unless it is a Commit.   *)
Borrow(s) ==
  /\ stage[s] = "borrow"
  /\ inbox' = [inbox EXCEPT ![s] = IF @ = <<>> THEN @ ELSE Tail(@)]
  /\ stage' = [stage EXCEPT ![s] =
                 IF inbox[s] # <<>> /\ Head(inbox[s]) = Commit THEN "ended" ELSE "load"]
  /\ UNCHANGED <<mission, owner, output, row, db, final>>

BorrowFails(s) ==
  /\ stage[s] = "borrow"
  /\ inbox[s] # <<>>
  /\ inbox' = [inbox EXCEPT ![s] = Tail(@)]
  /\ stage' = [stage EXCEPT ![s] = IF Head(inbox[s]) = Commit THEN "ended" ELSE @]
  /\ UNCHANGED <<mission, owner, output, row, db, final>>

(* GetAccount locks the row until the transaction ends, so the session of  *)
(* an earlier connection has to end first; then the account is sent.       *)
Load(s) ==
  /\ stage[s] = "load"
  /\ \A t \in Open : owner[t] = owner[s] => stage[t] # "serve"
  /\ row' = [row EXCEPT ![s] = db[owner[s]]]
  /\ output' = [output EXCEPT ![s] = db[owner[s]]]
  /\ stage' = [stage EXCEPT ![s] = "serve"]
  /\ UNCHANGED <<mission, owner, inbox, db, final>>

(* The message loop: write the account, or commit and return.              *)
Serve(s) ==
  /\ stage[s] = "serve"
  /\ inbox[s] # <<>>
  /\ inbox' = [inbox EXCEPT ![s] = Tail(@)]
  /\ IF Head(inbox[s]) = Commit
       THEN /\ db' = [db EXCEPT ![owner[s]] = row[s]]
            /\ stage' = [stage EXCEPT ![s] = "closed"]
            /\ row' = [row EXCEPT ![s] = None]
            /\ final' = [final EXCEPT ![s] = None]
       ELSE /\ row' = [row EXCEPT ![s] = Head(inbox[s]).kills]
            /\ UNCHANGED <<db, stage, final>>
  /\ UNCHANGED <<mission, owner, output>>

Thread(s) == Borrow(s) \/ BorrowFails(s) \/ Load(s) \/ Serve(s)

Next ==
  \/ \E p \in Player :
       OnConnected(p) \/ OnDisconnected(p) \/ SetSide(p) \/ Agree(p)
         \/ OnKilled(p) \/ Buy(p)
  \/ MergeRecords \/ Accumulate \/ PublishTick \/ EndGame
  \/ \E s \in Session : Thread(s)

Spec == Init /\ [][Next]_vars

(* The frame handler runs in every frame, and a thread that has something  *)
(* to do does it.  Nothing forces a borrow to succeed: the loop is only    *)
(* sure to get on when there is a message to receive.                      *)
BorrowDriven(s) == inbox[s] # <<>> /\ (Borrow(s) \/ BorrowFails(s))

FairSpec ==
  /\ Spec
  /\ WF_vars(MergeRecords)
  /\ \A s \in Session :
       WF_vars(BorrowDriven(s)) /\ WF_vars(Load(s)) /\ WF_vars(Serve(s))
-----------------------------------------------------------------------------
(* The six lists tell one story, whatever joins, leaves, side switches and *)
(* late answers come between: a player is active from the moment he        *)
(* connects until he leaves, is either pending, under his present session, *)
(* or merged, and only a merged record is on a side, and on one.           *)
(* GetHandle, PointAccumulator and EndGame index the record of whomever    *)
(* they find in a list, and would stop half way at a bare number.          *)
ListsAgree ==
  running =>
    /\ active = here
    /\ here = {p \in Player : handle[p] # None}
    /\ \A e \in pending : e.uid \in here /\ e.handle = handle[e.uid]
    /\ InGame \subseteq here \ Uids(pending)
    /\ \A x \in Side : \A p \in team[x] : side[p] = x

(* What a player has in his record when he leaves the game, or when it     *)
(* ends, is what his session has written last when it commits: neither the *)
(* borrow loop, which drops messages, nor a publish tick comes between.    *)
FinalIsWritten ==
  [][\A s \in Session : final[s] # None /\ stage'[s] \in {"ended", "closed"} =>
        stage'[s] = "closed" /\ db'[owner[s]] = final[s]]_vars

(* The thread of a session that is not closed refers to a live player, or  *)
(* has its Commit on the way: no connection of the pool is kept for ever.  *)
(* The exception is the one of EndGame.sqf:26, a match of no second, which *)
(* "must crash and fail to commit" those who are there: them, none before. *)
SessionsReleased ==
  \A s \in Open : stage[s] \in {"borrow", "load", "serve"} =>
    \/ (running \/ NoPoints) /\ handle[owner[s]] = s
    \/ Commit \in Range(inbox[s])

Waiting(p) ==
  running /\ p \in Uids(pending) /\ side[p] # None /\ agreed[p]

(* A player who has agreed gets his account: the row lock of his former    *)
(* session, the polling and the answer end the wait, unless he leaves or   *)
(* the game ends before.  What he must be granted are the connections: the *)
(* pool has 50 and a session takes two (OPFL.cpp:69), fewer than the 54    *)
(* players of the mission may want, so each of his sessions is supposed to *)
(* get out of the borrow loop some time.                                   *)
Lent(p) == \A s \in Session : []<>~(stage[s] = "borrow" /\ owner[s] = p)

Served == \A p \in Player : Lent(p) => []<>~Waiting(p)

(* "create a non-activated record, where we still are waiting on database" *)
(* (AddPlayer.sqf:12): its zeros are a placeholder, and the kills of an    *)
(* account, which no handler takes away, never go down in the database.    *)
(* A stale entry of the publish list writes the placeholder all the same.  *)
AccountKept == [][\A p \in Player : db'[p] >= db[p]]_vars
=============================================================================
