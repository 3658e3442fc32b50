-------------------------- MODULE RankModule_proofs --------------------------
(***************************************************************************)
(* Proofs about the rank module, for every number of players, sessions     *)
(* and kills: its lists agree, every session is released, and the record   *)
(* a player leaves the game with is the one his session commits.           *)
(***************************************************************************)
EXTENDS RankModule, FiniteSetTheorems, SequenceTheorems, TLAPS

Message == [name : {"PublishAccount", "Commit"}, kills : Int]
Number == Int \cup {None}
Serving == {"borrow", "load", "serve"}

Typed ==
  /\ here \subseteq Player /\ active \subseteq Player /\ bodies \subseteq Player
  /\ side \in [Player -> Side \cup {None}]
  /\ agreed \in [Player -> BOOLEAN] /\ played \in [Player -> BOOLEAN]
  /\ handle \in [Player -> Session \cup {None}]
  /\ kills \in [Player -> Int] /\ db \in [Player -> Int]
  /\ pending \subseteq [uid : Player, handle : Session]
  /\ team \in [Side -> SUBSET Player]
  /\ publish \in Seq([uid : Player, id : Session])
  /\ lpi \in [Player -> Nat \cup {-1, None}]
  /\ running \in BOOLEAN /\ ran \in BOOLEAN
  /\ owner \in Seq(Player) /\ Len(owner) <= MaxSessions
  /\ stage \in [Session -> {"none", "ended", "closed"} \cup Serving]
  /\ inbox \in [Session -> Seq(Message)]
  /\ output \in [Session -> Number] /\ row \in [Session -> Number]
  /\ \A s \in Session : stage[s] = "serve" => row[s] \in Int
  /\ final \in [Session -> Number]

(* A handle in a record is the one of a session of that player.            *)
Handles == \A p \in Player : handle[p] # None => handle[p] \in Open /\ owner[handle[p]] = p

(* The player of the session is in the mission with it.                    *)
Held(s) == running /\ handle[owner[s]] = s

Quiet(q) == \A i \in 1 .. Len(q) : q[i].name = "PublishAccount"

(* What is left of q ends with the Commit, and the account that is written *)
(* last before it, r if that has been read already, has k kills.           *)
EndsWith(q, r, k) ==
  /\ q # <<>> /\ q[Len(q)] = Commit
  /\ \A i \in 1 .. Len(q) - 1 : q[i].name = "PublishAccount"
  /\ IF Len(q) = 1 THEN r = k ELSE q[Len(q) - 1].kills = k

(* The thread of a player who is here has not been told to end, and it     *)
(* serves when his account has been sent, the more when it was merged.     *)
Works(s) ==
  /\ Quiet(inbox[s]) /\ final[s] = None /\ stage[s] \in Serving
  /\ output[s] # None \/ owner[s] \notin Uids(pending) => stage[s] = "serve"

(* The script of EndGame has stopped at its division by zero.              *)
Stranded(s) == ~running /\ NoPoints /\ handle[owner[s]] = s

(* The thread of a player who has gone ends, with his last record if he    *)
(* was in the game.                                                        *)
Leaves(s) ==
  /\ stage[s] \in Serving => Commit \in Range(inbox[s]) \/ Stranded(s)
  /\ final[s] # None => stage[s] = "serve" /\ EndsWith(inbox[s], row[s], final[s])

Sessions == \A s \in Open : IF Held(s) THEN Works(s) ELSE Leaves(s)

(* What has not been connected has nothing yet.                            *)
Unused ==
  \A s \in Session \ Open :
    stage[s] = "none" /\ inbox[s] = <<>> /\ output[s] = None /\ final[s] = None

RInv == Typed /\ Handles /\ ListsAgree /\ Sessions /\ Unused
-----------------------------------------------------------------------------
(* The inboxes.                                                            *)
LEMMA Messages ==
  /\ Commit \in Message /\ Commit.name = "Commit"
  /\ \A k \in Int : /\ PublishAccount(k) \in Message
                    /\ PublishAccount(k).name = "PublishAccount"
                    /\ PublishAccount(k).kills = k
BY DEF Message, Commit, PublishAccount

LEMMA LastMessages ==
  ASSUME NEW q \in Seq(Message), NEW k \in Int, NEW r
  PROVE  LET t == q \o <<PublishAccount(k), Commit>> IN
           /\ t \in Seq(Message) /\ Commit \in Range(t)
           /\ Quiet(q) => EndsWith(t, r, k)
<1> DEFINE t == q \o <<PublishAccount(k), Commit>>
<1>1. PublishAccount(k) \in Message /\ Commit \in Message
  BY Messages
<1>2. /\ t \in Seq(Message) /\ Len(t) = Len(q) + 2
      /\ t[Len(q) + 1] = PublishAccount(k) /\ t[Len(q) + 2] = Commit
      /\ \A i \in 1 .. Len(q) : t[i] = q[i]
  BY <1>1
<1>3. Commit \in Range(t)
  BY <1>2 DEF Range
<1>4. Quiet(q) => EndsWith(t, r, k)
  <2>1. t # <<>> /\ Len(t) # 1 /\ Len(t) - 1 = Len(q) + 1 /\ Len(q) \in Nat
    BY <1>2
  <2> QED
    BY <1>2, <2>1, Messages DEF Quiet, EndsWith
<1> QED
  BY <1>2, <1>3, <1>4

LEMMA CommitMessage ==
  ASSUME NEW q \in Seq(Message)
  PROVE  /\ Append(q, Commit) \in Seq(Message) /\ Commit \in Range(Append(q, Commit))
         /\ q \o <<Commit>> = Append(q, Commit)
<1>1. Commit \in Message
  BY Messages
<1>2. /\ Append(q, Commit) \in Seq(Message) /\ Len(Append(q, Commit)) = Len(q) + 1
      /\ Append(q, Commit)[Len(q) + 1] = Commit
  BY <1>1
<1> QED
  BY <1>1, <1>2 DEF Range

LEMMA NextMessage ==
  ASSUME NEW q \in Seq(Message), q # <<>>, NEW r, NEW k
  PROVE  /\ Head(q) \in Message /\ Tail(q) \in Seq(Message)
         /\ Quiet(q) => Head(q) # Commit /\ Quiet(Tail(q))
         /\ Commit \in Range(q) /\ Head(q) # Commit => Commit \in Range(Tail(q))
         /\ EndsWith(q, r, k) =>
              IF Head(q) = Commit THEN r = k ELSE EndsWith(Tail(q), Head(q).kills, k)
<1>1. /\ Len(q) \in Nat \ {0} /\ Head(q) = q[1] /\ Head(q) \in Message
      /\ Tail(q) \in Seq(Message) /\ Len(Tail(q)) = Len(q) - 1
      /\ \A i \in 1 .. Len(q) - 1 : Tail(q)[i] = q[i + 1]
  BY HeadTailProperties, EmptySeq
<1>2. Quiet(q) => Head(q) # Commit /\ Quiet(Tail(q))
  BY <1>1, Messages DEF Quiet
<1>3. Commit \in Range(q) /\ Head(q) # Commit => Commit \in Range(Tail(q))
  <2> SUFFICES ASSUME Head(q) # Commit, NEW i \in DOMAIN q, q[i] = Commit
               PROVE  Commit \in Range(Tail(q))
    BY DEF Range
  <2>1. i - 1 \in 1 .. Len(q) - 1
    BY <1>1
  <2> QED
    BY <1>1, <2>1 DEF Range
<1>4. ASSUME EndsWith(q, r, k)
      PROVE  IF Head(q) = Commit THEN r = k ELSE EndsWith(Tail(q), Head(q).kills, k)
  <2>1. CASE Len(q) = 1
    BY <1>1, <1>4, <2>1 DEF EndsWith
  <2>2. CASE Len(q) # 1
    <3>1. Head(q) # Commit
      BY <1>1, <1>4, <2>2, Messages DEF EndsWith
    <3>2. Len(Tail(q)) = Len(q) - 1 /\ Len(q) - 1 \in 1 .. Len(q) - 1
      BY <1>1, <2>2
    <3>3. Tail(q) # <<>>
      <4>1. Len(Tail(q)) \in Nat /\ Len(Tail(q)) # 0
        BY <1>1, <3>2
      <4> QED
        BY <4>1, EmptySeq, Zenon
    <3>4. Tail(q)[Len(Tail(q))] = Commit
      BY <1>1, <1>4, <3>2 DEF EndsWith
    <3>5. \A i \in 1 .. Len(Tail(q)) - 1 : Tail(q)[i].name = "PublishAccount"
      <4> SUFFICES ASSUME NEW i \in 1 .. Len(Tail(q)) - 1
                   PROVE  Tail(q)[i].name = "PublishAccount"
        OBVIOUS
      <4>1. i \in 1 .. Len(q) - 1 /\ i + 1 \in 1 .. Len(q) - 1
        BY <1>1, <3>2
      <4>2. Tail(q)[i] = q[i + 1]
        BY <1>1, <4>1
      <4> QED
        BY <1>4, <4>1, <4>2 DEF EndsWith
    <3>6. IF Len(Tail(q)) = 1 THEN Head(q).kills = k ELSE Tail(q)[Len(Tail(q)) - 1].kills = k
      BY <1>1, <1>4, <2>2 DEF EndsWith
    <3> QED
      BY <3>1, <3>3, <3>4, <3>5, <3>6 DEF EndsWith
  <2> QED
    BY <2>1, <2>2
<1> QED
  BY <1>1, <1>2, <1>3, <1>4
-----------------------------------------------------------------------------
(* A session that a step does not touch stays as it is.                    *)
LEMMA SessionStands ==
  ASSUME Sessions, NEW s \in Open, owner'[s] = owner[s], Held(s)' <=> Held(s),
         inbox'[s] = inbox[s], stage'[s] = stage[s], output'[s] = output[s],
         row'[s] = row[s], final'[s] = final[s], Stranded(s) => Stranded(s)',
         owner[s] \notin Uids(pending)' => owner[s] \notin Uids(pending)
  PROVE  IF Held(s)' THEN Works(s)' ELSE Leaves(s)'
BY DEF Sessions, Works, Leaves

LEMMA OpenSessions ==
  ASSUME RankAssumption, Typed
  PROVE  /\ Open = 1 .. Len(owner) /\ Len(owner) \in Nat /\ Open \subseteq Session
         /\ \A s \in Open : owner[s] \in Player
         /\ \A s \in Session : s # None
BY DEF RankAssumption, Typed, Open, Session

(* A step of the mission that leaves the sessions alone.                   *)
LEMMA SessionsStand ==
  ASSUME RankAssumption, RInv, UNCHANGED <<handle, running, owner, threads, final>>,
         pending' = pending, running \/ UNCHANGED <<ran, team>>
  PROVE  Handles' /\ Sessions' /\ Unused'
<1>1. UNCHANGED <<handle, running, owner, stage, inbox, output, row, final>>
  BY DEF threads
<1>2. Handles' /\ Unused'
  BY <1>1 DEF RInv, Handles, Unused, Open
<1>3. Sessions'
  BY <1>1 DEF RInv, Sessions, Open, Held, Works, Leaves, Uids, Stranded, NoPoints, InGame
<1> QED
  BY <1>2, <1>3

LEMMA OneMore ==
  ASSUME NEW S, NEW e
  PROVE  Uids(S \cup {e}) = Uids(S) \cup {e.uid}
BY DEF Uids

LEMMA Starts ==
  ASSUME RankAssumption, Init
  PROVE  RInv
<1>1. Typed
  <2>1. /\ here = {} /\ active = {} /\ bodies = {} /\ pending = {}
        /\ publish = <<>> /\ owner = <<>> /\ running = TRUE /\ ran = FALSE
    BY DEF Init
  <2>2. /\ side \in [Player -> Side \cup {None}]
        /\ agreed \in [Player -> BOOLEAN] /\ played \in [Player -> BOOLEAN]
        /\ handle \in [Player -> Session \cup {None}]
        /\ lpi \in [Player -> Nat \cup {-1, None}]
        /\ team \in [Side -> SUBSET Player]
    BY DEF Init
  <2>3. kills \in [Player -> Int] /\ db \in [Player -> Int]
    BY DEF RankAssumption, Init
  <2>4. /\ stage \in [Session -> {"none", "ended", "closed"} \cup Serving]
        /\ inbox \in [Session -> Seq(Message)]
        /\ output \in [Session -> Number] /\ row \in [Session -> Number]
        /\ final \in [Session -> Number]
        /\ \A s \in Session : stage[s] # "serve"
    BY DEF Init, Number
  <2>5. /\ owner \in Seq(Player) /\ Len(owner) <= MaxSessions
        /\ publish \in Seq([uid : Player, id : Session])
    BY <2>1, EmptySeq DEF RankAssumption
  <2>6. /\ here \subseteq Player /\ active \subseteq Player /\ bodies \subseteq Player
        /\ pending \subseteq [uid : Player, handle : Session]
        /\ running \in BOOLEAN /\ ran \in BOOLEAN
    BY <2>1
  <2> QED
    BY <2>2, <2>3, <2>4, <2>5, <2>6, Zenon DEF Typed
<1>2. Open = {}
  BY DEF Init, Open
<1>3. Handles /\ ListsAgree /\ Sessions /\ Unused
  BY <1>2 DEF Init, Handles, ListsAgree, Sessions, Unused, InGame, Side, Uids
<1> QED
  BY <1>1, <1>3 DEF RInv

LEMMA OnConnectedStep ==
  ASSUME RankAssumption, RInv, NEW p \in Player, OnConnected(p)
  PROVE  RInv'
<1>0. PICK s \in Session : s = Len(owner) + 1
  <2>1. Len(owner) < MaxSessions
    BY DEF OnConnected, AddPlayer
  <2>2. Len(owner) + 1 \in Session
    BY <2>1, OpenSessions DEF RInv, Session, RankAssumption
  <2> QED
    BY <2>2
<1>1. /\ p \notin here /\ here' = here \cup {p} /\ running /\ running' = running
      /\ Len(owner) < MaxSessions
      /\ owner' = Append(owner, p)
      /\ stage' = [stage EXCEPT ![s] = "borrow"]
      /\ handle' = [handle EXCEPT ![p] = s]
      /\ kills' = [kills EXCEPT ![p] = 0]
      /\ active' = active \cup {p}
      /\ pending' = pending \cup {[uid |-> p, handle |-> s]}
      /\ UNCHANGED <<side, agreed, played, team, publish, lpi, ran, bodies,
                     inbox, output, row, db, final>>
  BY <1>0 DEF OnConnected, AddPlayer
<1>2. Open = 1 .. Len(owner) /\ Len(owner) \in Nat /\ owner \in Seq(Player)
  BY OpenSessions DEF RInv, Typed
<1>3. s \in Session /\ s \notin Open
  BY <1>0, <1>2
<1>4. s # None /\ Open \subseteq Session /\ \A t \in Open : owner[t] \in Player
  BY <1>3, OpenSessions DEF RInv
<1>5. /\ owner' \in Seq(Player) /\ Len(owner') = s /\ Open' = 1 .. s
      /\ owner'[s] = p /\ \A t \in 1 .. Len(owner) : owner'[t] = owner[t]
  BY <1>0, <1>1, <1>2 DEF Open
<1>6. /\ Open' = Open \cup {s}
      /\ \A t \in Open : t # s /\ owner'[t] = owner[t]
  BY <1>0, <1>2, <1>3, <1>5
<1>7. Len(owner') <= MaxSessions
  BY <1>0, <1>1, <1>2, <1>5 DEF RankAssumption
<1>8. handle[p] = None /\ p \notin Uids(pending) /\ p \notin InGame
  BY <1>1 DEF RInv, ListsAgree, Uids
<1>9. Typed'
  BY <1>1, <1>3, <1>5, <1>7 DEF RInv, Typed, Serving
<1>10. Handles'
  BY <1>1, <1>4, <1>5, <1>6 DEF RInv, Typed, Handles
<1>11. ListsAgree'
  <2>1. InGame' = InGame
    BY <1>1 DEF InGame
  <2>2. Uids(pending') = Uids(pending) \cup {p}
    BY <1>1, OneMore
  <2>3. active' = here' /\ here' = {q \in Player : handle'[q] # None}
    BY <1>1, <1>4 DEF RInv, Typed, ListsAgree
  <2>4. \A e \in pending' : e.uid \in here' /\ e.handle = handle'[e.uid]
    BY <1>1 DEF RInv, Typed, ListsAgree
  <2>5. InGame' \subseteq here' \ Uids(pending')
    BY <1>1, <1>8, <2>1, <2>2 DEF RInv, ListsAgree
  <2>6. \A x \in Side : \A q \in team'[x] : side'[q] = x
    BY <1>1 DEF RInv, ListsAgree
  <2> QED
    BY <2>3, <2>4, <2>5, <2>6 DEF ListsAgree
<1>12. Sessions'
  <2>1. Held(s)' /\ Works(s)'
    <3>1. inbox'[s] = <<>> /\ output'[s] = None /\ final'[s] = None
      BY <1>1, <1>3 DEF RInv, Unused
    <3>2. Quiet(inbox'[s])
      BY <3>1 DEF Quiet
    <3>3. stage'[s] = "borrow"
      <4>1. Session = DOMAIN stage
        BY Zenon DEF RInv, Typed
      <4> QED
        BY <1>1, <1>3, <4>1
    <3>4. p \in Uids(pending')
      <4>1. [uid |-> p, handle |-> s] \in pending'
        BY <1>1
      <4> QED
        BY <4>1 DEF Uids
    <3>5. handle'[p] = s
      BY <1>1 DEF RInv, Typed
    <3>6. Held(s)'
      BY <1>1, <1>5, <3>5 DEF Held
    <3>7. Works(s)'
      BY <1>5, <3>1, <3>2, <3>3, <3>4 DEF Works, Serving
    <3> QED
      BY <3>6, <3>7
  <2>2. ASSUME NEW t \in Open
        PROVE  IF Held(t)' THEN Works(t)' ELSE Leaves(t)'
    <3>1. owner[t] \in Player /\ t # None /\ t # s /\ owner'[t] = owner[t]
      BY <1>4, <1>6, <2>2, OpenSessions DEF RInv
    <3>2. Held(t)' <=> Held(t)
      BY <1>1, <1>8, <3>1 DEF Held, RInv, Typed
    <3>3. stage'[t] = stage[t]
      BY <1>1, <3>1, OpenSessions DEF RInv, Typed
    <3>4. owner[t] \notin Uids(pending)' => owner[t] \notin Uids(pending)
      BY <1>1 DEF Uids
    <3>5. inbox'[t] = inbox[t] /\ output'[t] = output[t] /\ row'[t] = row[t] /\ final'[t] = final[t]
      BY <1>1
    <3>6. ~Stranded(t)
      BY <1>1 DEF Stranded
    <3> QED
      BY <3>1, <3>2, <3>3, <3>4, <3>5, <3>6, SessionStands DEF RInv
  <2>3. \A t \in Open' : t \in Open \/ t = s
    BY <1>6
  <2> QED
    BY <2>1, <2>2, <2>3 DEF Sessions
<1>13. Unused'
  BY <1>1, <1>6 DEF RInv, Unused
<1> QED
  BY <1>9, <1>10, <1>11, <1>12, <1>13 DEF RInv
-----------------------------------------------------------------------------
(* The steps of the mission that leave the sessions alone.                 *)
LEMMA SetSideStep ==
  ASSUME RankAssumption, RInv, NEW p \in Player, SetSide(p)
  PROVE  RInv'
<1>1. PICK x \in Side : side' = [side EXCEPT ![p] = x]
  BY DEF SetSide
<1>2. /\ running /\ side[p] = None
      /\ UNCHANGED <<here, agreed, handle, kills, played, pending, active, team,
                     publish, lpi, running, ran, bodies, owner, threads, final>>
  BY DEF SetSide
<1>3. Typed'
  BY <1>1, <1>2 DEF RInv, Typed, threads
<1>4. ListsAgree'
  <2>1. \A y \in Side : None # y
    BY DEF Side, RankAssumption
  <2>2. ASSUME running', NEW y \in Side, NEW q \in team'[y]
        PROVE  side'[q] = y
    BY <1>1, <1>2, <2>1, <2>2 DEF RInv, Typed, ListsAgree
  <2> QED
    BY <1>2, <2>2 DEF RInv, ListsAgree, InGame, Uids
<1> QED
  BY <1>2, <1>3, <1>4, SessionsStand DEF RInv

LEMMA AgreeStep ==
  ASSUME RankAssumption, RInv, NEW p \in Player, Agree(p)
  PROVE  RInv'
<1>1. /\ running /\ agreed' = [agreed EXCEPT ![p] = TRUE]
      /\ UNCHANGED <<here, side, handle, kills, played, pending, active,
                     team, publish, lpi, running, ran, bodies, owner, threads, final>>
  BY DEF Agree
<1>2. Typed'
  BY <1>1 DEF RInv, Typed, threads
<1>3. ListsAgree'
  BY <1>1 DEF RInv, ListsAgree, InGame, Uids
<1> QED
  BY <1>1, <1>2, <1>3, SessionsStand DEF RInv

LEMMA AccumulateStep ==
  ASSUME RankAssumption, RInv, Accumulate
  PROVE  RInv'
<1>1. /\ running /\ ran' = TRUE
      /\ played' = [p \in Player |-> played[p] \/ p \in InGame]
      /\ UNCHANGED <<here, side, agreed, handle, kills, pending, active,
                     team, publish, lpi, running, bodies, owner, threads, final>>
  BY DEF Accumulate
<1>2. played' \in [Player -> BOOLEAN]
  BY <1>1
<1>3. Typed'
  BY <1>1, <1>2 DEF RInv, Typed, threads
<1>4. ListsAgree'
  BY <1>1 DEF RInv, ListsAgree, InGame, Uids
<1> QED
  BY <1>1, <1>3, <1>4, SessionsStand DEF RInv

(* The players in the game have a session, and so have those connected.    *)
LEMMA Players ==
  ASSUME RankAssumption, RInv, running
  PROVE  /\ here \subseteq Player /\ InGame \subseteq here
         /\ \A p \in here : handle[p] \in Session /\ handle[p] \in Open /\ owner[handle[p]] = p
BY OpenSessions DEF RInv, Typed, ListsAgree, Handles

LEMMA PushedEntry ==
  ASSUME RankAssumption, RInv, running, NEW p \in here, NEW again, PushEntry(p, again)
  PROVE  publish' \in Seq([uid : Player, id : Session])
         /\ lpi' \in [Player -> Nat \cup {-1, None}]
<1> DEFINE entry == [uid |-> p, id |-> handle[p]]
<1>1. entry \in [uid : Player, id : Session]
  BY Players
<1>2. publish \in Seq([uid : Player, id : Session]) /\ Len(publish) \in Nat
  BY DEF RInv, Typed
<1>3. publish' = publish \/ publish' = Append(publish, entry)
  BY DEF PushEntry
<1>4. \E i \in Nat \cup {-1} : lpi' = [lpi EXCEPT ![p] = i]
  BY <1>2 DEF PushEntry
<1>5. publish' \in Seq([uid : Player, id : Session])
  <2> DEFINE entries == [uid : Player, id : Session]
  <2>1. entry \in entries /\ publish \in Seq(entries)
    BY <1>1, <1>2
  <2> HIDE DEF entry, entries
  <2>2. Append(publish, entry) \in Seq(entries)
    BY <2>1
  <2>3. publish' \in Seq(entries)
    BY <1>3, <2>1, <2>2
  <2> QED
    BY <2>3 DEF entries
<1>6. lpi' \in [Player -> Nat \cup {-1, None}]
  BY <1>4 DEF RInv, Typed
<1> QED
  BY <1>5, <1>6

LEMMA BuyStep ==
  ASSUME RankAssumption, RInv, NEW p \in Player, Buy(p)
  PROVE  RInv'
<1>1. /\ running /\ p \in InGame /\ PushEntry(p, FALSE)
      /\ UNCHANGED <<here, side, agreed, handle, kills, played, pending,
                     active, team, running, ran, bodies, owner, threads, final>>
  BY DEF Buy
<1>2. Typed'
  BY <1>1, Players, PushedEntry DEF RInv, Typed, threads
<1>3. ListsAgree'
  BY <1>1 DEF RInv, ListsAgree, InGame, Uids
<1> QED
  BY <1>1, <1>2, <1>3, SessionsStand DEF RInv

LEMMA OnKilledStep ==
  ASSUME RankAssumption, RInv, NEW victim \in Player, OnKilled(victim)
  PROVE  RInv'
<1>1. /\ running /\ bodies' = bodies \cup {victim}
      /\ UNCHANGED <<here, side, agreed, handle, played, pending, active,
                     team, running, ran, owner, threads, final>>
  BY DEF OnKilled
<1>2. \/ \E p \in here, n \in {1, 2} : UpdatePlayerKills(p, n)
      \/ UNCHANGED <<kills, publish, lpi>>
  BY <1>1, Players DEF OnKilled
<1>3. /\ kills' \in [Player -> Int]
      /\ publish' \in Seq([uid : Player, id : Session])
      /\ lpi' \in [Player -> Nat \cup {-1, None}]
  <2>1. CASE UNCHANGED <<kills, publish, lpi>>
    BY <2>1 DEF RInv, Typed
  <2>2. ASSUME NEW p \in here, NEW n \in {1, 2}, UpdatePlayerKills(p, n)
        PROVE  /\ kills' \in [Player -> Int]
               /\ publish' \in Seq([uid : Player, id : Session])
               /\ lpi' \in [Player -> Nat \cup {-1, None}]
    <3>1. kills' = [kills EXCEPT ![p] = @ + n] /\ PushEntry(p, n > 1)
      BY <2>2 DEF UpdatePlayerKills
    <3>2. kills' \in [Player -> Int]
      BY <3>1 DEF RInv, Typed
    <3> QED
      BY <1>1, <3>1, <3>2, PushedEntry
  <2> QED
    BY <1>2, <2>1, <2>2
<1>4. Typed'
  BY <1>1, <1>3 DEF RInv, Typed, threads
<1>5. ListsAgree'
  BY <1>1 DEF RInv, ListsAgree, InGame, Uids
<1> QED
  BY <1>1, <1>4, <1>5, SessionsStand DEF RInv
-----------------------------------------------------------------------------
(* A record is published for the last time, and the session committed.     *)
LEMMA Deleted ==
  ASSUME NEW S, NEW e \in Seq(S), NEW i \in Nat \cup {-1}, NEW d \in DeleteAt(e, i)
  PROVE  d \in Seq(S)
<1>1. Len(e) \in Nat
  OBVIOUS
<1>2. CASE d = e
  BY <1>2
<1>3. CASE e # <<>> /\ d = Front(e)
  <2>1. Len(e) # 0
    BY <1>3, EmptySeq
  <2>2. Len(e) - 1 \in 0 .. Len(e)
    BY <1>1, <2>1
  <2> QED
    BY <1>3, <2>2, SubSeqProperties DEF Front
<1>4. CASE i # -1 /\ i < Len(e) /\ d = RemoveAt(e, i + 1)
  <2>1. SubSeq(e, 1, i) \in Seq(S) /\ SubSeq(e, i + 2, Len(e)) \in Seq(S)
    BY <1>1, <1>4, SubSeqProperties
  <2>2. (i + 1) - 1 = i /\ (i + 1) + 1 = i + 2
    OBVIOUS
  <2> QED
    BY <1>4, <2>1, <2>2, ConcatProperties DEF RemoveAt
<1> QED
  BY <1>2, <1>3, <1>4 DEF DeleteAt

(* The step at which p leaves with session s: he is in the game with k     *)
(* kills, or his account is still pending.                                 *)
LEMMA LastPublished ==
  ASSUME RankAssumption, RInv, running, NEW p \in here, LastPublish(p),
         NEW s, s = handle[p]
  PROVE  /\ s \in Open /\ s \in Session /\ owner[s] = p
         /\ Uids(pending') = Uids(pending) \ {p}
         /\ pending' \subseteq pending
         /\ publish' \in Seq([uid : Player, id : Session])
         /\ lpi' \in [Player -> Nat \cup {-1, None}]
         /\ \E q \in Seq(Message) :
              /\ inbox' = [inbox EXCEPT ![s] = q]
              /\ Commit \in Range(q)
              /\ \/ final' = final
                 \/ /\ stage[s] = "serve" /\ EndsWith(q, row[s], kills[p])
                    /\ final' = [final EXCEPT ![s] = kills[p]]
<1>1. s \in Open /\ s \in Session /\ owner[s] = p /\ p \in Player
  BY Players
<1>2. Held(s) /\ Works(s)
  BY <1>1 DEF Held, RInv, Sessions
<1>3. inbox[s] \in Seq(Message) /\ kills[p] \in Int
  BY <1>1 DEF RInv, Typed
<1> DEFINE waits == [uid |-> p, handle |-> s]
<1>4. /\ \A e \in pending : e.uid = p <=> e = waits
      /\ \A e \in pending : e.uid \in Player
  BY DEF RInv, Typed, ListsAgree
<1>5. CASE waits \in pending
  <2>1. /\ pending' = pending \ {waits} /\ UNCHANGED <<publish, lpi, final>>
        /\ inbox' = [inbox EXCEPT ![s] = Append(inbox[s], Commit)]
    BY <1>5 DEF LastPublish
  <2>2. Uids(pending') = Uids(pending) \ {p}
    BY <1>4, <2>1 DEF Uids
  <2> QED
    BY <1>1, <1>3, <2>1, <2>2, CommitMessage DEF RInv, Typed
<1>6. CASE waits \notin pending
  <2>1. /\ pending' = pending
        /\ inbox' = [inbox EXCEPT ![s] = inbox[s] \o <<PublishAccount(kills[p]), Commit>>]
        /\ publish' \in (IF lpi[p] = None THEN {publish} ELSE DeleteAt(publish, lpi[p]))
        /\ lpi' = [lpi EXCEPT ![p] = None]
        /\ final' = [final EXCEPT ![s] = kills[p]]
    BY <1>6 DEF LastPublish
  <2>2. p \notin Uids(pending)
    BY <1>4, <1>6 DEF Uids
  <2>3. Uids(pending') = Uids(pending) \ {p}
    BY <2>1, <2>2
  <2>4. publish' \in Seq([uid : Player, id : Session])
    BY <1>1, <2>1, Deleted DEF RInv, Typed
  <2>5. lpi' \in [Player -> Nat \cup {-1, None}]
    BY <2>1 DEF RInv, Typed
  <2>6. stage[s] = "serve" /\ Quiet(inbox[s])
    BY <1>1, <1>2, <2>2 DEF Works
  <2> DEFINE q == inbox[s] \o <<PublishAccount(kills[p]), Commit>>
  <2>7. q \in Seq(Message) /\ Commit \in Range(q) /\ EndsWith(q, row[s], kills[p])
    BY <1>3, <2>6, LastMessages
  <2> QED
    BY <1>1, <2>1, <2>3, <2>4, <2>5, <2>6, <2>7
<1> QED
  BY <1>5, <1>6

LEMMA OnDisconnectedStep ==
  ASSUME RankAssumption, RInv, NEW p \in Player, OnDisconnected(p)
  PROVE  RInv'
<1>1. PICK s : s = handle[p]
  OBVIOUS
<1>2. /\ p \in here /\ running /\ here' = here \ {p} /\ LastPublish(p)
      /\ team' = [x \in Side |-> team[x] \ {p}]
      /\ active' = active \ {p}
      /\ agreed' = [agreed EXCEPT ![p] = FALSE]
      /\ side' = [side EXCEPT ![p] = None]
      /\ handle' = [handle EXCEPT ![p] = None]
      /\ kills' = [kills EXCEPT ![p] = 0]
      /\ UNCHANGED <<played, running, ran, bodies, owner, stage, output, row, db>>
  BY DEF OnDisconnected, RemovePlayer
<1>3. /\ s \in Open /\ s \in Session /\ owner[s] = p
      /\ Uids(pending') = Uids(pending) \ {p}
      /\ pending' \subseteq pending
      /\ publish' \in Seq([uid : Player, id : Session])
      /\ lpi' \in [Player -> Nat \cup {-1, None}]
  BY <1>1, <1>2, LastPublished
<1>4. PICK q \in Seq(Message) :
        /\ inbox' = [inbox EXCEPT ![s] = q]
        /\ Commit \in Range(q)
        /\ \/ final' = final
           \/ /\ stage[s] = "serve" /\ EndsWith(q, row[s], kills[p])
              /\ final' = [final EXCEPT ![s] = kills[p]]
  BY <1>1, <1>2, LastPublished
<1>5. final' \in [Session -> Number] /\ inbox' \in [Session -> Seq(Message)]
  BY <1>3, <1>4 DEF RInv, Typed, Number
<1>6. Typed'
  <2>1. /\ here' \subseteq Player /\ active' \subseteq Player
        /\ pending' \subseteq [uid : Player, handle : Session]
        /\ team' \in [Side -> SUBSET Player]
    BY <1>2, <1>3 DEF RInv, Typed
  <2>2. /\ side' \in [Player -> Side \cup {None}]
        /\ agreed' \in [Player -> BOOLEAN]
        /\ handle' \in [Player -> Session \cup {None}]
        /\ kills' \in [Player -> Int]
    BY <1>2 DEF RInv, Typed
  <2> QED
    BY <1>2, <1>3, <1>5, <2>1, <2>2 DEF RInv, Typed
<1>7. Handles'
  BY <1>2 DEF RInv, Typed, Handles, Open
<1>8. ListsAgree'
  <2>1. active' = here' /\ here' = {r \in Player : handle'[r] # None}
    BY <1>2 DEF RInv, Typed, ListsAgree
  <2>2. \A e \in pending' : e.uid \in here' /\ e.handle = handle'[e.uid]
    <3> SUFFICES ASSUME NEW e \in pending'
                 PROVE  e.uid \in here' /\ e.handle = handle'[e.uid]
      OBVIOUS
    <3>1. e \in pending /\ e.uid # p
      BY <1>3 DEF Uids
    <3> QED
      BY <1>2, <3>1 DEF RInv, Typed, ListsAgree
  <2>3. InGame' = InGame \ {p}
    BY <1>2 DEF InGame, Side
  <2>4. InGame' \subseteq here' \ Uids(pending')
    BY <1>2, <1>3, <2>3 DEF RInv, ListsAgree
  <2>5. \A x \in Side : \A r \in team'[x] : side'[r] = x
    BY <1>2 DEF RInv, Typed, ListsAgree
  <2> QED
    BY <2>1, <2>2, <2>4, <2>5 DEF ListsAgree
<1>9. Sessions'
  <2> SUFFICES ASSUME NEW t \in Open
               PROVE  IF Held(t)' THEN Works(t)' ELSE Leaves(t)'
    BY <1>2 DEF Sessions, Open
  <2>1. t \in Session /\ owner[t] \in Player /\ t # None
    BY OpenSessions DEF RInv
  <2>2. CASE t = s
    <3>1. ~Held(t)'
      BY <1>2, <1>3, <2>1, <2>2 DEF Held, RInv, Typed
    <3>2. inbox'[s] = q
      BY <1>3, <1>4 DEF RInv, Typed
    <3>3. final'[s] # None => stage'[s] = "serve" /\ EndsWith(inbox'[s], row'[s], final'[s])
      <4>1. CASE final' = final
        BY <1>1, <1>2, <1>3, <4>1 DEF RInv, Sessions, Held, Works
      <4>2. CASE /\ stage[s] = "serve" /\ EndsWith(q, row[s], kills[p])
                 /\ final' = [final EXCEPT ![s] = kills[p]]
        BY <1>2, <1>3, <3>2, <4>2 DEF RInv, Typed
      <4> QED
        BY <1>4, <4>1, <4>2
    <3>4. Leaves(s)'
      BY <1>4, <3>2, <3>3 DEF Leaves
    <3> QED
      BY <2>2, <3>1, <3>4
  <2>3. CASE t # s
    <3>1. owner[t] = p => handle[p] # t
      BY <1>1, <2>3
    <3>2. Held(t)' <=> Held(t)
      BY <1>2, <2>1, <3>1 DEF Held, RInv, Typed
    <3>3. inbox'[t] = inbox[t] /\ final'[t] = final[t]
      BY <1>3, <1>4, <2>1, <2>3 DEF RInv, Typed
    <3>6. ~Stranded(t)
      BY <1>2 DEF Stranded
    <3>4. CASE Held(t)
      <4>1. owner[t] # p
        BY <1>1, <2>3, <3>4 DEF Held
      <4> QED
        BY <1>2, <1>3, <3>2, <3>3, <3>6, <4>1, SessionStands DEF RInv
    <3>5. CASE ~Held(t)
      BY <1>2, <3>2, <3>3, <3>5, <3>6 DEF RInv, Sessions, Leaves
    <3> QED
      BY <3>4, <3>5
  <2> QED
    BY <2>2, <2>3
<1>10. Unused'
  <2> SUFFICES ASSUME NEW t \in Session \ Open
               PROVE  /\ stage'[t] = "none" /\ inbox'[t] = <<>>
                      /\ output'[t] = None /\ final'[t] = None
    BY <1>2 DEF Unused, Open
  <2>1. inbox'[t] = inbox[t] /\ final'[t] = final[t]
    BY <1>3, <1>4 DEF RInv, Typed
  <2> QED
    BY <1>2, <2>1 DEF RInv, Unused
<1> QED
  BY <1>6, <1>7, <1>8, <1>9, <1>10 DEF RInv
-----------------------------------------------------------------------------
(* The steps of the threads.                                               *)
LEMMA ThreadSteps ==
  ASSUME RankAssumption, RInv, NEW s \in Session, UNCHANGED <<mission, owner>>, Typed',
         s \in Open,
         \A t \in Session \ {s} :
           /\ inbox'[t] = inbox[t] /\ stage'[t] = stage[t] /\ output'[t] = output[t]
           /\ row'[t] = row[t] /\ final'[t] = final[t],
         Held(s) => Works(s)', ~Held(s) => Leaves(s)'
  PROVE  RInv'
<1>1. UNCHANGED <<here, side, agreed, handle, kills, played, pending,
                  active, team, publish, lpi, running, ran, bodies>>
  BY DEF mission
<1>2. Handles'
  BY <1>1 DEF RInv, Handles, Open
<1>3. ListsAgree'
  BY <1>1 DEF RInv, ListsAgree, InGame, Uids
<1>4. Sessions'
  <2> SUFFICES ASSUME NEW t \in Open
               PROVE  IF Held(t)' THEN Works(t)' ELSE Leaves(t)'
    BY DEF Sessions, Open
  <2>1. Held(t)' <=> Held(t)
    BY <1>1 DEF Held
  <2>2. t \in Session
    BY OpenSessions DEF RInv
  <2>3. CASE t = s
    BY <2>1, <2>3
  <2>4. CASE t # s
    <3>1. Stranded(t)' <=> Stranded(t)
      BY <1>1 DEF Stranded, NoPoints, InGame
    <3> QED
      BY <1>1, <2>1, <2>2, <2>4, <3>1, SessionStands DEF RInv, Uids
  <2> QED
    BY <2>3, <2>4
<1>5. Unused'
  BY DEF RInv, Unused, Open
<1> QED
  BY <1>2, <1>3, <1>4, <1>5 DEF RInv

LEMMA StaysStranded ==
  ASSUME UNCHANGED <<mission, owner>>, NEW s
  PROVE  Stranded(s)' <=> Stranded(s)
BY DEF mission, Stranded, NoPoints, InGame

(* A session that has a stage is the one of a player.                      *)
LEMMA Begun ==
  ASSUME RankAssumption, RInv, NEW s \in Session, stage[s] \in Serving
  PROVE  s \in Open /\ (Held(s) => Works(s)) /\ (~Held(s) => Leaves(s))
BY DEF RInv, Unused, Sessions, Serving

LEMMA BorrowStep ==
  ASSUME RankAssumption, RInv, NEW s \in Session, Borrow(s) \/ BorrowFails(s)
  PROVE  RInv'
<1>1. /\ stage[s] = "borrow"
      /\ UNCHANGED <<mission, owner, output, row, db, final>>
  BY DEF Borrow, BorrowFails
<1>2. \/ /\ inbox[s] = <<>>
         /\ inbox' = [inbox EXCEPT ![s] = inbox[s]]
         /\ stage' = [stage EXCEPT ![s] = "load"]
      \/ /\ inbox[s] # <<>>
         /\ inbox' = [inbox EXCEPT ![s] = Tail(inbox[s])]
         /\ \/ Head(inbox[s]) = Commit /\ stage' = [stage EXCEPT ![s] = "ended"]
            \/ /\ Head(inbox[s]) # Commit
               /\ \E g \in {"borrow", "load"} : stage' = [stage EXCEPT ![s] = g]
  BY <1>1 DEF Borrow, BorrowFails
<1>3. inbox[s] \in Seq(Message)
  BY DEF RInv, Typed
<1>4. s \in Open /\ (Held(s) => Works(s)) /\ (~Held(s) => Leaves(s))
  BY <1>1, Begun DEF Serving
<1>5. /\ inbox'[s] \in Seq(Message)
      /\ stage'[s] \in {"borrow", "load", "ended"}
      /\ Quiet(inbox[s]) => Quiet(inbox'[s]) /\ stage'[s] \in Serving
      /\ Commit \in Range(inbox[s]) /\ stage'[s] \in Serving => Commit \in Range(inbox'[s])
  <2>1. CASE inbox[s] = <<>>
    BY <1>2, <1>3, <2>1 DEF RInv, Typed, Serving, Range
  <2>2. CASE inbox[s] # <<>>
    <3>1. inbox'[s] = Tail(inbox[s])
      BY <1>2, <2>2 DEF RInv, Typed
    <3>2. \/ Head(inbox[s]) = Commit /\ stage'[s] = "ended"
          \/ Head(inbox[s]) # Commit /\ stage'[s] \in {"borrow", "load"}
      BY <1>2, <2>2 DEF RInv, Typed
    <3>3. /\ Tail(inbox[s]) \in Seq(Message)
          /\ Quiet(inbox[s]) => Head(inbox[s]) # Commit /\ Quiet(Tail(inbox[s]))
          /\ Commit \in Range(inbox[s]) /\ Head(inbox[s]) # Commit =>
               Commit \in Range(Tail(inbox[s]))
      BY <1>3, <2>2, NextMessage
    <3>4. "ended" \notin Serving /\ {"borrow", "load"} \subseteq Serving
      BY DEF Serving
    <3> QED
      BY <3>1, <3>2, <3>3, <3>4
  <2> QED
    BY <2>1, <2>2
<1>6. /\ \A t \in Session \ {s} : inbox'[t] = inbox[t] /\ stage'[t] = stage[t]
      /\ inbox' \in [Session -> Seq(Message)]
      /\ stage' \in [Session -> {"none", "ended", "closed"} \cup Serving]
      /\ \A t \in Session : stage'[t] = "serve" => stage[t] = "serve"
  <2>1. /\ inbox' = [inbox EXCEPT ![s] = inbox'[s]]
        /\ stage' = [stage EXCEPT ![s] = stage'[s]]
    BY <1>2 DEF RInv, Typed
  <2> QED
    BY <1>5, <2>1 DEF RInv, Typed, Serving
<1>7. Typed'
  BY <1>1, <1>6 DEF RInv, Typed, mission
<1>8. Held(s) => Works(s)'
  BY <1>1, <1>4, <1>5 DEF Works, mission
<1>9. ~Held(s) => Leaves(s)'
  BY <1>1, <1>4, <1>5, StaysStranded DEF Leaves, Serving
<1> QED
  BY <1>1, <1>4, <1>6, <1>7, <1>8, <1>9, ThreadSteps

LEMMA LoadStep ==
  ASSUME RankAssumption, RInv, NEW s \in Session, Load(s)
  PROVE  RInv'
<1>1. /\ stage[s] = "load"
      /\ row' = [row EXCEPT ![s] = db[owner[s]]]
      /\ output' = [output EXCEPT ![s] = db[owner[s]]]
      /\ stage' = [stage EXCEPT ![s] = "serve"]
      /\ UNCHANGED <<mission, owner, inbox, db, final>>
  BY DEF Load
<1>2. s \in Open /\ (Held(s) => Works(s)) /\ (~Held(s) => Leaves(s))
  BY <1>1, Begun DEF Serving
<1>3. db[owner[s]] \in Int
  BY <1>2, OpenSessions DEF RInv, Typed
<1>4. /\ row' \in [Session -> Number] /\ output' \in [Session -> Number]
      /\ stage' \in [Session -> {"none", "ended", "closed"} \cup Serving]
      /\ stage'[s] = "serve"
      /\ \A t \in Session : stage'[t] = "serve" => row'[t] \in Int
      /\ \A t \in Session \ {s} :
           stage'[t] = stage[t] /\ row'[t] = row[t] /\ output'[t] = output[t]
  BY <1>1, <1>3 DEF RInv, Typed, Number, Serving
<1>5. Typed'
  BY <1>1, <1>4 DEF RInv, Typed, mission
<1>6. Held(s) => Works(s)'
  BY <1>1, <1>2, <1>4 DEF Works, Serving
<1>7. ~Held(s) => Leaves(s)'
  BY <1>1, <1>2, <1>4, StaysStranded DEF Leaves, Serving
<1> QED
  BY <1>1, <1>2, <1>4, <1>5, <1>6, <1>7, ThreadSteps

LEMMA ServeStep ==
  ASSUME RankAssumption, RInv, NEW s \in Session, Serve(s)
  PROVE  RInv'
<1>1. /\ stage[s] = "serve" /\ inbox[s] # <<>>
      /\ inbox' = [inbox EXCEPT ![s] = Tail(inbox[s])]
      /\ UNCHANGED <<mission, owner, output>>
  BY DEF Serve
<1>2. s \in Open /\ (Held(s) => Works(s)) /\ (~Held(s) => Leaves(s))
  BY <1>1, Begun DEF Serving
<1>3. inbox[s] \in Seq(Message) /\ row[s] \in Int /\ owner[s] \in Player
  BY <1>1, <1>2, OpenSessions DEF RInv, Typed
<1>4. /\ inbox' \in [Session -> Seq(Message)] /\ inbox'[s] = Tail(inbox[s])
      /\ \A t \in Session \ {s} : inbox'[t] = inbox[t]
  BY <1>1, <1>3, NextMessage DEF RInv, Typed
<1>5. CASE Head(inbox[s]) = Commit
  <2>1. /\ db' = [db EXCEPT ![owner[s]] = row[s]]
        /\ stage' = [stage EXCEPT ![s] = "closed"]
        /\ row' = [row EXCEPT ![s] = None]
        /\ final' = [final EXCEPT ![s] = None]
    BY <1>5 DEF Serve
  <2>2. /\ db' \in [Player -> Int]
        /\ stage' \in [Session -> {"none", "ended", "closed"} \cup Serving]
        /\ row' \in [Session -> Number] /\ final' \in [Session -> Number]
        /\ stage'[s] = "closed" /\ final'[s] = None
        /\ \A t \in Session : stage'[t] = "serve" => row'[t] \in Int
        /\ \A t \in Session \ {s} :
             stage'[t] = stage[t] /\ row'[t] = row[t] /\ final'[t] = final[t]
    BY <1>3, <2>1 DEF RInv, Typed, Number
  <2>3. Typed'
    BY <1>1, <1>4, <2>2 DEF RInv, Typed, mission
  <2>4. ~Held(s)
    BY <1>1, <1>2, <1>3, <1>5, NextMessage DEF Works
  <2>5. Leaves(s)'
    BY <2>2 DEF Leaves, Serving
  <2> QED
    BY <1>1, <1>2, <1>4, <2>2, <2>3, <2>4, <2>5, ThreadSteps
<1>6. CASE Head(inbox[s]) # Commit
  <2>1. /\ row' = [row EXCEPT ![s] = Head(inbox[s]).kills]
        /\ UNCHANGED <<db, stage, final>>
    BY <1>6 DEF Serve
  <2>2. Head(inbox[s]).kills \in Int
    BY <1>1, <1>3, NextMessage DEF Message
  <2>3. /\ row' \in [Session -> Number] /\ row'[s] = Head(inbox[s]).kills
        /\ \A t \in Session : stage'[t] = "serve" => row'[t] \in Int
        /\ \A t \in Session \ {s} : row'[t] = row[t]
    BY <2>1, <2>2 DEF RInv, Typed, Number
  <2>4. Typed'
    BY <1>1, <1>4, <2>1, <2>3 DEF RInv, Typed, mission
  <2>5. Held(s) => Works(s)'
    BY <1>1, <1>2, <1>3, <1>4, <2>1, NextMessage DEF Works
  <2>6. ~Held(s) => Leaves(s)'
    BY <1>1, <1>2, <1>3, <1>4, <1>6, <2>1, <2>3, NextMessage, StaysStranded DEF Leaves
  <2> QED
    BY <1>1, <1>2, <1>4, <2>1, <2>3, <2>4, <2>5, <2>6, ThreadSteps
<1> QED
  BY <1>5, <1>6
-----------------------------------------------------------------------------
(* The steps of the main loop, and the end of the game.                    *)
LEMMA MergeRecordsStep ==
  ASSUME RankAssumption, RInv, MergeRecords
  PROVE  RInv'
<1>1. /\ running /\ pending' = pending \ Ready
      /\ kills' = [p \in Player |->
                     IF p \in Uids(Ready) THEN output[handle[p]] ELSE kills[p]]
      /\ output' = [s \in Session |->
                      IF s \in {e.handle : e \in Ready} THEN None ELSE output[s]]
      /\ UNCHANGED <<here, side, agreed, handle, played, active, publish,
                     lpi, running, ran, bodies, owner, stage, inbox, row, db, final>>
  BY DEF MergeRecords
<1>2. PICK banned \in SUBSET Uids(Ready) :
        team' = [x \in Side |->
                  team[x] \cup {p \in Uids(Ready) :
                                  side[p] = x /\ (played[p] \/ p \notin banned)}]
  BY DEF MergeRecords
<1>3. \A e \in Ready :
        /\ e \in pending /\ e = [uid |-> e.uid, handle |-> handle[e.uid]]
        /\ e.uid \in here /\ e.uid \in Player /\ e.handle \in Session
        /\ e.handle = handle[e.uid] /\ output[e.handle] \in Int
  BY <1>1 DEF RInv, Typed, ListsAgree, Ready, Number
<1>4. \A e \in pending : e = [uid |-> e.uid, handle |-> handle[e.uid]]
  BY <1>1 DEF RInv, Typed, ListsAgree
<1>5. Uids(pending') = Uids(pending) \ Uids(Ready)
  <2>1. ASSUME NEW e \in pending, NEW d \in Ready, e.uid = d.uid
        PROVE  e = d
    BY <1>3, <1>4, <2>1
  <2> QED
    BY <1>1, <2>1 DEF Uids
<1>6. Uids(Ready) \subseteq here /\ Uids(Ready) \subseteq Player
  BY <1>3 DEF Uids
<1>7. \A p \in Uids(Ready) : output[handle[p]] \in Int
  BY <1>3 DEF Uids
<1>8. Typed'
  <2>1. kills' \in [Player -> Int]
    BY <1>1, <1>7 DEF RInv, Typed
  <2>2. output' \in [Session -> Number]
    BY <1>1 DEF RInv, Typed, Number
  <2>3. team' \in [Side -> SUBSET Player]
    BY <1>2, <1>6 DEF RInv, Typed
  <2>4. pending' \subseteq [uid : Player, handle : Session]
    BY <1>1 DEF RInv, Typed
  <2> QED
    BY <1>1, <2>1, <2>2, <2>3, <2>4 DEF RInv, Typed
<1>9. Handles'
  BY <1>1 DEF RInv, Handles, Open
<1>10. ListsAgree'
  <2>1. InGame' \subseteq InGame \cup Uids(Ready)
    BY <1>2 DEF InGame, Side
  <2>2. InGame' \subseteq here' \ Uids(pending')
    BY <1>1, <1>5, <1>6, <2>1 DEF RInv, ListsAgree
  <2>3. \A x \in Side : \A p \in team'[x] : side'[p] = x
    BY <1>1, <1>2 DEF RInv, ListsAgree
  <2>4. \A e \in pending' : e.uid \in here' /\ e.handle = handle'[e.uid]
    BY <1>1 DEF RInv, ListsAgree
  <2> QED
    BY <1>1, <2>2, <2>3, <2>4 DEF RInv, ListsAgree
<1>11. Sessions'
  <2> SUFFICES ASSUME NEW s \in Open
               PROVE  IF Held(s)' THEN Works(s)' ELSE Leaves(s)'
    BY <1>1 DEF Sessions, Open
  <2>1. Held(s)' <=> Held(s)
    BY <1>1 DEF Held
  <2>2. CASE Held(s)
    <3>1. Works(s) /\ s \in Session
      BY <2>2, OpenSessions DEF RInv, Sessions
    <3>2. output'[s] # None => output[s] # None
      BY <1>1, <3>1
    <3>3. ASSUME owner[s] \in Uids(Ready)
          PROVE  output[s] # None
      <4>1. PICK e \in Ready : e.uid = owner[s]
        BY <3>3 DEF Uids
      <4>2. e.handle = s
        BY <1>3, <2>2, <4>1 DEF Held
      <4> QED
        BY <4>2 DEF Ready
    <3>4. Works(s)'
      BY <1>1, <1>5, <3>1, <3>2, <3>3 DEF Works
    <3> QED
      BY <2>1, <2>2, <3>4
  <2>3. CASE ~Held(s)
    BY <1>1, <2>1, <2>3 DEF RInv, Sessions, Leaves, Stranded
  <2> QED
    BY <2>2, <2>3
<1>12. Unused'
  BY <1>1 DEF RInv, Unused, Open
<1> QED
  BY <1>8, <1>9, <1>10, <1>11, <1>12 DEF RInv

LEMMA TickMessages ==
  ASSUME RankAssumption, RInv, running, NEW s \in Open
  PROVE  /\ MessagesFor(s) \in Seq(Message) /\ Quiet(MessagesFor(s))
         /\ ~Held(s) => MessagesFor(s) = <<>>
<1> DEFINE entries == {i \in Sendable : handle[publish[i].uid] = s}
<1>1. owner[s] \in Player /\ kills[owner[s]] \in Int /\ s # None
  BY OpenSessions DEF RInv, Typed
<1>2. Cardinality(entries) \in Nat
  <2>1. DOMAIN publish = 1 .. Len(publish) /\ Len(publish) \in Nat
    BY DEF RInv, Typed
  <2>2. IsFiniteSet(DOMAIN publish)
    BY <2>1, FS_Interval
  <2>3. entries \subseteq DOMAIN publish
    BY DEF Sendable
  <2> QED
    BY <2>2, <2>3, FS_Subset, FS_CardinalityType
<1> DEFINE m == PublishAccount(kills[owner[s]])
           n == Cardinality(entries)
<1>3. m \in Message /\ m.name = "PublishAccount"
  BY <1>1, Messages
<1>4. MessagesFor(s) = [j \in 1 .. n |-> m]
  BY DEF MessagesFor
<1>5. ~Held(s) => n = 0
  <2> SUFFICES ASSUME ~Held(s)
               PROVE  entries = {}
    BY FS_EmptySet
  <2> SUFFICES ASSUME NEW i \in DOMAIN publish, handle[publish[i].uid] = s
               PROVE  FALSE
    BY DEF Sendable
  <2>1. publish[i] \in [uid : Player, id : Session]
    <3> DEFINE E == [uid : Player, id : Session]
    <3>1. publish \in Seq(E) /\ i \in 1 .. Len(publish)
      BY DEF RInv, Typed
    <3> HIDE DEF E
    <3>2. publish[i] \in E
      BY <3>1, ElementOfSeq
    <3> QED
      BY <3>2 DEF E
  <2>2. publish[i].uid \in Player
    BY <2>1
  <2> QED
    BY <1>1, <2>2 DEF RInv, Handles, Held
<1>6. n \in Nat
  BY <1>2
<1> HIDE DEF m, n
<1>7. [j \in 1 .. n |-> m] \in Seq(Message) /\ Len([j \in 1 .. n |-> m]) = n
  BY <1>3, <1>6
<1>8. Quiet([j \in 1 .. n |-> m])
  BY <1>3, <1>7 DEF Quiet
<1>9. n = 0 => [j \in 1 .. n |-> m] = <<>>
  BY <1>7, EmptySeq
<1> QED
  BY <1>4, <1>5, <1>7, <1>8, <1>9

LEMMA PublishTickStep ==
  ASSUME RankAssumption, RInv, PublishTick
  PROVE  RInv'
<1>1. /\ running
      /\ inbox' = [s \in Session |->
                     IF s \in Open THEN inbox[s] \o MessagesFor(s) ELSE inbox[s]]
      /\ lpi' = [p \in Player |-> IF p \in Uids(Range(Sent)) THEN None ELSE lpi[p]]
      /\ publish' = (IF Len(Sent) = Len(publish) THEN <<>> ELSE publish)
      /\ UNCHANGED <<here, side, agreed, handle, kills, played, pending, active,
                     team, running, ran, bodies, owner, stage, output, row, db, final>>
  BY DEF PublishTick
<1>2. \A s \in Session : inbox[s] \in Seq(Message)
  BY DEF RInv, Typed
<1>3. \A s \in Open : MessagesFor(s) \in Seq(Message)
  BY <1>1, TickMessages
<1>4. Typed'
  <2>1. inbox' \in [Session -> Seq(Message)]
    BY <1>1, <1>2, <1>3, ConcatProperties
  <2>2. lpi' \in [Player -> Nat \cup {-1, None}]
    BY <1>1 DEF RInv, Typed
  <2>3. publish' \in Seq([uid : Player, id : Session])
    BY <1>1 DEF RInv, Typed
  <2> QED
    BY <1>1, <2>1, <2>2, <2>3 DEF RInv, Typed
<1>5. Handles'
  BY <1>1 DEF RInv, Handles, Open
<1>6. ListsAgree'
  BY <1>1 DEF RInv, ListsAgree, InGame, Uids
<1>7. Sessions'
  <2> SUFFICES ASSUME NEW s \in Open
               PROVE  IF Held(s)' THEN Works(s)' ELSE Leaves(s)'
    BY <1>1 DEF Sessions, Open
  <2>1. Held(s)' <=> Held(s)
    BY <1>1 DEF Held
  <2>2. inbox'[s] = inbox[s] \o MessagesFor(s) /\ inbox[s] \in Seq(Message)
    BY <1>1, <1>2, OpenSessions DEF RInv
  <2>3. CASE Held(s)
    <3>1. Works(s)
      BY <2>3 DEF RInv, Sessions
    <3>2. Quiet(MessagesFor(s))
      BY <1>1, TickMessages
    <3>3. Quiet(inbox'[s])
      BY <1>3, <2>2, <3>1, <3>2 DEF Works, Quiet
    <3> QED
      BY <1>1, <2>1, <2>3, <3>1, <3>3 DEF Works
  <2>4. CASE ~Held(s)
    <3>1. MessagesFor(s) = <<>>
      BY <1>1, <2>4, TickMessages
    <3>2. inbox'[s] = inbox[s]
      BY <2>2, <3>1, ConcatEmptySeq
    <3> QED
      BY <1>1, <2>1, <2>4, <3>2 DEF RInv, Sessions, Leaves, Stranded
  <2> QED
    BY <2>3, <2>4
<1>8. Unused'
  BY <1>1 DEF RInv, Unused, Open
<1> QED
  BY <1>4, <1>5, <1>6, <1>7, <1>8 DEF RInv

(* The game ends before the clock of the match has run: the script stops.  *)
LEMMA EndGameStops ==
  ASSUME RankAssumption, RInv, running, ~running', running' \in BOOLEAN, NoPoints,
         UNCHANGED <<here, side, agreed, handle, kills, played, pending, active, team,
                     publish, lpi, ran, bodies, owner, threads, final>>
  PROVE  RInv'
<1>1. UNCHANGED <<stage, inbox, output, row, db>>
  BY DEF threads
<1>2. Typed'
  BY <1>1 DEF RInv, Typed
<1>3. Handles' /\ ListsAgree' /\ Unused'
  BY <1>1 DEF RInv, Handles, ListsAgree, Unused, Open
<1>4. Sessions'
  <2> SUFFICES ASSUME NEW s \in Open
               PROVE  ~Held(s)' /\ Leaves(s)'
    BY DEF Sessions, Open
  <2>1. CASE Held(s)
    <3>1. Stranded(s)' /\ ~Held(s)'
      BY <2>1 DEF Held, Stranded, NoPoints, InGame
    <3> QED
      BY <1>1, <2>1, <3>1 DEF RInv, Sessions, Works, Leaves
  <2>2. CASE ~Held(s)
    BY <1>1, <2>2 DEF RInv, Sessions, Leaves, Held, Stranded
  <2> QED
    BY <2>1, <2>2
<1> QED
  BY <1>2, <1>3, <1>4 DEF RInv

LEMMA EndGameStep ==
  ASSUME RankAssumption, RInv, EndGame, CommitAll
  PROVE  RInv'
<1> DEFINE last(p) == IF p \in InGame THEN <<PublishAccount(kills[p]), Commit>>
                                      ELSE <<Commit>>
<1>1. /\ running /\ ~running' /\ running' \in BOOLEAN
      /\ inbox' = [s \in Session |->
                     IF {p \in active : handle[p] = s} = {} THEN inbox[s]
                     ELSE inbox[s] \o last(owner[s])]
      /\ final' = [s \in Session |->
                     IF \E p \in InGame : handle[p] = s THEN kills[owner[s]] ELSE final[s]]
      /\ UNCHANGED <<here, side, agreed, handle, kills, played, pending,
                     active, team, publish, lpi, ran, bodies, owner, stage, output,
                     row, db>>
  BY DEF EndGame, CommitAll
<1>2. active \subseteq Player /\ InGame \subseteq active
  BY <1>1 DEF RInv, Typed, ListsAgree
<1>3. \A s \in Session : \A p \in active : handle[p] = s =>
        s \in Open /\ owner[s] = p /\ Held(s)
  BY <1>1, OpenSessions DEF RInv, Typed, ListsAgree, Handles, Held
<1>4. \A s \in Session : ~(\E p \in active : handle[p] = s) =>
        inbox'[s] = inbox[s] /\ final'[s] = final[s]
  BY <1>1, <1>2
<1>5. ASSUME NEW s \in Session, NEW p \in active, handle[p] = s
      PROVE  /\ inbox'[s] \in Seq(Message) /\ Commit \in Range(inbox'[s])
             /\ \/ final'[s] = None
                \/ /\ stage[s] = "serve" /\ final'[s] \in Int
                   /\ EndsWith(inbox'[s], row[s], final'[s])
  <2>1. s \in Open /\ owner[s] = p /\ Works(s)
    BY <1>3, <1>5 DEF RInv, Sessions
  <2>2. inbox[s] \in Seq(Message) /\ kills[p] \in Int /\ inbox'[s] = inbox[s] \o last(p)
    BY <1>1, <1>2, <1>5, <2>1 DEF RInv, Typed
  <2>3. CASE p \in InGame
    <3>1. final'[s] = kills[p] /\ stage[s] = "serve" /\ Quiet(inbox[s])
      BY <1>1, <1>5, <2>1, <2>3 DEF RInv, ListsAgree, Works
    <3> QED
      BY <2>2, <2>3, <3>1, LastMessages
  <2>4. CASE p \notin InGame
    <3>1. final'[s] = final[s]
      BY <1>1, <1>2, <1>3, <2>1, <2>4
    <3> QED
      BY <2>1, <2>2, <2>4, <3>1, CommitMessage DEF Works
  <2> QED
    BY <2>3, <2>4
<1>6. Typed'
  <2>1. inbox' \in [Session -> Seq(Message)]
    <3>1. \A s \in Session : inbox'[s] \in Seq(Message)
      BY <1>4, <1>5 DEF RInv, Typed
    <3> QED
      BY <1>1, <3>1
  <2>2. final' \in [Session -> Number]
    <3>1. \A s \in Session : final'[s] \in Number
      BY <1>4, <1>5 DEF RInv, Typed, Number
    <3> QED
      BY <1>1, <3>1
  <2> QED
    BY <1>1, <2>1, <2>2 DEF RInv, Typed
<1>7. Handles'
  BY <1>1 DEF RInv, Handles, Open
<1>8. ListsAgree'
  BY <1>1 DEF ListsAgree
<1>9. Sessions'
  <2> SUFFICES ASSUME NEW s \in Open
               PROVE  IF Held(s)' THEN Works(s)' ELSE Leaves(s)'
    BY <1>1 DEF Sessions, Open
  <2>1. s \in Session /\ ~Held(s)'
    BY <1>1, OpenSessions DEF RInv, Held
  <2>2. CASE \E p \in active : handle[p] = s
    BY <1>1, <1>5, <2>1, <2>2 DEF Leaves
  <2>3. CASE ~\E p \in active : handle[p] = s
    <3>1. ~Held(s)
      BY <1>1, <2>1, <2>3, OpenSessions DEF RInv, ListsAgree, Held
    <3> QED
      BY <1>1, <1>4, <2>1, <2>3, <3>1 DEF RInv, Sessions, Leaves, Stranded
  <2> QED
    BY <2>2, <2>3
<1>10. Unused'
  <2> SUFFICES ASSUME NEW s \in Session \ Open
               PROVE  /\ stage'[s] = "none" /\ inbox'[s] = <<>>
                      /\ output'[s] = None /\ final'[s] = None
    BY <1>1 DEF Unused, Open
  <2>1. ~\E p \in active : handle[p] = s
    BY <1>3
  <2> QED
    BY <1>1, <1>4, <2>1 DEF RInv, Unused
<1> QED
  BY <1>6, <1>7, <1>8, <1>9, <1>10 DEF RInv
-----------------------------------------------------------------------------
LEMMA RankStep ==
  ASSUME RankAssumption, RInv, [Next]_vars
  PROVE  RInv'
<1>1. ASSUME NEW p \in Player,
             OnConnected(p) \/ OnDisconnected(p) \/ SetSide(p) \/ Agree(p)
               \/ OnKilled(p) \/ Buy(p)
      PROVE  RInv'
  BY <1>1, OnConnectedStep, OnDisconnectedStep, SetSideStep, AgreeStep, OnKilledStep, BuyStep
<1>2. CASE MergeRecords
  BY <1>2, MergeRecordsStep
<1>3. CASE Accumulate
  BY <1>3, AccumulateStep
<1>4. CASE PublishTick
  BY <1>4, PublishTickStep
<1>5. CASE EndGame
  <2>1. CASE CommitAll
    BY <1>5, <2>1, EndGameStep
  <2>2. CASE NoPoints /\ UNCHANGED <<inbox, final>>
    <3>1. /\ running /\ running' = FALSE
          /\ UNCHANGED <<here, side, agreed, handle, kills, played, pending, active, team,
                         publish, lpi, ran, bodies, owner, threads, final>>
      BY <1>5, <2>2 DEF EndGame, threads
    <3> QED
      BY <2>2, <3>1, EndGameStops
  <2> QED
    BY <1>5, <2>1, <2>2 DEF EndGame
<1>6. ASSUME NEW s \in Session, Thread(s)
      PROVE  RInv'
  BY <1>6, BorrowStep, LoadStep, ServeStep DEF Thread
<1>7. CASE UNCHANGED vars
  <2>1. UNCHANGED <<here, side, agreed, handle, kills, played, pending,
                    active, team, publish, lpi, running, ran, bodies>>
    BY <1>7 DEF vars, mission
  <2>2. UNCHANGED <<owner, stage, inbox, output, row, db, final>>
    BY <1>7 DEF vars, threads
  <2>3. Typed'
    BY <2>1, <2>2 DEF RInv, Typed
  <2>4. ListsAgree'
    BY <2>1 DEF RInv, ListsAgree, InGame, Uids
  <2> QED
    BY <2>1, <2>2, <2>3, <2>4, SessionsStand DEF RInv, threads
<1> QED
  BY <1>1, <1>2, <1>3, <1>4, <1>5, <1>6, <1>7 DEF Next

(* The handlers of the mission (RANK_MODULE) and the steps of the threads, *)
(* in any order, keep the lists, the inboxes and the stages in agreement.  *)
THEOREM RankInvariant == Spec => []RInv
<1>1. Init => RInv
  BY RankAssumption, Starts
<1>2. RInv /\ [Next]_vars => RInv'
  BY RankAssumption, RankStep
<1> QED
  BY <1>1, <1>2, PTL DEF Spec

(* The lists of the rank module agree, for every number of players and     *)
(* connections: AddPlayer, MergeRecords in the main loop, RemovePlayer and *)
(* the side switches between them keep each player pending or merged, and  *)
(* on no side but his own.                                                 *)
THEOREM RankListsAgree == Spec => []ListsAgree
<1>1. RInv => ListsAgree
  BY DEF RInv
<1> QED
  BY <1>1, RankInvariant, PTL

(* Every session AddPlayer has opened belongs to a player who is here, or  *)
(* has the Commit of RemovePlayer or EndGame on its way.                   *)
THEOREM RankSessionsReleased == Spec => []SessionsReleased
<1>1. RInv => SessionsReleased
  BY DEF RInv, Sessions, Held, Leaves, Stranded, Serving, SessionsReleased
<1> QED
  BY <1>1, RankInvariant, PTL

(* What RemovePlayer or EndGame publishes last of a player in the game is  *)
(* what his thread commits: it has left the borrow loop, which would drop  *)
(* the account, before the record can be merged.                           *)
THEOREM RankFinalIsWritten == Spec => FinalIsWritten
<1>1. RInv /\ [Next]_vars =>
        \A s \in Session : final[s] # None /\ stage'[s] \in {"ended", "closed"} =>
          stage'[s] = "closed" /\ db'[owner[s]] = final[s]
  <2> SUFFICES ASSUME RInv, [Next]_vars, NEW s \in Session,
                      final[s] # None, stage'[s] \in {"ended", "closed"}
               PROVE  stage'[s] = "closed" /\ db'[owner[s]] = final[s]
    OBVIOUS
  <2>1. s \in Open /\ ~Held(s) /\ Leaves(s)
    BY DEF RInv, Unused, Sessions, Works
  <2>2. /\ stage[s] = "serve" /\ EndsWith(inbox[s], row[s], final[s])
        /\ inbox[s] \in Seq(Message) /\ inbox[s] # <<>>
        /\ owner[s] \in Player /\ stage[s] # stage'[s]
    BY <2>1, RankAssumption, OpenSessions DEF RInv, Typed, Leaves, EndsWith
  <2>3. \A p \in Player : ~OnConnected(p)
    <3> SUFFICES ASSUME NEW p \in Player, OnConnected(p)
                 PROVE  FALSE
      OBVIOUS
    <3>1. stage' = [stage EXCEPT ![Len(owner) + 1] = "borrow"] /\ s # Len(owner) + 1
      BY <2>1, RankAssumption, OpenSessions DEF OnConnected, AddPlayer, RInv
    <3> QED
      BY <2>2, <3>1 DEF RInv, Typed
  <2>4. PICK t \in Session : Thread(t)
    BY <2>2, <2>3 DEF Next, vars, threads, OnDisconnected, SetSide, Agree, OnKilled, Buy,
                      MergeRecords, Accumulate, PublishTick, EndGame
  <2>5. t = s
    BY <2>2, <2>4 DEF Thread, Borrow, BorrowFails, Load, Serve, RInv, Typed
  <2>6. Serve(s) /\ Head(inbox[s]) = Commit
    BY <2>2, <2>4, <2>5 DEF Thread, Borrow, BorrowFails, Load, Serve
  <2>7. row[s] = final[s]
    BY <2>2, <2>6, NextMessage
  <2> QED
    BY <2>2, <2>6, <2>7 DEF Serve, RInv, Typed
<1> QED
  BY <1>1, RankInvariant, PTL DEF Spec, FinalIsWritten
=============================================================================
