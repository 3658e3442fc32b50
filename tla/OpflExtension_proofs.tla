------------------------ MODULE OpflExtension_proofs ------------------------
(***************************************************************************)
(* Proofs about the threads of the extension, for every number of          *)
(* sessions, players, missions and messages: what the mission and the      *)
(* threads refer to is there, what is deleted is deleted once, and nothing *)
(* is queued behind a Commit.                                              *)
(***************************************************************************)
EXTENDS OpflExtension, FiniteSetTheorems, SequenceTheorems, WellFoundedInduction,
        TLAPS

Message == {"Connect", "Publish", "Commit"}
Place == {"none", "start", "borrow", "setup", "send", "serve", "crash",
          "crashnull", "over"}

Typed ==
  /\ mission \in Nat \ {0} /\ lastTrd \in Nat
  /\ running \in BOOLEAN /\ dllSeen \in BOOLEAN
  /\ player \in [Session -> Players \cup {NoOne}]
  /\ game \in [Session -> {"none", "pending", "active", "left"}]
  /\ published \in [Session -> Nat]
  /\ commit \in [todo : Seq(Session), all : Seq(Session)]
  /\ kicked \subseteq Session
  /\ oname \in [Session -> Nat]
  /\ inQ \in [Session -> Seq(Message)] /\ outQ \in [Session -> Seq(Session)]
  /\ inHive \subseteq Session /\ inFunctor \subseteq Session
  /\ outputs \in Seq(Session)
  /\ data \in [Session -> {"none", "live", "freed"}]
  /\ worker \in [Session -> Place]
  /\ target \in [Session -> Session \cup {NoOne}]
  /\ pool \in {"none", "ready"} /\ dllQ \in Nat
  /\ cleanQ \in Seq(Seq(Session)) /\ batch \in Seq(Seq(Session))
  /\ at \in Nat \ {0} /\ half \in BOOLEAN
  /\ stateQ \in Seq(Session) /\ fault \in BOOLEAN

(* The members of q differ.                                                *)
Distinct(q) == \A i, j \in DOMAIN q : q[i] = q[j] => i = j

(* The thread of s has been spawned and has not ended.                     *)
Runs(s) == worker[s] \notin {"none", "over"}

(* A session that was not connected has nothing; each has one output queue. *)
Begun ==
  /\ \A s \in Session :
       IF game[s] = "none"
         THEN worker[s] = "none" /\ inQ[s] = <<>> /\ s \notin Outputs
         ELSE worker[s] # "none"
  /\ Distinct(outputs)

(* The sessions that were left are listed once in what the cleanup thread  *)
(* has, will receive, or is about to be sent.                              *)
ListedOnce(L) ==
  \A i, k \in DOMAIN L : \A j \in DOMAIN L[i], m \in DOMAIN L[k] :
    L[i][j] = L[k][m] => i = k /\ j = m

Listed ==
  /\ ListedOnce(Lists)
  /\ \A i \in DOMAIN Lists : \A j \in DOMAIN Lists[i] : game[Lists[i][j]] = "left"
  /\ \A i \in DOMAIN commit.todo : InSeq(commit.todo[i], commit.all)
  /\ Distinct(commit.todo)

(* The cleanup thread has yet to delete what is at place j of list i.      *)
Awaits(i, j) == batch # <<>> /\ i = 1 => j >= at + (IF half THEN 1 ELSE 0)

(* The queues of whoever may use them are there.                           *)
Kept ==
  /\ \A s \in Session : Open(s) \/ Runs(s) => s \in inHive \cap Outputs
  /\ \A i \in DOMAIN Lists : \A j \in DOMAIN Lists[i] :
       Awaits(i, j) => Lists[i][j] \in inHive \cap Outputs

(* The threads of the records the cleanup thread is done with have ended.  *)
Cleaned ==
  /\ batch # <<>> =>
       /\ at <= Len(Head(batch)) + 1
       /\ \A j \in 1 .. at - 1 : worker[Head(batch)[j]] = "over"
  /\ half => batch # <<>> /\ at <= Len(Head(batch)) /\ worker[Record] = "over"

(* The Commit of a session is the last message, and it is sent once.       *)
Commits ==
  /\ CommitLast
  /\ CommitDataLive
  /\ \A s \in Session :
       Open(s) \/ InSeq(s, commit.todo) => ~InSeq("Commit", inQ[s])
  /\ \A s \in Session : worker[s] = "start" => inQ[s] # <<>>

(* In the first mission names tell sessions apart, and an account is sent  *)
(* once, to the session it is of.                                          *)
Names ==
  mission = 1 =>
    /\ \A s \in Session : game[s] # "none" => oname[s] <= lastTrd
    /\ \A s, t \in Session :
         game[s] # "none" /\ game[t] # "none" /\ oname[s] = oname[t] => s = t
    /\ \A s \in Session :
         /\ worker[s] = "send" => target[s] = s
         /\ outQ[s] \in {<<>>, <<s>>}
         /\ worker[s] \notin {"serve", "crash", "over"} => outQ[s] = <<>>

(* Between two missions no session is open, so none of the kicks that the  *)
(* next mission forgets is still to be obeyed.                             *)
Reported ==
  /\ CrashReported
  /\ ~running => \A s \in Session : ~Open(s)

EInv ==
  Typed /\ Begun /\ Listed /\ Kept /\ Cleaned /\ Commits /\ Names /\ Reported
-----------------------------------------------------------------------------
LEMMA Starts == Init => EInv
<1> SUFFICES ASSUME Init PROVE EInv
  OBVIOUS
<1>1. Typed
  <2>1. /\ mission \in Nat \ {0} /\ lastTrd \in Nat /\ dllQ \in Nat
        /\ at \in Nat \ {0} /\ pool \in {"none", "ready"}
        /\ kicked \subseteq Session
        /\ inHive \subseteq Session /\ inFunctor \subseteq Session
    BY DEF Init
  <2>6. /\ running \in BOOLEAN /\ dllSeen \in BOOLEAN
        /\ half \in BOOLEAN /\ fault \in BOOLEAN
    BY Zenon DEF Init
  <2>2. /\ player \in [Session -> Players \cup {NoOne}]
        /\ game \in [Session -> {"none", "pending", "active", "left"}]
        /\ published \in [Session -> Nat] /\ oname \in [Session -> Nat]
        /\ data \in [Session -> {"none", "live", "freed"}]
        /\ worker \in [Session -> Place]
        /\ target \in [Session -> Session \cup {NoOne}]
    BY DEF Init, Place
  <2>3. inQ \in [Session -> Seq(Message)] /\ outQ \in [Session -> Seq(Session)]
    BY DEF Init
  <2>4. commit \in [todo : Seq(Session), all : Seq(Session)]
    BY DEF Init, NoCommit
  <2>5. /\ outputs \in Seq(Session) /\ stateQ \in Seq(Session)
        /\ cleanQ \in Seq(Seq(Session)) /\ batch \in Seq(Seq(Session))
    BY DEF Init
  <2> QED
    BY <2>1, <2>2, <2>3, <2>4, <2>5, <2>6 DEF Typed
<1>2. Begun /\ Cleaned /\ Names
  BY DEF Init, Begun, Cleaned, Names, Outputs, Distinct
<1>3. Lists = <<<<>>>>
  BY DEF Init, Lists, NoCommit
<1>4. Listed
  BY <1>3 DEF Init, Listed, ListedOnce, NoCommit, Distinct
<1>5. Kept
  BY <1>3 DEF Init, Kept, Open, Runs
<1>6. Commits
  BY DEF Init, Commits, CommitLast, CommitDataLive, Open, InSeq, NoCommit
<1>7. Reported
  BY DEF Init, Reported, CrashReported, Open
<1> QED
  BY <1>1, <1>2, <1>4, <1>5, <1>6, <1>7 DEF EInv

(* The lists, one by one: those received, those under way, and the one     *)
(* whose Commit the mission is sending.                                    *)
LEMMA Joined ==
  ASSUME NEW b \in Seq(Seq(Session)), NEW c \in Seq(Seq(Session)), NEW a \in Seq(Session),
         NEW q, q = b \o c \o <<a>>
  PROVE  /\ q \in Seq(Seq(Session)) /\ DOMAIN q = 1 .. Len(q)
         /\ Len(q) = Len(b) + Len(c) + 1
         /\ Len(b) \in Nat /\ Len(c) \in Nat /\ Len(q) \in Nat
         /\ q[Len(q)] = a
         /\ \A i \in 1 .. Len(b) : q[i] = b[i]
         /\ \A i \in 1 .. Len(c) : q[Len(b) + i] = c[i]
<1> DEFINE S == Seq(Session)
<1>1. b \in Seq(S) /\ c \in Seq(S) /\ a \in S
  OBVIOUS
<1> HIDE DEF S
<1>2. q \in Seq(S)
  BY <1>1
<1>3. q \in Seq(Seq(Session))
  BY <1>2 DEF S
<1> QED
  BY <1>1, <1>3

LEMMA ListsShape ==
  ASSUME Typed
  PROVE  /\ Lists \in Seq(Seq(Session)) /\ DOMAIN Lists = 1 .. Len(Lists)
         /\ Len(Lists) = Len(batch) + Len(cleanQ) + 1
         /\ Len(batch) \in Nat /\ Len(cleanQ) \in Nat /\ Len(Lists) \in Nat
         /\ Lists[Len(Lists)] = commit.all
         /\ \A i \in 1 .. Len(batch) : Lists[i] = batch[i]
         /\ \A i \in 1 .. Len(cleanQ) : Lists[Len(batch) + i] = cleanQ[i]
<1>1. batch \in Seq(Seq(Session)) /\ cleanQ \in Seq(Seq(Session)) /\ commit.all \in Seq(Session)
  BY DEF Typed
<1> QED
  BY <1>1, Joined DEF Lists

LEMMA ListsShapeNext ==
  ASSUME Typed'
  PROVE  /\ Lists' \in Seq(Seq(Session)) /\ DOMAIN Lists' = 1 .. Len(Lists')
         /\ Len(Lists') = Len(batch') + Len(cleanQ') + 1
         /\ Len(batch') \in Nat /\ Len(cleanQ') \in Nat /\ Len(Lists') \in Nat
         /\ Lists'[Len(Lists')] = commit'.all
         /\ \A i \in 1 .. Len(batch') : Lists'[i] = batch'[i]
         /\ \A i \in 1 .. Len(cleanQ') : Lists'[Len(batch') + i] = cleanQ'[i]
<1>1. batch' \in Seq(Seq(Session)) /\ cleanQ' \in Seq(Seq(Session)) /\ commit'.all \in Seq(Session)
  BY DEF Typed
<1> QED
  BY <1>1, Joined DEF Lists

(* The parts of the invariant that a step leaves alone.                    *)
LEMMA ListedStands ==
  ASSUME Listed, UNCHANGED <<batch, cleanQ, commit>>,
         \A s \in Session : game[s] = "left" => game'[s] = "left", Typed
  PROVE  Listed'
<1>1. Lists' = Lists
  BY DEF Lists
<1>2. \A i \in DOMAIN Lists : \A j \in DOMAIN Lists[i] : Lists[i][j] \in Session
  <2> SUFFICES ASSUME NEW i \in DOMAIN Lists, NEW j \in DOMAIN Lists[i]
               PROVE  Lists[i][j] \in Session
    OBVIOUS
  <2>1. Lists[i] \in Seq(Session)
    BY ListsShape, ElementOfSeq
  <2> QED
    BY <2>1
<1> QED
  BY <1>1, <1>2 DEF Listed, ListedOnce, InSeq, Distinct

LEMMA KeptStands ==
  ASSUME Kept, UNCHANGED <<batch, cleanQ, commit, at, half, inHive>>,
         Outputs \subseteq Outputs',
         \A s \in Session : Open(s)' \/ Runs(s)' => Open(s) \/ Runs(s)
  PROVE  Kept'
<1>1. Lists' = Lists
  BY DEF Lists
<1>2. \A i, j : Awaits(i, j)' <=> Awaits(i, j)
  BY DEF Awaits
<1> QED
  BY <1>1, <1>2 DEF Kept

LEMMA Ending ==
  ASSUME Typed
  PROVE  /\ batch # <<>> => /\ Head(batch) \in Seq(Session) /\ Head(batch) = batch[1]
                            /\ Len(Head(batch)) \in Nat
         /\ \A i \in DOMAIN Lists : \A j \in DOMAIN Lists[i] : Lists[i][j] \in Session
         /\ Busy => Record \in Session /\ at \in DOMAIN Head(batch)
         /\ batch # <<>> => 1 \in DOMAIN Lists /\ Lists[1] = Head(batch)
<1> DEFINE S == Seq(Session)
<1>1. batch \in Seq(S)
  BY DEF Typed
<1>2. batch # <<>> => Head(batch) \in S /\ Head(batch) = batch[1] /\ Len(batch) >= 1
  <2> HIDE DEF S
  <2> QED
    BY <1>1, HeadTailProperties, EmptySeq
<1>3. batch # <<>> => Len(Head(batch)) \in Nat /\ DOMAIN Head(batch) = 1 .. Len(Head(batch))
  BY <1>2
<1>4. \A i \in DOMAIN Lists : \A j \in DOMAIN Lists[i] : Lists[i][j] \in Session
  <2> SUFFICES ASSUME NEW i \in DOMAIN Lists, NEW j \in DOMAIN Lists[i]
               PROVE  Lists[i][j] \in Session
    OBVIOUS
  <2>1. Lists[i] \in Seq(Session)
    BY ListsShape, ElementOfSeq
  <2> QED
    BY <2>1
<1>5. Busy => Record \in Session /\ at \in DOMAIN Head(batch)
  <2> SUFFICES ASSUME Busy PROVE Head(batch)[at] \in Session /\ at \in DOMAIN Head(batch)
    BY DEF Record
  <2>1. Head(batch) \in S /\ at \in Nat \ {0} /\ at <= Len(Head(batch))
    BY <1>2 DEF Busy, Typed
  <2>2. at \in DOMAIN Head(batch)
    BY <1>3, <2>1 DEF Busy
  <2> QED
    BY <2>1, <2>2, ElementOfSeq
<1>6. batch # <<>> => 1 \in DOMAIN Lists /\ Lists[1] = Head(batch)
  BY <1>2, ListsShape
<1> QED
  BY <1>2, <1>3, <1>4, <1>5, <1>6

LEMMA CleanedStands ==
  ASSUME Cleaned, UNCHANGED <<batch, at, half>>, Typed,
         \A s \in Session : worker[s] = "over" => worker'[s] = "over"
  PROVE  Cleaned'
<1>1. batch # <<>> => \A j \in 1 .. at - 1 :
        worker[Head(batch)[j]] = "over" => worker'[Head(batch)[j]] = "over"
  <2> SUFFICES ASSUME batch # <<>>, NEW j \in 1 .. at - 1
               PROVE  Head(batch)[j] \in Session
    OBVIOUS
  <2>1. j \in DOMAIN Head(batch)
    BY Ending DEF Cleaned, Typed
  <2> QED
    BY <2>1, Ending
<1>2. half => (worker[Record] = "over" => worker'[Record] = "over")
  <2>1. half => at \in DOMAIN Head(batch)
    BY Ending DEF Cleaned, Typed
  <2> QED
    BY <2>1, Ending DEF Record, Cleaned
<1> QED
  BY <1>1, <1>2 DEF Cleaned, Record
-----------------------------------------------------------------------------
(* The connection threads.                                                 *)
LEMMA TailMessages ==
  ASSUME NEW q \in Seq(Message), NEW r, r = q \/ (q # <<>> /\ r = Tail(q))
  PROVE  /\ r \in Seq(Message)
         /\ InSeq("Commit", r) => InSeq("Commit", q)
         /\ (\A i \in DOMAIN q : q[i] = "Commit" => i = Len(q)) =>
              \A i \in DOMAIN r : r[i] = "Commit" => i = Len(r)
<1>1. CASE r = q
  BY <1>1
<1>2. CASE q # <<>> /\ r = Tail(q)
  <2>1. /\ Len(q) \in Nat \ {0} /\ r \in Seq(Message) /\ Len(r) = Len(q) - 1
        /\ \A i \in 1 .. Len(q) - 1 : r[i] = q[i + 1]
    BY <1>2, HeadTailProperties, EmptySeq
  <2>2. \A i \in DOMAIN r : i + 1 \in DOMAIN q /\ r[i] = q[i + 1]
    BY <2>1
  <2> QED
    BY <2>1, <2>2 DEF InSeq
<1> QED
  BY <1>1, <1>2

LEMMA AppendKeeps ==
  ASSUME NEW S, NEW q \in Seq(S), NEW e \in S
  PROVE  /\ InSeq(e, Append(q, e))
         /\ \A x : InSeq(x, q) => InSeq(x, Append(q, e))
<1>1. /\ Len(q) \in Nat /\ DOMAIN q = 1 .. Len(q)
      /\ DOMAIN Append(q, e) = 1 .. Len(q) + 1
      /\ Append(q, e)[Len(q) + 1] = e
      /\ \A i \in 1 .. Len(q) : Append(q, e)[i] = q[i]
  OBVIOUS
<1>2. 1 .. Len(q) \subseteq 1 .. Len(q) + 1 /\ Len(q) + 1 \in 1 .. Len(q) + 1
  BY <1>1
<1> QED
  BY <1>1, <1>2, Zenon DEF InSeq

LEMMA WorkerMoves ==
  ASSUME EInv, NEW s \in Session, Runs(s),
         UNCHANGED <<gameVars, oname, inHive, inFunctor, outputs, data, cleanVars>>,
         NEW p \in Place \ {"none", "start"}, worker' = [worker EXCEPT ![s] = p],
         NEW q, inQ' = [inQ EXCEPT ![s] = q],
         q = inQ[s] \/ (inQ[s] # <<>> /\ q = Tail(inQ[s])),
         target' \in [Session -> Session \cup {NoOne}],
         outQ' \in [Session -> Seq(Session)],
         stateQ' = stateQ \/ stateQ' = Append(stateQ, s),
         p # "over" \/ ~Open(s) \/ stateQ' = Append(stateQ, s),
         fault' \in BOOLEAN,
         Names'
  PROVE  EInv'
<1>1. /\ UNCHANGED <<mission, running, dllSeen, lastTrd, player, game, published,
                     commit, kicked>>
      /\ UNCHANGED <<oname, inHive, inFunctor, outputs, data>>
      /\ UNCHANGED <<pool, dllQ, cleanQ, batch, at, half>>
  BY DEF gameVars, cleanVars
<1>2. inQ[s] \in Seq(Message)
  BY DEF EInv, Typed
<1>3. /\ q \in Seq(Message)
      /\ InSeq("Commit", q) => InSeq("Commit", inQ[s])
      /\ (\A i \in DOMAIN inQ[s] : inQ[s][i] = "Commit" => i = Len(inQ[s])) =>
           \A i \in DOMAIN q : q[i] = "Commit" => i = Len(q)
  BY <1>2, TailMessages
<1>4. /\ worker' \in [Session -> Place] /\ inQ' \in [Session -> Seq(Message)]
      /\ worker'[s] = p /\ inQ'[s] = q
      /\ \A t \in Session : t # s => worker'[t] = worker[t] /\ inQ'[t] = inQ[t]
      /\ stateQ' \in Seq(Session)
  <2>1. worker' \in [Session -> Place] /\ inQ' \in [Session -> Seq(Message)]
    BY <1>3 DEF EInv, Typed
  <2>2. stateQ' \in Seq(Session)
    <3>1. stateQ \in Seq(Session)
      BY DEF EInv, Typed
    <3>2. Append(stateQ, s) \in Seq(Session)
      BY <3>1
    <3> QED
      BY <3>1, <3>2
  <2>3. /\ worker'[s] = p /\ inQ'[s] = q
        /\ \A t \in Session : t # s => worker'[t] = worker[t] /\ inQ'[t] = inQ[t]
    BY DEF EInv, Typed
  <2> QED
    BY <2>1, <2>2, <2>3
<1>5. Typed'
  BY <1>1, <1>4 DEF EInv, Typed
<1>6. \A t \in Session : /\ worker[t] = "over" => worker'[t] = "over"
                         /\ Runs(t)' => Runs(t)
                         /\ worker'[t] = "start" => t # s
                         /\ worker'[t] = "none" <=> worker[t] = "none"
  BY <1>4 DEF Runs
<1>7. Begun'
  <2>1. game[s] # "none"
    BY DEF EInv, Begun, Runs
  <2> QED
    BY <1>1, <1>4, <1>6, <2>1 DEF EInv, Begun, Outputs
<1>8. Listed'
  BY <1>1, ListedStands DEF EInv
<1>9. Kept'
  BY <1>1, <1>6, KeptStands DEF EInv, Open, Outputs
<1>10. Cleaned'
  BY <1>1, <1>6, CleanedStands DEF EInv
<1>11. Commits'
  <2>1. CommitLast'
    BY <1>3, <1>4 DEF EInv, Commits, CommitLast
  <2>2. \A t \in Session : InSeq("Commit", inQ'[t]) => InSeq("Commit", inQ[t])
    BY <1>3, <1>4
  <2>3. CommitDataLive'
    BY <1>1, <1>6, <2>2 DEF EInv, Commits, CommitDataLive
  <2>4. \A t \in Session :
          Open(t)' \/ InSeq(t, commit'.todo) => ~InSeq("Commit", inQ'[t])
    BY <1>1, <2>2 DEF EInv, Commits, Open
  <2>5. \A t \in Session : worker'[t] = "start" => inQ'[t] # <<>>
    BY <1>4, <1>6 DEF EInv, Commits
  <2> QED
    BY <2>1, <2>3, <2>4, <2>5 DEF Commits
<1>12. Reported'
  <2>1. stateQ \in Seq(Session)
    BY DEF EInv, Typed
  <2>2. \A t \in Session : InSeq(t, stateQ) => InSeq(t, stateQ')
    BY <2>1, AppendKeeps
  <2>3. p = "over" => ~Open(s) \/ InSeq(s, stateQ')
    BY <2>1, AppendKeeps
  <2> QED
    BY <1>1, <1>4, <2>2, <2>3 DEF EInv, Reported, CrashReported, Open
<1> QED
  BY <1>5, <1>7, <1>8, <1>9, <1>10, <1>11, <1>12 DEF EInv

(* A step of a thread that sends nothing keeps what is said of names.      *)
LEMMA NamesStand ==
  ASSUME EInv, NEW s \in Session, UNCHANGED <<mission, lastTrd, game, oname, outQ, target>>,
         NEW p \in {"borrow", "setup", "serve", "crash", "crashnull", "over"},
         worker' = [worker EXCEPT ![s] = p],
         p \in {"serve", "crash", "over"} \/ worker[s] \notin {"serve", "crash", "over"}
  PROVE  Names'
<1>1. \A t \in Session : worker'[t] = IF t = s THEN p ELSE worker[t]
  BY DEF EInv, Typed
<1> QED
  BY <1>1 DEF EInv, Names

LEMMA WStartStep ==
  ASSUME EInv, NEW s \in Session, WStart(s)
  PROVE  EInv'
<1>1. /\ worker[s] = "start" /\ inQ[s] # <<>>
      /\ inQ' = [inQ EXCEPT ![s] = Tail(inQ[s])]
      /\ worker' = [worker EXCEPT ![s] = "borrow"]
      /\ UNCHANGED <<gameVars, oname, outQ, inHive, inFunctor, outputs, data,
                     target, cleanVars, stateQ, fault>>
  BY DEF WStart, At, Pop, MoveTo, EInv, Commits
<1>2. Names'
  BY <1>1, NamesStand DEF gameVars
<1>3. stateQ' = stateQ /\ "borrow" # "over"
  BY <1>1
<1> QED
  BY <1>1, <1>2, <1>3, WorkerMoves DEF Runs, Place, EInv, Typed

(* Only a session that is left is sent its Commit.                         *)
LEMMA CommitAhead ==
  ASSUME EInv, NEW s \in Session, inQ[s] # <<>>, Head(inQ[s]) = "Commit"
  PROVE  ~Open(s)
<1>1. inQ[s] \in Seq(Message)
  BY DEF EInv, Typed
<1>2. InSeq("Commit", inQ[s])
  BY <1>1 DEF InSeq
<1> QED
  BY <1>2 DEF EInv, Commits

LEMMA WBorrowStep ==
  ASSUME EInv, NEW s \in Session, WBorrow(s)
  PROVE  EInv'
<1>1. /\ worker[s] = "borrow"
      /\ UNCHANGED <<gameVars, oname, outQ, inHive, inFunctor, outputs, data,
                     target, cleanVars, stateQ, fault>>
  BY DEF WBorrow, At
<1>2. PICK p \in {"over", "borrow", "setup", "crash", "crashnull"} :
        worker' = [worker EXCEPT ![s] = p]
  BY DEF WBorrow, MoveTo
<1>3. PICK q : /\ inQ' = [inQ EXCEPT ![s] = q]
               /\ q = inQ[s] \/ (inQ[s] # <<>> /\ q = Tail(inQ[s]))
  BY DEF WBorrow, Pop, EInv, Typed
<1>4. Names'
  BY <1>1, <1>2, NamesStand DEF gameVars
<1>5. p = "over" => ~Open(s)
  <2>1. p = "over" => worker'[s] = "over"
    BY <1>2 DEF EInv, Typed
  <2>2. worker'[s] = "over" => inQ[s] # <<>> /\ Head(inQ[s]) = "Commit"
    BY DEF WBorrow, MoveTo, EInv, Typed
  <2> QED
    BY <2>1, <2>2, CommitAhead
<1> QED
  BY <1>1, <1>2, <1>3, <1>4, <1>5, WorkerMoves DEF Runs, Place, EInv, Typed

LEMMA WServeStep ==
  ASSUME EInv, NEW s \in Session, WServe(s)
  PROVE  EInv'
<1>1. /\ worker[s] = "serve" /\ inQ[s] # <<>>
      /\ inQ' = [inQ EXCEPT ![s] = Tail(inQ[s])]
      /\ UNCHANGED <<gameVars, oname, outQ, inHive, inFunctor, outputs, data,
                     target, cleanVars, stateQ, fault>>
  BY DEF WServe, At, Pop
<1>2. PICK p \in {"over", "serve", "crash"} : worker' = [worker EXCEPT ![s] = p]
  BY DEF WServe, MoveTo
<1>3. Names'
  BY <1>1, <1>2, NamesStand DEF gameVars
<1>4. p = "over" => ~Open(s)
  <2>1. p = "over" => worker'[s] = "over"
    BY <1>2 DEF EInv, Typed
  <2>2. worker'[s] = "over" => Head(inQ[s]) = "Commit"
    BY DEF WServe, MoveTo, EInv, Typed
  <2> QED
    BY <1>1, <2>1, <2>2, CommitAhead
<1> QED
  BY <1>1, <1>2, <1>3, <1>4, WorkerMoves DEF Runs, Place, EInv, Typed

LEMMA WCrashStep ==
  ASSUME EInv, NEW s \in Session, WCrash(s)
  PROVE  EInv'
<1>1. /\ worker[s] \in {"crash", "crashnull"}
      /\ stateQ' = Append(stateQ, s)
      /\ worker' = [worker EXCEPT ![s] = "over"]
      /\ inQ' = [inQ EXCEPT ![s] = inQ[s]]
      /\ UNCHANGED <<gameVars, queueVars, target, cleanVars>>
  BY DEF WCrash, MoveTo, queueVars, EInv, Typed
<1>2. fault' \in BOOLEAN
  BY DEF WCrash
<1>3. Names'
  BY <1>1, NamesStand DEF gameVars, queueVars
<1> QED
  BY <1>1, <1>2, <1>3, WorkerMoves DEF Runs, Place, EInv, Typed, queueVars

(* A set of numbers has a least one; so the first handle of a name is one. *)
LEMMA Minimum ==
  ASSUME NEW T \in SUBSET Nat, T # {}
  PROVE  \E x \in T : \A y \in T : x <= y
<1> DEFINE R == {ss \in Nat \X Nat : ss[1] < ss[2]}
<1>1. IsWellFoundedOn(R, Nat)
  BY NatLessThanWellFounded DEF OpToRel
<1>2. \A x, y \in Nat : <<y, x>> \in R <=> y < x
  OBVIOUS
<1> HIDE DEF R
<1>3. PICK x \in T : \A y \in T : ~(<<y, x>> \in R)
  BY <1>1, WFMin
<1>4. \A y \in T : x <= y
  <2> SUFFICES ASSUME NEW y \in T PROVE x <= y
    OBVIOUS
  <2>1. x \in Nat /\ y \in Nat /\ ~(y < x)
    BY <1>2, <1>3
  <2> QED
    BY <2>1
<1> QED
  BY <1>4

LEMMA LookupFinds ==
  ASSUME Typed, NEW name
  PROVE  /\ Lookup(name) \in Session \cup {NoOne}
         /\ Named(name) # {} => \E i \in Named(name) : Lookup(name) = outputs[i]
<1>1. CASE Named(name) = {}
  <2> DEFINE k == CHOOSE i \in Named(name) : \A j \in Named(name) : i <= j
  <2>0. Lookup(name) = IF Named(name) = {} THEN NoOne ELSE outputs[k]
    BY DEF Lookup
  <2> HIDE DEF k
  <2>1. Lookup(name) = NoOne
    BY <1>1, <2>0
  <2> QED
    BY <1>1, <2>1
<1>2. CASE Named(name) # {}
  <2>0. outputs \in Seq(Session)
    BY Zenon DEF Typed
  <2>1. Named(name) \in SUBSET Nat /\ outputs \in Seq(Session)
    BY <2>0 DEF Named
  <2>2. \E i \in Named(name) : \A j \in Named(name) : i <= j
    BY <1>2, <2>1, Minimum
  <2> DEFINE k == CHOOSE i \in Named(name) : \A j \in Named(name) : i <= j
  <2>3. k \in Named(name)
    BY <2>2
  <2>4. Lookup(name) = outputs[k]
    BY <1>2 DEF Lookup
  <2>5. k \in DOMAIN outputs
    BY <2>3 DEF Named
  <2> HIDE DEF k
  <2>6. outputs[k] \in Session
    BY <2>1, <2>5
  <2> QED
    BY <2>3, <2>4, <2>6
<1> QED
  BY <1>1, <1>2

LEMMA WSetupStep ==
  ASSUME EInv, NEW s \in Session, WSetup(s)
  PROVE  EInv'
<1>1. /\ worker[s] = "setup"
      /\ inQ' = [inQ EXCEPT ![s] = inQ[s]]
      /\ UNCHANGED <<gameVars, oname, outQ, inHive, inFunctor, outputs, data,
                     cleanVars, stateQ, fault>>
  BY DEF WSetup, At, queueVars, EInv, Typed
<1>2. CASE worker' = [worker EXCEPT ![s] = "crash"] /\ UNCHANGED target
  <2>1. Names'
    BY <1>1, <1>2, NamesStand DEF gameVars
  <2>2. stateQ' = stateQ /\ "crash" # "over"
    BY <1>1
  <2> QED
    BY <1>1, <1>2, <2>1, <2>2, WorkerMoves DEF Runs, Place, EInv, Typed
<1>3. CASE /\ worker' = [worker EXCEPT ![s] = "send"]
           /\ target' = [target EXCEPT ![s] = Lookup(oname[s])]
  <2>1. target' \in [Session -> Session \cup {NoOne}]
    BY <1>3, LookupFinds DEF EInv, Typed
  <2>2. mission = 1 => Lookup(oname[s]) = s
    <3> SUFFICES ASSUME mission = 1 PROVE Lookup(oname[s]) = s
      OBVIOUS
    <3>1. s \in Outputs /\ game[s] # "none"
      BY <1>1 DEF EInv, Kept, Begun, Runs
    <3>2. \A i \in Named(oname[s]) : outputs[i] \in Session /\ oname[outputs[i]] = oname[s]
      BY DEF Named, EInv, Typed
    <3>3. \A i \in Named(oname[s]) : game[outputs[i]] # "none"
      BY <3>2 DEF EInv, Begun, Outputs, Named
    <3>4. \A i \in Named(oname[s]) : outputs[i] = s
      BY <3>1, <3>2, <3>3 DEF EInv, Names
    <3>5. Named(oname[s]) # {}
      BY <3>1 DEF Outputs, Named
    <3> QED
      BY <3>4, <3>5, LookupFinds DEF EInv
  <2>3. Names'
    <3>1. \A t \in Session : /\ worker'[t] = IF t = s THEN "send" ELSE worker[t]
                             /\ target'[t] = IF t = s THEN Lookup(oname[s]) ELSE target[t]
      BY <1>3 DEF EInv, Typed
    <3>2. UNCHANGED <<mission, lastTrd, game, oname, outQ>>
      BY <1>1 DEF gameVars
    <3> QED
      BY <1>1, <2>2, <3>1, <3>2 DEF EInv, Names
  <2>4. stateQ' = stateQ /\ "send" # "over"
    BY <1>1
  <2> QED
    BY <1>1, <1>3, <2>1, <2>3, <2>4, WorkerMoves DEF Runs, Place, EInv, Typed
<1> QED
  BY <1>2, <1>3 DEF WSetup, MoveTo

LEMMA WSendStep ==
  ASSUME EInv, NEW s \in Session, WSend(s)
  PROVE  EInv'
<1>1. /\ worker[s] = "send"
      /\ worker' = [worker EXCEPT ![s] = "serve"]
      /\ inQ' = [inQ EXCEPT ![s] = inQ[s]]
      /\ UNCHANGED <<gameVars, oname, inHive, inFunctor, outputs, data,
                     target, cleanVars, stateQ>>
  BY DEF WSend, At, MoveTo, EInv, Typed
<1>2. \/ target[s] \in Outputs /\ outQ' = Push(outQ, target[s], s) /\ fault' = fault
      \/ target[s] \notin Outputs /\ outQ' = outQ /\ fault' \in BOOLEAN
  BY DEF WSend
<1>3. outQ' \in [Session -> Seq(Session)]
  <2>1. outQ \in [Session -> Seq(Session)]
    BY DEF EInv, Typed
  <2>2. \A t \in Session : Append(outQ[t], s) \in Seq(Session)
    BY <2>1
  <2>3. Push(outQ, target[s], s) \in [Session -> Seq(Session)]
    BY <2>1, <2>2 DEF Push
  <2> QED
    BY <1>2, <2>1, <2>3
<1>4. Names'
  <2>1. UNCHANGED <<mission, lastTrd, game, oname, target>>
    BY <1>1 DEF gameVars
  <2>2. mission = 1 => target[s] = s /\ outQ[s] = <<>>
    BY <1>1 DEF EInv, Names
  <2>3. mission = 1 => /\ \A t \in Session : t # s => outQ'[t] = outQ[t]
                       /\ outQ'[s] \in {<<>>, <<s>>}
    BY <1>2, <2>2 DEF Push, EInv, Typed
  <2>4. \A t \in Session : worker'[t] = IF t = s THEN "serve" ELSE worker[t]
    BY <1>1 DEF EInv, Typed
  <2> QED
    BY <2>1, <2>3, <2>4 DEF EInv, Names
<1>5. fault' \in BOOLEAN
  BY <1>2 DEF EInv, Typed
<1>6. stateQ' = stateQ /\ "serve" # "over"
  BY <1>1
<1> QED
  BY <1>1, <1>3, <1>4, <1>5, <1>6, WorkerMoves DEF Runs, Place, EInv, Typed

(* Steps that change nothing the invariant is about, types apart.          *)
LEMMA Unmoved ==
  ASSUME EInv,
         UNCHANGED <<mission, lastTrd, player, game, commit, kicked, oname, inQ, outQ,
                     inHive, outputs, data, workerVars, cleanQ, batch, at, half, stateQ>>,
         running' = running, dllSeen' \in BOOLEAN, published' = published,
         inFunctor' \subseteq inFunctor, pool' \in {"none", "ready"}, dllQ' \in Nat,
         fault' \in BOOLEAN
  PROVE  EInv'
<1>1. UNCHANGED <<worker, target>>
  BY DEF workerVars
<1>2. Typed'
  BY <1>1 DEF EInv, Typed
<1>3. Begun' /\ Names' /\ Reported'
  BY <1>1 DEF EInv, Begun, Names, Reported, CrashReported, Outputs, Open
<1>4. Listed'
  BY <1>1, ListedStands DEF EInv
<1>5. Kept'
  BY <1>1, KeptStands DEF EInv, Open, Outputs, Runs
<1>6. Cleaned'
  BY <1>1, CleanedStands DEF EInv
<1>7. Commits'
  BY <1>1 DEF EInv, Commits, CommitLast, CommitDataLive, Open
<1> QED
  BY <1>2, <1>3, <1>4, <1>5, <1>6, <1>7 DEF EInv

LEMMA WorkerStep ==
  ASSUME EInv, NEW s \in Session, Worker(s)
  PROVE  EInv'
<1>1. CASE WBorrowNull(s)
  BY <1>1, Unmoved DEF WBorrowNull, gameVars, queueVars, cleanVars, EInv, Typed
<1>2. CASE WGone(s)
  BY <1>2, Unmoved DEF WGone, gameVars, cleanVars, EInv, Typed
<1> QED
  BY <1>1, <1>2, WStartStep, WBorrowStep, WSetupStep, WSendStep, WServeStep,
     WCrashStep DEF Worker
-----------------------------------------------------------------------------
(* The cleanup thread.                                                     *)
LEMMA CStartStep == EInv /\ CStart => EInv'
<1> SUFFICES ASSUME EInv, CStart PROVE EInv'
  OBVIOUS
<1>1. UNCHANGED <<gameVars, oname, inQ, outQ, inHive, inFunctor, outputs, data,
                  workerVars, cleanQ, batch, at, half, stateQ>>
  BY DEF CStart, queueVars
<1>2. pool' \in {"none", "ready"} /\ dllQ' \in Nat
  BY DEF CStart, EInv, Typed
<1>3. fault' \in BOOLEAN
  BY Zenon DEF CStart, EInv, Typed
<1>4. /\ UNCHANGED <<mission, running, dllSeen, lastTrd, player, game, published,
                     commit, kicked>>
      /\ UNCHANGED <<running, dllSeen>>
  BY <1>1 DEF gameVars
<1>5. running' \in BOOLEAN /\ dllSeen' \in BOOLEAN
  BY <1>4, Zenon DEF EInv, Typed
<1> QED
  BY <1>1, <1>2, <1>3, <1>4, <1>5, Unmoved

(* What a record of the first list is called in the lists.                 *)
LEMMA RecordAwaited ==
  ASSUME EInv, Busy
  PROVE  /\ Record \in Session /\ 1 \in DOMAIN Lists /\ at \in DOMAIN Lists[1]
         /\ Lists[1][at] = Record /\ game[Record] = "left"
         /\ ~Open(Record)
<1>1. /\ Record \in Session /\ 1 \in DOMAIN Lists /\ at \in DOMAIN Lists[1]
      /\ Lists[1][at] = Record
  BY Ending DEF Busy, Record, EInv
<1> QED
  BY <1>1 DEF EInv, Listed, Open

LEMMA CDeleteInputStep == EInv /\ CDeleteInput => EInv'
<1> SUFFICES ASSUME EInv, CDeleteInput PROVE EInv'
  OBVIOUS
<1> DEFINE r == Record
<1>1. /\ UNCHANGED <<mission, running, dllSeen, lastTrd, player, game, published,
                     commit, kicked>>
      /\ UNCHANGED <<oname, inQ, outQ, inFunctor, outputs, data, worker, target>>
      /\ UNCHANGED <<pool, dllQ, cleanQ, batch, at, stateQ, fault>>
      /\ half = FALSE /\ half' = TRUE /\ inHive' = inHive \ {r}
      /\ worker[r] = "over" /\ Busy
  BY DEF CDeleteInput, Ended, gameVars, workerVars, EInv, Typed
<1>2. /\ r \in Session /\ 1 \in DOMAIN Lists /\ at \in DOMAIN Lists[1]
      /\ Lists[1][at] = r /\ ~Open(r)
  BY <1>1, RecordAwaited
<1>3. at \in Nat
  BY DEF EInv, Typed
<1> HIDE DEF r
<1>4. Typed'
  BY <1>1 DEF EInv, Typed
<1>5. Begun' /\ Names' /\ Reported'
  BY <1>1 DEF EInv, Begun, Names, Reported, CrashReported, Outputs, Open
<1>6. Listed'
  BY <1>1, ListedStands DEF EInv
<1>7. Lists' = Lists
  BY <1>1 DEF Lists
<1>8. Kept'
  <2>1. \A s \in Session : Open(s)' \/ Runs(s)' => s \in inHive' \cap Outputs'
    BY <1>1, <1>2 DEF EInv, Kept, Open, Runs, Outputs
  <2>2. ASSUME NEW i \in DOMAIN Lists, NEW j \in DOMAIN Lists[i], Awaits(i, j)'
        PROVE  Lists[i][j] \in inHive' \cap Outputs'
    <3>1. j \in Nat
      BY ListsShape, ElementOfSeq DEF EInv
    <3>2. Awaits(i, j) /\ ~(i = 1 /\ j = at)
      BY <1>1, <1>3, <2>2, <3>1 DEF Awaits, Busy
    <3>3. Lists[i][j] # r
      BY <1>2, <3>2 DEF EInv, Listed, ListedOnce
    <3> QED
      BY <1>1, <3>2, <3>3 DEF EInv, Kept, Outputs
  <2> QED
    BY <1>7, <2>1, <2>2 DEF Kept
<1>9. Cleaned'
  BY <1>1 DEF EInv, Cleaned, Busy, Record, r
<1>10. Commits'
  BY <1>1 DEF EInv, Commits, CommitLast, CommitDataLive, Open
<1> QED
  BY <1>4, <1>5, <1>6, <1>8, <1>9, <1>10 DEF EInv

(* r is q, 1 .. n, without its member i.                                   *)
Without(q, n, i, r) ==
  \A k \in 1 .. n - 1 : r[k] = IF k < i THEN q[k] ELSE q[k + 1]

Members(q, n) == {q[k] : k \in 1 .. n}

Unlike(q, n) == \A k, m \in 1 .. n : q[k] = q[m] => k = m

LEMMA Shifted ==
  ASSUME NEW n \in Nat, NEW i \in 1 .. n, NEW q, NEW r,
         Without(q, n, i, r), Unlike(q, n)
  PROVE  /\ Unlike(r, n - 1)
         /\ Members(r, n - 1) = Members(q, n) \ {q[i]}
<1> USE DEF Without, Unlike, Members
<1>1. \A k \in 1 .. n - 1 :
        LET m == IF k < i THEN k ELSE k + 1 IN m \in 1 .. n /\ m # i /\ r[k] = q[m]
  OBVIOUS
<1>2. \A m \in 1 .. n :
        LET k == IF m < i THEN m ELSE m - 1 IN m # i => k \in 1 .. n - 1 /\ r[k] = q[m]
  <2> SUFFICES ASSUME NEW m \in 1 .. n, m # i
               PROVE  LET k == IF m < i THEN m ELSE m - 1
                      IN  k \in 1 .. n - 1 /\ r[k] = q[m]
    OBVIOUS
  <2>1. CASE m < i
    <3>1. m \in 1 .. n - 1
      BY <2>1
    <3> QED
      BY <2>1, <3>1
  <2>2. CASE ~(m < i)
    <3>1. m - 1 \in 1 .. n - 1 /\ ~(m - 1 < i) /\ (m - 1) + 1 = m
      BY <2>2
    <3> QED
      BY <2>2, <3>1
  <2> QED
    BY <2>1, <2>2
<1>3. ASSUME NEW k \in 1 .. n - 1, NEW m \in 1 .. n - 1, r[k] = r[m]
      PROVE  k = m
  <2>1. (IF k < i THEN k ELSE k + 1) = (IF m < i THEN m ELSE m + 1)
    BY <1>1, <1>3
  <2> QED
    BY <2>1
<1>4. {r[k] : k \in 1 .. n - 1} = {q[k] : k \in 1 .. n} \ {q[i]}
  <2>1. \A k \in 1 .. n - 1 : \E m \in 1 .. n : m # i /\ r[k] = q[m]
    BY <1>1
  <2>2. \A m \in 1 .. n : m # i => \E k \in 1 .. n - 1 : r[k] = q[m]
    BY <1>2
  <2>3. \A m \in 1 .. n : m # i => q[m] # q[i]
    OBVIOUS
  <2> QED
    BY <2>1, <2>2, <2>3
<1> QED
  BY <1>3, <1>4

MembersOf(q) == {q[i] : i \in DOMAIN q}

(* A place behind the one taken out, counted from there.                   *)
LEMMA PlaceBehind ==
  ASSUME NEW i \in Int, NEW k \in Int, NEW n \in Int, i <= k, k <= n - 1
  PROVE  /\ k - (i - 1) \in 1 .. n - i /\ i + (k - (i - 1)) = k + 1
         /\ ~(k <= i - 1)
  OBVIOUS

(* Taking one of several different members out of a sequence.              *)
LEMMA TakenOut ==
  ASSUME NEW S, NEW q \in Seq(S), NEW i \in DOMAIN q, Distinct(q),
         NEW r, r = SubSeq(q, 1, i - 1) \o SubSeq(q, i + 1, Len(q))
  PROVE  /\ r \in Seq(S) /\ Distinct(r)
         /\ MembersOf(r) = MembersOf(q) \ {q[i]}
<1>1. PICK n \in Nat : n = Len(q) /\ DOMAIN q = 1 .. n /\ i \in 1 .. n
  BY LenProperties
<1>2. \A k \in 1 .. n : q[k] \in S
  BY <1>1, ElementOfSeq
<1>3. PICK a : a = SubSeq(q, 1, i - 1)
  OBVIOUS
<1>4. PICK b : b = SubSeq(q, i + 1, n)
  OBVIOUS
<1>5. a \in Seq(S) /\ Len(a) = i - 1 /\ \A k \in 1 .. i - 1 : a[k] = q[k]
  <2>1. i - 1 \in Int /\ \A k \in 1 .. i - 1 : q[k] \in S
    BY <1>1, <1>2
  <2>2. /\ a \in Seq(S) /\ Len(a) = IF 1 <= i - 1 THEN i - 1 - 1 + 1 ELSE 0
        /\ \A k \in 1 .. i - 1 - 1 + 1 : a[k] = q[1 + k - 1]
    BY <1>3, <2>1, SubSeqProperties
  <2> QED
    BY <1>1, <2>2
<1>6. b \in Seq(S) /\ Len(b) = n - i /\ \A k \in 1 .. n - i : b[k] = q[i + k]
  <2>1. i + 1 \in Int /\ n \in Int /\ \A k \in i + 1 .. n : q[k] \in S
    BY <1>1, <1>2
  <2>2. /\ b \in Seq(S) /\ Len(b) = IF i + 1 <= n THEN n - (i + 1) + 1 ELSE 0
        /\ \A k \in 1 .. n - (i + 1) + 1 : b[k] = q[(i + 1) + k - 1]
    BY <1>4, <2>1, SubSeqProperties, SMTT(30)
  <2>3. Len(b) = n - i /\ n - (i + 1) + 1 = n - i
    BY <1>1, <2>2
  <2>4. \A k \in 1 .. n - i : (i + 1) + k - 1 = i + k
    BY <1>1
  <2> QED
    BY <2>2, <2>3, <2>4
<1>7. /\ r \in Seq(S) /\ Len(r) = Len(a) + Len(b)
      /\ \A k \in 1 .. Len(a) + Len(b) : r[k] = IF k <= Len(a) THEN a[k] ELSE b[k - Len(a)]
  <2>1. r = a \o b
    BY <1>1, <1>3, <1>4
  <2>2. a \in Seq(S) /\ b \in Seq(S)
    BY <1>5, <1>6
  <2> QED
    <3>1. /\ a \o b \in Seq(S) /\ Len(a \o b) = Len(a) + Len(b)
          /\ \A k \in 1 .. Len(a) + Len(b) :
               (a \o b)[k] = IF k <= Len(a) THEN a[k] ELSE b[k - Len(a)]
      BY <2>2, ConcatProperties, Zenon
    <3> QED
      BY <2>1, <3>1
<1>8. Len(r) = n - 1 /\ DOMAIN r = 1 .. n - 1
  <2>0. Len(a) = i - 1 /\ Len(b) = n - i /\ Len(r) = Len(a) + Len(b) /\ n \in Nat /\ i \in 1 .. n
    BY <1>1, <1>5, <1>6, <1>7, Zenon
  <2>1. Len(r) = n - 1
    <3>1. PICK k \in Int : k = i
      BY <2>0
    <3>2. (k - 1) + (n - k) = n - 1
      OBVIOUS
    <3>3. Len(r) = (k - 1) + (n - k)
      BY <2>0, <3>1
    <3> QED
      BY <3>2, <3>3
  <2>2. r \in Seq(S)
    BY <1>7
  <2>3. DOMAIN r = 1 .. Len(r)
    BY <2>2, LenProperties
  <2> QED
    BY <2>1, <2>3
<1>9. Without(q, n, i, r)
  <2> SUFFICES ASSUME NEW k \in 1 .. n - 1
               PROVE  r[k] = IF k < i THEN q[k] ELSE q[k + 1]
    BY DEF Without
  <2>1. r[k] = IF k <= i - 1 THEN a[k] ELSE b[k - (i - 1)]
    <3>1. Len(a) = i - 1 /\ k \in 1 .. Len(a) + Len(b)
      BY <1>1, <1>5, <1>6
    <3> QED
      BY <1>7, <3>1
  <2>2. CASE k < i
    <3>1. k \in 1 .. i - 1 /\ k <= i - 1
      BY <1>1, <2>2
    <3>2. a[k] = q[k]
      BY <1>5, <3>1
    <3> QED
      BY <2>1, <2>2, <3>1, <3>2
  <2>3. CASE ~(k < i)
    <3> DEFINE j == k - (i - 1)
    <3>1. i \in Int /\ k \in Int /\ n \in Int /\ i <= k /\ k <= n - 1
      BY <1>1, <2>3
    <3>2. j \in 1 .. n - i /\ i + j = k + 1 /\ ~(k <= i - 1)
      BY <3>1, PlaceBehind
    <3>3. r[k] = b[j]
      BY <2>1, <3>2
    <3> HIDE DEF j
    <3>4. b[j] = q[i + j]
      BY <1>6, <3>2
    <3> QED
      BY <2>3, <3>2, <3>3, <3>4
  <2> QED
    BY <2>2, <2>3
<1>10. Unlike(q, n)
  BY <1>1 DEF Distinct, Unlike
<1>11. n \in Nat /\ i \in 1 .. n
  BY <1>1
<1>12. /\ Unlike(r, n - 1)
       /\ Members(r, n - 1) = Members(q, n) \ {q[i]}
  BY <1>9, <1>10, <1>11, Shifted
<1>13. Distinct(r)
  BY <1>8, <1>12 DEF Distinct, Unlike
<1> QED
  BY <1>1, <1>7, <1>8, <1>12, <1>13 DEF Members, MembersOf

LEMMA CDeleteOutputStep == EInv /\ CDeleteOutput => EInv'
<1> SUFFICES ASSUME EInv, CDeleteOutput PROVE EInv'
  OBVIOUS
<1> DEFINE r == Record
<1>1. /\ UNCHANGED <<mission, running, dllSeen, lastTrd, player, game, published,
                     commit, kicked>>
      /\ UNCHANGED <<oname, inQ, outQ, inHive, inFunctor, data, worker, target>>
      /\ UNCHANGED <<pool, dllQ, cleanQ, batch, stateQ, fault>>
      /\ half = TRUE /\ half' = FALSE /\ at' = at + 1 /\ Busy
  BY DEF CDeleteOutput, gameVars, workerVars, EInv, Typed
<1>2. /\ r \in Session /\ 1 \in DOMAIN Lists /\ at \in DOMAIN Lists[1]
      /\ Lists[1][at] = r /\ ~Open(r) /\ game[r] = "left"
  BY <1>1, RecordAwaited
<1>3. at \in Nat /\ worker[r] = "over" /\ batch # <<>> /\ at <= Len(Head(batch))
  BY <1>1 DEF EInv, Typed, Cleaned, Busy
<1>4. outputs' \in Seq(Session) /\ Distinct(outputs') /\ Outputs' = Outputs \ {r}
  <2>1. PICK i \in DOMAIN outputs :
          /\ outputs[i] = r
          /\ outputs' = SubSeq(outputs, 1, i - 1) \o SubSeq(outputs, i + 1, Len(outputs))
    BY DEF CDeleteOutput
  <2>2. outputs \in Seq(Session) /\ Distinct(outputs)
    BY DEF EInv, Typed, Begun
  <2>3. PICK o : o = outputs'
    OBVIOUS
  <2>4. o \in Seq(Session) /\ Distinct(o) /\ MembersOf(o) = MembersOf(outputs) \ {r}
    <3>1. o = SubSeq(outputs, 1, i - 1) \o SubSeq(outputs, i + 1, Len(outputs))
      BY <2>1, <2>3
    <3>2. o \in Seq(Session) /\ Distinct(o) /\ MembersOf(o) = MembersOf(outputs) \ {outputs[i]}
      BY <2>1, <2>2, <3>1, TakenOut, Zenon
    <3> QED
      BY <2>1, <3>2
  <2>5. Outputs = MembersOf(outputs) /\ Outputs' = MembersOf(outputs')
    BY Zenon DEF Outputs, MembersOf
  <2>6. Distinct(outputs') /\ MembersOf(outputs') = MembersOf(outputs) \ {r}
    BY <2>3, <2>4, Zenon
  <2> QED
    BY <2>3, <2>4, <2>5, <2>6
<1> HIDE DEF r
<1>5. Typed'
  <2>1. at' \in Nat \ {0}
    BY <1>1, <1>3
  <2>2. half' \in BOOLEAN
    BY <1>1
  <2> QED
    BY <1>1, <1>4, <2>1, <2>2 DEF EInv, Typed
<1>6. Begun' /\ Names' /\ Reported'
  BY <1>1, <1>4 DEF EInv, Begun, Names, Reported, CrashReported, Open
<1>7. Listed'
  BY <1>1, ListedStands DEF EInv
<1>8. Lists' = Lists
  BY <1>1 DEF Lists
<1>9. Kept'
  <2>1. \A s \in Session : Open(s)' \/ Runs(s)' => s \in inHive' \cap Outputs'
    BY <1>1, <1>2, <1>3, <1>4 DEF EInv, Kept, Open, Runs
  <2>2. ASSUME NEW i \in DOMAIN Lists, NEW j \in DOMAIN Lists[i], Awaits(i, j)'
        PROVE  Lists[i][j] \in inHive' \cap Outputs'
    <3>1. j \in Nat
      BY ListsShape, ElementOfSeq DEF EInv
    <3>2. Awaits(i, j) /\ ~(i = 1 /\ j = at)
      BY <1>1, <1>3, <2>2, <3>1 DEF Awaits
    <3>3. Lists[i][j] # r
      BY <1>2, <3>2 DEF EInv, Listed, ListedOnce
    <3> QED
      BY <1>1, <1>4, <3>2, <3>3 DEF EInv, Kept
  <2> QED
    BY <1>8, <2>1, <2>2 DEF Kept
<1>10. Cleaned'
  <2>1. /\ at' = at + 1 /\ half' = FALSE /\ UNCHANGED <<batch, worker>>
        /\ Head(batch)[at] = r
    BY <1>1 DEF r, Record
  <2>2. Len(Head(batch)) \in Nat /\ at # 0
    BY <1>3, Ending DEF EInv, Typed
  <2>3. \A j \in 1 .. at' - 1 : j \in 1 .. at - 1 \/ j = at
    BY <1>3, <2>1
  <2> QED
    BY <1>3, <2>1, <2>2, <2>3 DEF EInv, Cleaned
<1>11. Commits'
  BY <1>1 DEF EInv, Commits, CommitLast, CommitDataLive, Open
<1> QED
  BY <1>5, <1>6, <1>7, <1>9, <1>10, <1>11 DEF EInv

LEMMA CReceiveStep == EInv /\ CReceive => EInv'
<1> SUFFICES ASSUME EInv, CReceive PROVE EInv'
  OBVIOUS
<1>1. /\ UNCHANGED <<mission, running, dllSeen, lastTrd, player, game, published,
                     commit, kicked>>
      /\ UNCHANGED <<oname, inQ, outQ, inHive, inFunctor, outputs, data, worker, target>>
      /\ UNCHANGED <<pool, dllQ, half, stateQ, fault>>
      /\ batch = <<>> /\ batch' = cleanQ /\ cleanQ' = <<>> /\ at' = 1
  BY DEF CReceive, gameVars, queueVars, workerVars
<1>2. Typed'
  BY <1>1 DEF EInv, Typed
<1>3. ~half
  BY <1>1 DEF EInv, Cleaned
<1>4. Lists' = Lists
  <2> DEFINE S == Seq(Session)
  <2>1. cleanQ \in Seq(S) /\ batch = <<>> /\ <<commit.all>> \in Seq(S)
    BY <1>1 DEF EInv, Typed
  <2> HIDE DEF S
  <2>2. batch \o cleanQ = cleanQ /\ cleanQ \o batch = cleanQ
    BY <2>1, ConcatEmptySeq, Zenon
  <2>3. Lists' = (cleanQ \o batch) \o <<commit.all>>
    BY <1>1 DEF Lists
  <2> QED
    BY <2>2, <2>3 DEF Lists
<1>5. Begun' /\ Names' /\ Reported'
  BY <1>1 DEF EInv, Begun, Names, Reported, CrashReported, Outputs, Open
<1>6. Listed'
  BY <1>1, <1>4 DEF EInv, Listed, ListedOnce, InSeq
<1>7. Kept'
  BY <1>1, <1>4 DEF EInv, Kept, Open, Runs, Outputs, Awaits
<1>8. Cleaned'
  <2>1. batch' # <<>> => Len(Head(batch')) \in Nat
    BY <1>2, Ending DEF Typed
  <2> QED
    BY <1>1, <1>3, <2>1 DEF Cleaned
<1>9. Commits'
  BY <1>1 DEF EInv, Commits, CommitLast, CommitDataLive, Open
<1> QED
  BY <1>2, <1>5, <1>6, <1>7, <1>8, <1>9 DEF EInv

(* The lists that are left when the first of a batch is deleted.           *)
LEMMA ListsRest ==
  ASSUME Typed, Typed', batch # <<>>, batch' = Tail(batch), UNCHANGED <<cleanQ, commit>>
  PROVE  \A i \in DOMAIN Lists' : /\ i + 1 \in DOMAIN Lists /\ i + 1 # 1
                                  /\ Lists'[i] = Lists[i + 1]
<1> DEFINE S == Seq(Session)
<1>1. batch \in Seq(S)
  BY DEF Typed
<1> HIDE DEF S
<1>2. PICK b, c, l : b = Len(batch) /\ c = Len(cleanQ) /\ l = Len(Lists')
  OBVIOUS
<1>3. /\ b \in Nat /\ c \in Nat /\ b > 0
      /\ Len(batch') = b - 1 /\ \A i \in 1 .. b - 1 : batch'[i] = batch[i + 1]
  <2>1. Len(batch) > 0 /\ Len(batch') = Len(batch) - 1
    BY <1>1, HeadTailProperties, EmptySeq
  <2>2. \A i \in 1 .. Len(batch) - 1 : batch'[i] = batch[i + 1]
    BY <1>1, HeadTailProperties
  <2> QED
    BY <1>2, <2>1, <2>2, ListsShape
<1>4. /\ Len(Lists) = b + c + 1 /\ DOMAIN Lists = 1 .. b + c + 1
      /\ Lists[b + c + 1] = commit.all
      /\ \A i \in 1 .. b : Lists[i] = batch[i]
      /\ \A i \in 1 .. c : Lists[b + i] = cleanQ[i]
  <2>1. Len(Lists) = b + c + 1
    BY <1>2, ListsShape
  <2> QED
    BY <1>2, <2>1, ListsShape
<1>5. /\ l = b - 1 + c + 1
      /\ Lists'[l] = commit.all
      /\ \A i \in 1 .. b - 1 : Lists'[i] = batch'[i]
      /\ \A i \in 1 .. c : Lists'[(b - 1) + i] = cleanQ[i]
  <2>1. /\ Len(Lists') = Len(batch') + Len(cleanQ') + 1
        /\ Lists'[Len(Lists')] = commit'.all
        /\ \A i \in 1 .. Len(batch') : Lists'[i] = batch'[i]
        /\ \A i \in 1 .. Len(cleanQ') : Lists'[Len(batch') + i] = cleanQ'[i]
    BY ListsShapeNext
  <2> QED
    BY <1>2, <1>3, <2>1
<1>6. DOMAIN Lists' = 1 .. b + c
  <2>1. DOMAIN Lists' = 1 .. l
    BY <1>2, ListsShapeNext
  <2>2. l = b + c
    BY <1>3, <1>5
  <2> QED
    BY <2>1, <2>2
<1> SUFFICES ASSUME NEW i \in 1 .. b + c
             PROVE  /\ i + 1 \in DOMAIN Lists /\ i + 1 # 1
                    /\ Lists'[i] = Lists[i + 1]
  BY <1>6
<1>7. i + 1 \in 1 .. b + c + 1 /\ i + 1 # 1
  BY <1>3
<1>8. CASE i \in 1 .. b - 1
  <2>1. i + 1 \in 1 .. b
    BY <1>3, <1>8
  <2> QED
    BY <1>3, <1>4, <1>5, <1>7, <1>8, <2>1
<1>9. CASE i = b + c
  BY <1>3, <1>4, <1>5, <1>7, <1>9
<1>10. CASE i \notin 1 .. b - 1 /\ i # b + c
  <2>1. i - (b - 1) \in 1 .. c /\ (b - 1) + (i - (b - 1)) = i
        /\ b + (i - (b - 1)) = i + 1
    BY <1>3, <1>10
  <2>2. Lists'[(b - 1) + (i - (b - 1))] = cleanQ[i - (b - 1)]
    BY <1>5, <2>1
  <2>3. Lists[b + (i - (b - 1))] = cleanQ[i - (b - 1)]
    BY <1>4, <2>1
  <2> QED
    BY <1>4, <1>7, <2>1, <2>2, <2>3
<1> QED
  BY <1>8, <1>9, <1>10

LEMMA CDeleteMsgStep == EInv /\ CDeleteMsg => EInv'
<1> SUFFICES ASSUME EInv, CDeleteMsg PROVE EInv'
  OBVIOUS
<1>1. /\ UNCHANGED <<mission, running, dllSeen, lastTrd, player, game, published,
                     commit, kicked>>
      /\ UNCHANGED <<oname, inQ, outQ, inHive, inFunctor, outputs, worker, target>>
      /\ UNCHANGED <<pool, dllQ, cleanQ, half, stateQ, fault>>
      /\ batch # <<>> /\ at > Len(Head(batch)) /\ batch' = Tail(batch) /\ at' = 1
  BY DEF CDeleteMsg, gameVars, workerVars
<1>2. Head(batch) \in Seq(Session) /\ Len(Head(batch)) \in Nat /\ at \in Nat
  BY <1>1, Ending DEF EInv, Typed
<1>3. ~half
  BY <1>1, <1>2 DEF EInv, Cleaned
<1>4. \A s \in Session : InSeq(s, Head(batch)) => worker[s] = "over"
  <2>1. at - 1 = Len(Head(batch))
    BY <1>1, <1>2 DEF EInv, Cleaned
  <2> QED
    BY <1>1, <1>2, <2>1 DEF EInv, Cleaned, InSeq
<1>5. data' = [s \in Session |-> IF InSeq(s, Head(batch)) THEN "freed" ELSE data[s]]
  BY DEF CDeleteMsg, InSeq
<1>6. Typed'
  <2>1. data' \in [Session -> {"none", "live", "freed"}]
    BY <1>5 DEF EInv, Typed
  <2>2. batch' \in Seq(Seq(Session))
    <3> DEFINE S == Seq(Session)
    <3>1. batch \in Seq(S)
      BY DEF EInv, Typed
    <3> HIDE DEF S
    <3>2. batch' \in Seq(S)
      BY <1>1, <3>1, HeadTailProperties
    <3> QED
      BY <3>2 DEF S
  <2> QED
    BY <1>1, <2>1, <2>2 DEF EInv, Typed
<1>7. \A i \in DOMAIN Lists' : /\ i + 1 \in DOMAIN Lists /\ i + 1 # 1
                               /\ Lists'[i] = Lists[i + 1]
  BY <1>1, <1>6, ListsRest DEF EInv
<1>8. \A i \in DOMAIN Lists' : i \in Int
  BY <1>6, ListsShapeNext
<1>9. Begun' /\ Names' /\ Reported'
  BY <1>1 DEF EInv, Begun, Names, Reported, CrashReported, Outputs, Open
<1>10. Listed'
  <2>1. ListedOnce(Lists')
    <3>1. \A i, k \in DOMAIN Lists' : i + 1 = k + 1 => i = k
      BY <1>8
    <3> QED
      BY <1>7, <3>1 DEF EInv, Listed, ListedOnce
  <2>2. \A i \in DOMAIN Lists' : \A j \in DOMAIN Lists'[i] : game'[Lists'[i][j]] = "left"
    BY <1>1, <1>7 DEF EInv, Listed
  <2> QED
    BY <1>1, <2>1, <2>2 DEF EInv, Listed, ListedOnce
<1>11. Kept'
  <2>1. \A s \in Session : Open(s)' \/ Runs(s)' => s \in inHive' \cap Outputs'
    BY <1>1 DEF EInv, Kept, Open, Runs, Outputs
  <2>2. \A i \in DOMAIN Lists' : \A j \in DOMAIN Lists'[i] :
          Lists'[i][j] \in inHive' \cap Outputs'
    BY <1>1, <1>7 DEF EInv, Kept, Awaits, Outputs
  <2> QED
    BY <2>1, <2>2 DEF Kept
<1>12. Cleaned'
  <2>1. batch' # <<>> => Len(Head(batch')) \in Nat
    <3> DEFINE S == Seq(Session)
    <3>1. batch' \in Seq(S)
      BY <1>6 DEF Typed
    <3>2. batch' # <<>> => Head(batch') \in S
      <4> HIDE DEF S
      <4> QED
        BY <3>1, HeadTailProperties
    <3> QED
      BY <3>2
  <2> QED
    BY <1>1, <1>3, <2>1 DEF Cleaned
<1>13. Commits'
  <2>1. \A s \in Session : worker[s] # "over" => data'[s] = data[s]
    BY <1>4, <1>5
  <2> QED
    BY <1>1, <2>1 DEF EInv, Commits, CommitLast, CommitDataLive, Open
<1> QED
  BY <1>6, <1>9, <1>10, <1>11, <1>12, <1>13 DEF EInv

LEMMA CleanupStep == EInv /\ Cleanup => EInv'
BY CStartStep, CReceiveStep, CDeleteInputStep, CDeleteOutputStep, CDeleteMsgStep
   DEF Cleanup
-----------------------------------------------------------------------------
(* The game thread.                                                        *)
LEMMA GetDllStateStep == EInv /\ GetDllState => EInv'
<1> SUFFICES ASSUME EInv, GetDllState PROVE EInv'
  OBVIOUS
<1>1. /\ UNCHANGED <<mission, lastTrd, player, game, commit, kicked, oname, inQ, outQ,
                     inHive, outputs, data, workerVars, cleanQ, batch, at, half, stateQ>>
      /\ UNCHANGED <<running, published, inFunctor, pool, fault>>
      /\ dllSeen' = TRUE /\ dllQ > 0 /\ dllQ' = dllQ - 1
  BY DEF GetDllState, queueVars
<1>2. dllQ' \in Nat
  BY <1>1 DEF EInv, Typed
<1>3. running' \in BOOLEAN /\ dllSeen' \in BOOLEAN /\ fault' \in BOOLEAN
  BY <1>1, Zenon DEF EInv, Typed
<1> QED
  BY <1>1, <1>2, <1>3, Unmoved DEF EInv, Typed

LEMMA GetOutputStep == ASSUME EInv, NEW s \in Session, GetOutput(s) PROVE EInv'
<1>1. /\ UNCHANGED <<mission, running, dllSeen, lastTrd, player, published, commit, kicked>>
      /\ UNCHANGED <<oname, inQ, inHive, inFunctor, outputs, data, worker, target>>
      /\ UNCHANGED <<pool, dllQ, cleanQ, batch, at, half, stateQ, fault>>
      /\ game[s] = "pending" /\ outQ[s] # <<>>
      /\ outQ' = [outQ EXCEPT ![s] = Tail(@)]
      /\ game' = [game EXCEPT ![s] = "active"]
  BY DEF GetOutput, Pop, workerVars, cleanVars
<1>2. \A t \in Session : /\ game'[t] = "none" <=> game[t] = "none"
                         /\ game'[t] = "left" <=> game[t] = "left"
                         /\ Open(t)' <=> Open(t)
  BY <1>1 DEF EInv, Typed, Open
<1>3. Typed'
  <2>1. Tail(outQ[s]) \in Seq(Session)
    BY <1>1 DEF EInv, Typed
  <2>2. outQ' \in [Session -> Seq(Session)]
    BY <1>1, <2>1 DEF EInv, Typed
  <2>3. game' \in [Session -> {"none", "pending", "active", "left"}]
    BY <1>1 DEF EInv, Typed
  <2> QED
    BY <1>1, <2>2, <2>3 DEF EInv, Typed
<1>4. Begun' /\ Reported'
  <2>1. Begun'
    BY <1>1, <1>2 DEF EInv, Begun, Outputs
  <2>2. kicked \subseteq Session
    BY DEF EInv, Typed
  <2> QED
    BY <1>1, <1>2, <2>1, <2>2 DEF EInv, Reported, CrashReported, Open
<1>5. Listed'
  BY <1>1, <1>2, ListedStands DEF EInv
<1>6. Kept'
  BY <1>1, <1>2, KeptStands DEF EInv, Runs, Outputs
<1>7. Cleaned'
  BY <1>1, CleanedStands DEF EInv
<1>8. Commits'
  BY <1>1, <1>2 DEF EInv, Commits, CommitLast, CommitDataLive
<1>9. Names'
  <2>1. mission = 1 => outQ'[s] = <<>>
    <3>1. outQ'[s] = Tail(outQ[s])
      BY <1>1 DEF EInv, Typed
    <3>2. mission = 1 => outQ[s] = <<s>>
      BY <1>1 DEF EInv, Names
    <3>3. Tail(<<s>>) = <<>>
      OBVIOUS
    <3> QED
      BY <3>1, <3>2, <3>3
  <2>2. \A t \in Session : t # s => outQ'[t] = outQ[t]
    BY <1>1 DEF EInv, Typed
  <2> QED
    BY <1>1, <1>2, <2>1, <2>2 DEF EInv, Names
<1> QED
  BY <1>3, <1>4, <1>5, <1>6, <1>7, <1>8, <1>9 DEF EInv

LEMMA GetStateStep == EInv /\ GetState => EInv'
<1> SUFFICES ASSUME EInv, GetState PROVE EInv'
  OBVIOUS
<1>1. /\ UNCHANGED <<mission, running, dllSeen, lastTrd, player, game, published, commit>>
      /\ UNCHANGED <<oname, inQ, outQ, inHive, inFunctor, outputs, data, worker, target>>
      /\ UNCHANGED <<pool, dllQ, cleanQ, batch, at, half, fault>>
      /\ stateQ' = <<>>
      /\ kicked' = kicked \cup {s \in Session : Open(s) /\ player[s] \in ReportedPlayers}
  BY DEF GetState, queueVars, workerVars, cleanVars
<1>2. Typed'
  BY <1>1 DEF EInv, Typed
<1>3. Begun' /\ Names'
  BY <1>1 DEF EInv, Begun, Names, Outputs
<1>4. Listed'
  BY <1>1, ListedStands DEF EInv
<1>5. Kept'
  BY <1>1, KeptStands DEF EInv, Runs, Outputs, Open
<1>6. Cleaned'
  BY <1>1, CleanedStands DEF EInv
<1>7. Commits'
  BY <1>1 DEF EInv, Commits, CommitLast, CommitDataLive, Open
<1>8. Reported'
  <2>1. \A s \in Session : InSeq(s, stateQ) => player[s] \in ReportedPlayers
    BY DEF InSeq, ReportedPlayers
  <2> QED
    BY <1>1, <2>1 DEF EInv, Reported, CrashReported, Open
<1> QED
  BY <1>2, <1>3, <1>4, <1>5, <1>6, <1>7, <1>8 DEF EInv

LEMMA NewMissionStep == EInv /\ NewMission => EInv'
<1> SUFFICES ASSUME EInv, NewMission PROVE EInv'
  OBVIOUS
<1>1. /\ UNCHANGED <<dllSeen, player, game, published, commit>>
      /\ UNCHANGED <<oname, inQ, outQ, inHive, inFunctor, outputs, data, worker, target>>
      /\ UNCHANGED <<pool, dllQ, cleanQ, batch, at, half, stateQ, fault>>
      /\ mission' = mission + 1 /\ lastTrd' = 0 /\ kicked' = {}
      /\ ~running /\ running' = TRUE
  BY DEF NewMission, queueVars, workerVars, cleanVars
<1>2. mission' \in Nat \ {0} /\ mission' # 1
  BY <1>1 DEF EInv, Typed
<1>3. Typed'
  BY <1>1, <1>2 DEF EInv, Typed
<1>4. Begun' /\ Names' /\ Reported'
  BY <1>1, <1>2 DEF EInv, Begun, Names, Reported, CrashReported, Outputs, Open
<1>5. Listed'
  BY <1>1, ListedStands DEF EInv
<1>6. Kept'
  BY <1>1, KeptStands DEF EInv, Runs, Outputs, Open
<1>7. Cleaned'
  BY <1>1, CleanedStands DEF EInv
<1>8. Commits'
  BY <1>1 DEF EInv, Commits, CommitLast, CommitDataLive, Open
<1> QED
  BY <1>3, <1>4, <1>5, <1>6, <1>7, <1>8 DEF EInv

(* A message is appended: what the queue says of Commit.                   *)
LEMMA AppendMessage ==
  ASSUME NEW q \in Seq(Message), NEW m \in Message
  PROVE  /\ Append(q, m) \in Seq(Message) /\ Append(q, m) # <<>>
         /\ m # "Commit" => (InSeq("Commit", Append(q, m)) <=> InSeq("Commit", q))
         /\ ~InSeq("Commit", q) => \A i \in DOMAIN Append(q, m) :
                Append(q, m)[i] = "Commit" => i = Len(Append(q, m))
<1>1. PICK n \in Nat : n = Len(q)
  BY LenProperties
<1>2. PICK r : r = Append(q, m)
  OBVIOUS
<1>3. /\ r \in Seq(Message) /\ Len(r) = n + 1 /\ DOMAIN r = 1 .. n + 1
      /\ DOMAIN q = 1 .. n
      /\ \A i \in 1 .. n : r[i] = q[i]
      /\ r[n + 1] = m
  BY <1>1, <1>2
<1>4. r # <<>>
  BY <1>1, <1>3
<1>5. \A i \in 1 .. n + 1 : i \in 1 .. n \/ i = n + 1
  BY <1>1
<1> QED
  BY <1>1, <1>2, <1>3, <1>4, <1>5 DEF InSeq

LEMMA PublishStep == ASSUME EInv, NEW s \in Session, Publish(s) PROVE EInv'
<1>1. /\ UNCHANGED <<mission, running, dllSeen, lastTrd, player, game, commit, kicked>>
      /\ UNCHANGED <<oname, outQ, inHive, inFunctor, outputs, data, worker, target>>
      /\ UNCHANGED <<pool, dllQ, cleanQ, batch, at, half, stateQ, fault>>
      /\ Open(s) /\ published' = [published EXCEPT ![s] = @ + 1]
      /\ inQ' = [inQ EXCEPT ![s] = Append(@, "Publish")]
  BY DEF Publish, Push, workerVars, cleanVars, Open
<1>2. /\ Append(inQ[s], "Publish") \in Seq(Message) /\ Append(inQ[s], "Publish") # <<>>
      /\ ~InSeq("Commit", Append(inQ[s], "Publish"))
  BY <1>1, AppendMessage DEF EInv, Typed, Commits, Open, Message
<1>3. \A t \in Session : inQ'[t] = IF t = s THEN Append(inQ[s], "Publish") ELSE inQ[t]
  BY <1>1 DEF EInv, Typed
<1>4. Typed'
  <2>1. published' \in [Session -> Nat] /\ inQ' \in [Session -> Seq(Message)]
    BY <1>1, <1>2 DEF EInv, Typed
  <2> QED
    BY <1>1, <2>1 DEF EInv, Typed
<1>5. Begun' /\ Names' /\ Reported'
  BY <1>1, <1>3 DEF EInv, Begun, Names, Reported, CrashReported, Outputs, Open
<1>6. Listed'
  BY <1>1, ListedStands DEF EInv
<1>7. Kept'
  BY <1>1, KeptStands DEF EInv, Runs, Outputs, Open
<1>8. Cleaned'
  BY <1>1, CleanedStands DEF EInv
<1>9. Commits'
  <2>1. \A t \in Session : t = s => ~InSeq("Commit", inQ'[t]) /\ inQ'[t] # <<>>
    BY <1>2, <1>3
  <2>2. CommitLast' /\ CommitDataLive'
    BY <1>1, <1>3, <2>1 DEF EInv, Commits, CommitLast, CommitDataLive, InSeq
  <2> QED
    BY <1>1, <1>3, <2>1, <2>2 DEF EInv, Commits, Open
<1> QED
  BY <1>4, <1>5, <1>6, <1>7, <1>8, <1>9 DEF EInv

LEMMA ConnectStep ==
  ASSUME EInv, NEW s \in Session, NEW p \in Players, Connect(s, p)
  PROVE  EInv'
<1>1. /\ UNCHANGED <<mission, running, dllSeen, published, commit, kicked, outQ, data, target>>
      /\ UNCHANGED <<pool, dllQ, cleanQ, batch, at, half, stateQ, fault>>
      /\ running /\ game[s] = "none"
      /\ lastTrd' = lastTrd + 2
      /\ oname' = [oname EXCEPT ![s] = lastTrd + 1]
      /\ player' = [player EXCEPT ![s] = p]
      /\ game' = [game EXCEPT ![s] = "pending"]
      /\ inHive' = inHive \cup {s} /\ inFunctor' = inFunctor \cup {s}
      /\ outputs' = Append(outputs, s)
      /\ inQ' = [inQ EXCEPT ![s] = Append(@, "Connect")]
      /\ worker' = [worker EXCEPT ![s] = "start"]
  BY DEF Connect, Push, cleanVars
<1>2. worker[s] = "none" /\ inQ[s] = <<>> /\ s \notin Outputs
  BY <1>1 DEF EInv, Begun
<1>3. inQ'[s] = <<"Connect">>
  BY <1>1, <1>2 DEF EInv, Typed
<1>4. /\ \A t \in Session : t # s => /\ inQ'[t] = inQ[t] /\ worker'[t] = worker[t]
                                     /\ game'[t] = game[t] /\ player'[t] = player[t]
                                     /\ oname'[t] = oname[t]
      /\ worker'[s] = "start" /\ game'[s] = "pending" /\ oname'[s] = lastTrd + 1
      /\ player'[s] = p
  BY <1>1 DEF EInv, Typed
<1>5. lastTrd \in Nat
  BY DEF EInv, Typed
<1>6. outputs' \in Seq(Session) /\ Distinct(outputs') /\ Outputs' = Outputs \cup {s}
  <2>1. PICK n \in Nat : n = Len(outputs) /\ DOMAIN outputs = 1 .. n /\ outputs \in Seq(Session)
    BY LenProperties DEF EInv, Typed
  <2>2. /\ outputs' \in Seq(Session) /\ DOMAIN outputs' = 1 .. n + 1
        /\ \A i \in 1 .. n : outputs'[i] = outputs[i]
        /\ outputs'[n + 1] = s
    BY <1>1, <2>1
  <2>3. \A i \in 1 .. n + 1 : i \in 1 .. n \/ i = n + 1
    BY <2>1
  <2>4. \A i \in 1 .. n : outputs[i] # s
    BY <1>2, <2>1 DEF Outputs
  <2>5. \A i, j \in 1 .. n : outputs[i] = outputs[j] => i = j
    BY <2>1 DEF EInv, Begun, Distinct
  <2>6. Distinct(outputs')
    BY <2>2, <2>3, <2>4, <2>5 DEF Distinct
  <2>7. 1 .. n + 1 = 1 .. n \cup {n + 1}
    BY <2>1
  <2> QED
    BY <2>1, <2>2, <2>6, <2>7 DEF Outputs
<1>7. Typed'
  <2>1. /\ lastTrd' \in Nat
        /\ player' \in [Session -> Players \cup {NoOne}]
        /\ game' \in [Session -> {"none", "pending", "active", "left"}]
        /\ oname' \in [Session -> Nat]
        /\ worker' \in [Session -> Place]
    <3>1. lastTrd' \in Nat /\ lastTrd + 1 \in Nat
      BY <1>1, <1>5
    <3>2. "start" \in Place
      BY DEF Place
    <3> QED
      BY <1>1, <3>1, <3>2 DEF EInv, Typed
  <2>2. inQ' \in [Session -> Seq(Message)]
    <3>1. <<"Connect">> \in Seq(Message)
      BY DEF Message
    <3> QED
      BY <1>1, <1>2, <3>1 DEF EInv, Typed
  <2> QED
    BY <1>1, <1>6, <2>1, <2>2 DEF EInv, Typed
<1>8. Begun'
  BY <1>2, <1>4, <1>6 DEF EInv, Begun
<1>9. Listed'
  BY <1>1, <1>4, ListedStands DEF EInv
<1>10. Kept'
  <2>1. Lists' = Lists /\ \A i, j : Awaits(i, j)' <=> Awaits(i, j)
    BY <1>1 DEF Lists, Awaits
  <2> QED
    BY <1>1, <1>4, <1>6, <2>1 DEF EInv, Kept, Open, Runs
<1>11. Cleaned'
  BY <1>1, <1>2, <1>4, CleanedStands DEF EInv
<1>12. Commits'
  <2>1. /\ ~InSeq("Commit", inQ'[s]) /\ inQ'[s] # <<>>
        /\ \A i \in DOMAIN inQ'[s] : inQ'[s][i] # "Commit"
    BY <1>3 DEF InSeq
  <2>2. CommitLast' /\ CommitDataLive'
    BY <1>1, <1>4, <2>1 DEF EInv, Commits, CommitLast, CommitDataLive
  <2>3. \A t \in Session : Open(t)' \/ InSeq(t, commit'.todo) => ~InSeq("Commit", inQ'[t])
    BY <1>1, <1>4, <2>1 DEF EInv, Commits, Open
  <2> QED
    BY <1>4, <2>1, <2>2, <2>3 DEF EInv, Commits
<1>13. Names'
  <2> SUFFICES ASSUME mission = 1 PROVE Names'
    BY <1>1 DEF Names
  <2>1. \A t \in Session : game'[t] # "none" => oname'[t] <= lastTrd'
    <3>0. oname \in [Session -> Nat]
      BY Zenon DEF EInv, Typed
    <3>1. lastTrd' = lastTrd + 2
      BY <1>1
    <3>2. \A t \in Session : game[t] # "none" => oname[t] <= lastTrd
      BY DEF EInv, Names
    <3>3. ASSUME NEW t \in Session, t # s, game'[t] # "none"
          PROVE  oname'[t] <= lastTrd + 2
      <4>1. oname'[t] = oname[t] /\ oname[t] \in Nat /\ oname[t] <= lastTrd
        BY <1>4, <3>0, <3>2, <3>3
      <4> QED
        BY <1>5, <4>1
    <3>4. oname'[s] <= lastTrd + 2
      BY <1>4, <1>5
    <3> QED
      BY <3>1, <3>3, <3>4
  <2>2. \A t \in Session : game[t] # "none" => oname[t] # lastTrd + 1
    BY <1>5 DEF EInv, Names, Typed
  <2>3. \A t, u \in Session :
          game'[t] # "none" /\ game'[u] # "none" /\ oname'[t] = oname'[u] => t = u
    BY <1>4, <2>2 DEF EInv, Names
  <2>4. \A t \in Session :
          /\ worker'[t] = "send" => target'[t] = t
          /\ outQ'[t] \in {<<>>, <<t>>}
          /\ worker'[t] \notin {"serve", "crash", "over"} => outQ'[t] = <<>>
    BY <1>1, <1>2, <1>4 DEF EInv, Names
  <2> QED
    BY <2>1, <2>3, <2>4 DEF Names
<1>14. Reported'
  BY <1>1, <1>2, <1>4 DEF EInv, Reported, CrashReported, Open
<1> QED
  BY <1>7, <1>8, <1>9, <1>10, <1>11, <1>12, <1>13, <1>14 DEF EInv

(* Leave and EndGame: the mission starts to commit some open sessions.     *)
LEMMA Departs ==
  ASSUME EInv, commit = NoCommit,
         NEW all \in Seq(Session), Distinct(all), \A i \in DOMAIN all : Open(all[i]),
         commit' = [todo |-> all, all |-> all],
         game' = [s \in Session |-> IF InSeq(s, all) THEN "left" ELSE game[s]],
         running' = running \/ (running' = FALSE /\ \A s \in Session : Open(s) => InSeq(s, all)),
         inQ' \in [Session -> Seq(Message)],
         \A s \in Session : inQ'[s] = inQ[s] \/ (Open(s) /\ inQ'[s] = Append(inQ[s], "Publish")),
         UNCHANGED <<mission, dllSeen, lastTrd, player, published, kicked, oname, outQ,
                     inHive, inFunctor, outputs, data, workerVars, cleanVars, stateQ, fault>>
  PROVE  EInv'
<1>1. /\ UNCHANGED <<mission, dllSeen, lastTrd, player, published, kicked>>
      /\ UNCHANGED <<oname, outQ, inHive, inFunctor, outputs, data, worker, target>>
      /\ UNCHANGED <<pool, dllQ, cleanQ, batch, at, half, stateQ, fault>>
  BY DEF workerVars, cleanVars
<1>2. Typed'
  <2>1. game' \in [Session -> {"none", "pending", "active", "left"}]
    BY DEF EInv, Typed
  <2>2. commit' \in [todo : Seq(Session), all : Seq(Session)]
    OBVIOUS
  <2>3. running' \in BOOLEAN
    BY Zenon DEF EInv, Typed
  <2> QED
    BY <1>1, <2>1, <2>2, <2>3 DEF EInv, Typed
<1>3. \A s \in Session : /\ InSeq(s, all) => Open(s) /\ game'[s] = "left"
                         /\ ~InSeq(s, all) => game'[s] = game[s]
                         /\ game'[s] = "none" <=> game[s] = "none"
                         /\ Open(s)' => Open(s)
                         /\ game[s] = "left" => game'[s] = "left"
  BY DEF InSeq, Open
<1>4. Begun'
  <2>1. \A s \in Session : game[s] = "none" => inQ'[s] = inQ[s]
    BY DEF Open
  <2>2. Begun /\ Outputs' = Outputs
    BY <1>1 DEF EInv, Outputs
  <2> QED
    BY <1>1, <1>3, <2>1, <2>2 DEF Begun
<1>5. /\ DOMAIN Lists' = DOMAIN Lists /\ Len(Lists) \in DOMAIN Lists
      /\ \A i \in DOMAIN Lists : i # Len(Lists) => Lists'[i] = Lists[i]
      /\ Lists'[Len(Lists)] = all
      /\ \A i \in DOMAIN Lists : \A j : j \in DOMAIN Lists[i] => i # Len(Lists)
  <2>1. PICK b, c, l : b = Len(batch) /\ c = Len(cleanQ) /\ l = Len(Lists)
    OBVIOUS
  <2>2. /\ b \in Nat /\ c \in Nat /\ l = b + c + 1 /\ DOMAIN Lists = 1 .. l
        /\ Lists[l] = <<>>
        /\ \A i \in 1 .. b : Lists[i] = batch[i]
        /\ \A i \in 1 .. c : Lists[b + i] = cleanQ[i]
    <3>1. /\ b \in Nat /\ c \in Nat /\ l = b + c + 1 /\ DOMAIN Lists = 1 .. l
      BY <2>1, ListsShape DEF EInv
    <3> QED
      BY <2>1, <3>1, ListsShape DEF EInv, NoCommit
  <2>3. /\ Len(Lists') = l /\ DOMAIN Lists' = 1 .. l
        /\ Lists'[l] = all
        /\ \A i \in 1 .. b : Lists'[i] = batch[i]
        /\ \A i \in 1 .. c : Lists'[b + i] = cleanQ[i]
    <3>1. Len(Lists') = l
      BY <1>1, <1>2, <2>1, <2>2, ListsShapeNext
    <3> QED
      BY <1>1, <1>2, <2>1, <3>1, ListsShapeNext
  <2>4. \A i \in 1 .. l : i # l => i \in 1 .. b \/ (i - b \in 1 .. c /\ b + (i - b) = i)
    BY <2>2
  <2>5. \A i \in 1 .. l : i # l => Lists'[i] = Lists[i]
    <3> SUFFICES ASSUME NEW i \in 1 .. l, i # l PROVE Lists'[i] = Lists[i]
      OBVIOUS
    <3>1. CASE i \in 1 .. b
      BY <2>2, <2>3, <3>1
    <3>2. CASE i - b \in 1 .. c /\ b + (i - b) = i
      <4>1. Lists[b + (i - b)] = cleanQ[i - b] /\ Lists'[b + (i - b)] = cleanQ[i - b]
        BY <2>2, <2>3, <3>2
      <4> QED
        BY <3>2, <4>1
    <3> QED
      BY <2>4, <3>1, <3>2
  <2>6. l \in 1 .. l
    BY <2>2
  <2> QED
    BY <2>1, <2>2, <2>3, <2>5, <2>6
<1>6. \A i \in DOMAIN Lists : i # Len(Lists) => \A j \in DOMAIN Lists[i] :
        Lists[i][j] \in Session /\ ~InSeq(Lists[i][j], all) /\ game'[Lists[i][j]] = "left"
  <2> SUFFICES ASSUME NEW i \in DOMAIN Lists, NEW j \in DOMAIN Lists[i]
               PROVE  /\ Lists[i][j] \in Session /\ ~InSeq(Lists[i][j], all)
                      /\ game'[Lists[i][j]] = "left"
    OBVIOUS
  <2>1. Lists[i][j] \in Session /\ game[Lists[i][j]] = "left"
    BY Ending DEF EInv, Listed
  <2> QED
    BY <1>3, <2>1 DEF Open
<1>7. \A j \in DOMAIN all : all[j] \in Session /\ InSeq(all[j], all)
  BY DEF InSeq
<1>8. Listed'
  <2>1. ListedOnce(Lists')
    <3> SUFFICES ASSUME NEW i \in DOMAIN Lists, NEW k \in DOMAIN Lists,
                        NEW j \in DOMAIN Lists'[i], NEW m \in DOMAIN Lists'[k],
                        Lists'[i][j] = Lists'[k][m]
                 PROVE  i = k /\ j = m
      BY <1>5 DEF ListedOnce
    <3>1. CASE i # Len(Lists) /\ k # Len(Lists)
      BY <1>5, <3>1 DEF EInv, Listed, ListedOnce
    <3>2. CASE i = Len(Lists) /\ k = Len(Lists)
      BY <1>5, <3>2 DEF Distinct
    <3>3. CASE i # Len(Lists) /\ k = Len(Lists)
      <4>1. Lists'[i][j] = Lists[i][j] /\ j \in DOMAIN Lists[i]
        BY <1>5, <3>3
      <4>2. ~InSeq(Lists[i][j], all)
        BY <1>6, <3>3, <4>1
      <4>3. InSeq(Lists'[k][m], all)
        BY <1>5, <1>7, <3>3
      <4> QED
        BY <4>1, <4>2, <4>3
    <3>4. CASE i = Len(Lists) /\ k # Len(Lists)
      <4>1. Lists'[k][m] = Lists[k][m] /\ m \in DOMAIN Lists[k]
        BY <1>5, <3>4
      <4>2. ~InSeq(Lists[k][m], all)
        BY <1>6, <3>4, <4>1
      <4>3. InSeq(Lists'[i][j], all)
        BY <1>5, <1>7, <3>4
      <4> QED
        BY <4>1, <4>2, <4>3
    <3> QED
      BY <3>1, <3>2, <3>3, <3>4
  <2>2. \A i \in DOMAIN Lists' : \A j \in DOMAIN Lists'[i] : game'[Lists'[i][j]] = "left"
    <3> SUFFICES ASSUME NEW i \in DOMAIN Lists, NEW j \in DOMAIN Lists'[i]
                 PROVE  game'[Lists'[i][j]] = "left"
      BY <1>5
    <3>1. CASE i = Len(Lists)
      BY <1>3, <1>5, <1>7, <3>1
    <3>2. CASE i # Len(Lists)
      <4>1. Lists'[i] = Lists[i]
        BY <1>5, <3>2
      <4> QED
        BY <1>6, <3>2, <4>1
    <3> QED
      BY <3>1, <3>2
  <2> QED
    BY <1>7, <2>1, <2>2 DEF Listed, Distinct
<1>9. Kept'
  <2>1. \A s \in Session : Open(s)' \/ Runs(s)' => s \in inHive' \cap Outputs'
    BY <1>1, <1>3 DEF EInv, Kept, Runs, Outputs
  <2>2. ASSUME NEW i \in DOMAIN Lists', NEW j \in DOMAIN Lists'[i], Awaits(i, j)'
        PROVE  Lists'[i][j] \in inHive' \cap Outputs'
    <3>1. CASE i = Len(Lists)
      BY <1>1, <1>3, <1>5, <1>7, <3>1 DEF EInv, Kept, Outputs
    <3>2. CASE i # Len(Lists)
      BY <1>1, <1>5, <2>2, <3>2 DEF EInv, Kept, Outputs, Awaits
    <3> QED
      BY <3>1, <3>2
  <2> QED
    BY <2>1, <2>2 DEF Kept
<1>10. Cleaned'
  BY <1>1, CleanedStands DEF EInv
<1>11. \A s \in Session : /\ InSeq("Commit", inQ'[s]) <=> InSeq("Commit", inQ[s])
                          /\ inQ[s] # <<>> => inQ'[s] # <<>>
                          /\ inQ'[s] = inQ[s] \/ ~InSeq("Commit", inQ'[s])
  <2> SUFFICES ASSUME NEW s \in Session, inQ'[s] # inQ[s]
               PROVE  /\ InSeq("Commit", inQ'[s]) <=> InSeq("Commit", inQ[s])
                      /\ inQ'[s] # <<>> /\ ~InSeq("Commit", inQ'[s])
    OBVIOUS
  <2>1. Open(s) /\ inQ'[s] = Append(inQ[s], "Publish") /\ inQ[s] \in Seq(Message)
    BY DEF EInv, Typed
  <2>2. ~InSeq("Commit", inQ[s])
    BY <2>1 DEF EInv, Commits
  <2> QED
    BY <2>1, <2>2, AppendMessage DEF Message
<1>12. Commits'
  <2>1. CommitLast'
    BY <1>11 DEF EInv, Commits, CommitLast, InSeq
  <2>2. CommitDataLive'
    BY <1>1, <1>11 DEF EInv, Commits, CommitDataLive
  <2>3. \A s \in Session : Open(s)' \/ InSeq(s, all) => ~InSeq("Commit", inQ'[s])
    BY <1>3, <1>11 DEF EInv, Commits
  <2> QED
    BY <1>1, <1>11, <2>1, <2>2, <2>3 DEF EInv, Commits
<1>13. Names'
  BY <1>1, <1>3 DEF EInv, Names
<1>14. Reported'
  BY <1>1, <1>3 DEF EInv, Reported, CrashReported, Open
<1> QED
  BY <1>2, <1>4, <1>8, <1>9, <1>10, <1>12, <1>13, <1>14 DEF EInv

LEMMA LeaveStep == ASSUME EInv, NEW s \in Session, Leave(s) PROVE EInv'
<1>1. /\ commit = NoCommit /\ Open(s)
      /\ commit' = [todo |-> <<s>>, all |-> <<s>>]
      /\ game' = [game EXCEPT ![s] = "left"]
      /\ inQ' = IF game[s] = "active" THEN [inQ EXCEPT ![s] = Append(@, "Publish")] ELSE inQ
      /\ UNCHANGED running
      /\ UNCHANGED <<mission, dllSeen, lastTrd, player, published, kicked, oname, outQ,
                     inHive, inFunctor, outputs, data, workerVars, cleanVars, stateQ, fault>>
  BY DEF Leave, GameIdle, Push
<1>2. /\ <<s>> \in Seq(Session) /\ Distinct(<<s>>)
      /\ \A i \in DOMAIN <<s>> : Open(<<s>>[i])
      /\ \A t : InSeq(t, <<s>>) <=> t = s
  BY <1>1 DEF Distinct, InSeq
<1>3. game' = [t \in Session |-> IF InSeq(t, <<s>>) THEN "left" ELSE game[t]]
  BY <1>1, <1>2 DEF EInv, Typed
<1>4. /\ inQ' \in [Session -> Seq(Message)]
      /\ \A t \in Session : inQ'[t] = inQ[t] \/ (Open(t) /\ inQ'[t] = Append(inQ[t], "Publish"))
  <2>1. inQ \in [Session -> Seq(Message)]
    BY DEF EInv, Typed
  <2>2. Append(inQ[s], "Publish") \in Seq(Message)
    BY <2>1, AppendMessage DEF Message
  <2> QED
    BY <1>1, <2>1, <2>2
<1> QED
  BY <1>1, <1>2, <1>3, <1>4, Departs

(* A list of a finite set that is as long as the set holds nothing twice.  *)
LEMMA ListedApart ==
  ASSUME NEW S, IsFiniteSet(S), NEW q \in [1 .. Cardinality(S) -> S], IsListOf(q, S)
  PROVE  Distinct(q) /\ q \in Seq(S)
<1>1. Cardinality(S) \in Nat
  BY FS_CardinalityType
<1>2. IsFiniteSet(1 .. Cardinality(S)) /\ Cardinality(1 .. Cardinality(S)) = Cardinality(S)
  BY <1>1, FS_Interval
<1>3. q \in Surjection(1 .. Cardinality(S), S)
  BY DEF IsListOf, Surjection
<1>4. q \in Injection(1 .. Cardinality(S), S)
  BY <1>2, <1>3, FS_SurjSameCardinalityImpliesInj
<1>5. Distinct(q)
  BY <1>4 DEF Distinct, Injection, IsInjective
<1>6. q \in Seq(S)
  BY <1>1, SeqDef
<1> QED
  BY <1>5, <1>6

LEMMA EndGameStep == EInv /\ EndGame => EInv'
<1> SUFFICES ASSUME EInv, EndGame PROVE EInv'
  OBVIOUS
<1> DEFINE open == {s \in Session : Open(s)}
<1>1. /\ commit = NoCommit /\ running' = FALSE
      /\ game' = [s \in Session |-> IF s \in open THEN "left" ELSE game[s]]
      /\ UNCHANGED <<mission, dllSeen, lastTrd, player, published, kicked, oname, outQ,
                     inHive, inFunctor, outputs, data, workerVars, cleanVars, stateQ, fault>>
  BY DEF EndGame, GameIdle
<1>2. PICK listed \in SUBSET {s \in Session : game[s] = "active"} :
        inQ' = [s \in Session |->
                  IF s \in listed THEN Append(inQ[s], "Publish") ELSE inQ[s]]
  BY DEF EndGame
<1>3. PICK all \in [1 .. Cardinality(open) -> open] :
        IsListOf(all, open) /\ commit' = [todo |-> all, all |-> all]
  BY DEF EndGame
<1>4. IsFiniteSet(open) /\ open \subseteq Session
  <2>1. IsFiniteSet(Session)
    BY ExtensionAssumption, FS_Interval DEF Session
  <2> QED
    BY <2>1, FS_Subset
<1>5. Distinct(all) /\ all \in Seq(open)
  <2> HIDE DEF open
  <2> QED
    BY <1>3, <1>4, ListedApart
<1>6. /\ all \in Seq(Session)
      /\ \A i \in DOMAIN all : Open(all[i])
      /\ \A s \in Session : InSeq(s, all) <=> s \in open
  <2>1. \A i \in DOMAIN all : all[i] \in open
    BY <1>3
  <2>2. \A s \in Session : InSeq(s, all) <=> s \in open
    BY <1>3 DEF IsListOf, InSeq
  <2>3. all \in Seq(Session)
    <3> HIDE DEF open
    <3> QED
      BY <1>4, <1>5, SeqMonotonic
  <2> QED
    BY <2>1, <2>2, <2>3
<1>7. game' = [s \in Session |-> IF InSeq(s, all) THEN "left" ELSE game[s]]
  BY <1>1, <1>6
<1>8. /\ inQ' \in [Session -> Seq(Message)]
      /\ \A s \in Session : inQ'[s] = inQ[s] \/ (Open(s) /\ inQ'[s] = Append(inQ[s], "Publish"))
  <2>1. \A s \in Session : inQ[s] \in Seq(Message) /\ Append(inQ[s], "Publish") \in Seq(Message)
    BY AppendMessage DEF EInv, Typed, Message
  <2>2. \A s \in listed : Open(s)
    BY DEF Open
  <2> QED
    BY <1>2, <2>1, <2>2
<1>9. running' = FALSE /\ \A s \in Session : Open(s) => InSeq(s, all)
  BY <1>1, <1>6
<1> HIDE DEF open
<1> QED
  BY <1>1, <1>3, <1>5, <1>6, <1>7, <1>8, <1>9, Departs

LEMMA CommitRecordStep == EInv /\ CommitRecord => EInv'
<1> SUFFICES ASSUME EInv, CommitRecord PROVE EInv'
  OBVIOUS
<1>1. PICK s : s = Head(commit.todo)
  OBVIOUS
<1>2. /\ UNCHANGED <<mission, running, dllSeen, lastTrd, player, game, published, kicked>>
      /\ UNCHANGED <<oname, outQ, inHive, inFunctor, outputs, worker, target>>
      /\ UNCHANGED <<pool, dllQ, cleanQ, batch, at, half, stateQ, fault>>
      /\ commit.todo # <<>>
      /\ commit' = [commit EXCEPT !.todo = Tail(@)]
      /\ inQ' = [inQ EXCEPT ![s] = Append(@, "Commit")]
      /\ data' = [data EXCEPT ![s] = "live"]
  BY <1>1 DEF CommitRecord, Push, workerVars, cleanVars
<1>3. PICK t : t = Tail(commit.todo)
  OBVIOUS
<1>4. PICK n \in Nat : n = Len(commit.todo)
  BY LenProperties DEF EInv, Typed
<1>5. /\ commit'.all = commit.all /\ commit'.todo = t
      /\ t \in Seq(Session) /\ s \in Session /\ s = commit.todo[1]
      /\ 1 \in DOMAIN commit.todo
      /\ DOMAIN t = 1 .. n - 1 /\ DOMAIN commit.todo = 1 .. n
      /\ \A i \in 1 .. n - 1 : t[i] = commit.todo[i + 1]
  <2>1. commit.todo \in Seq(Session) /\ commit \in [todo : Seq(Session), all : Seq(Session)]
    BY DEF EInv, Typed
  <2>2. commit'.all = commit.all /\ commit'.todo = t
    BY <1>2, <1>3, <2>1
  <2>3. n # 0
    BY <1>2, <1>4, <2>1, EmptySeq
  <2> QED
    BY <1>1, <1>2, <1>3, <1>4, <2>1, <2>2, <2>3, HeadTailProperties
<1>6. /\ \A i, j \in 1 .. n - 1 : t[i] = t[j] => i = j
      /\ \A i \in 1 .. n - 1 : t[i] # s /\ InSeq(t[i], commit.todo)
  <2>1. \A i, j \in 1 .. n : commit.todo[i] = commit.todo[j] => i = j
    BY <1>5 DEF EInv, Listed, Distinct
  <2>2. \A i \in 1 .. n - 1 : i + 1 \in 1 .. n /\ i + 1 # 1
    BY <1>4
  <2>3. 1 \in 1 .. n
    BY <1>5
  <2>4. \A i, j \in 1 .. n - 1 : i + 1 = j + 1 => i = j
    BY <1>4
  <2>5. ASSUME NEW i \in 1 .. n - 1, NEW j \in 1 .. n - 1, t[i] = t[j]
        PROVE  i = j
    <3>1. i + 1 \in 1 .. n /\ j + 1 \in 1 .. n
      BY <2>2
    <3>2. commit.todo[i + 1] = commit.todo[j + 1]
      BY <1>5, <2>5
    <3>3. i + 1 = j + 1
      BY <2>1, <3>1, <3>2
    <3> QED
      BY <2>4, <3>3
  <2>6. ASSUME NEW i \in 1 .. n - 1
        PROVE  t[i] # s /\ InSeq(t[i], commit.todo)
    <3>1. t[i] = commit.todo[i + 1] /\ i + 1 \in DOMAIN commit.todo
      BY <1>5, <2>2
    <3>2. commit.todo[i + 1] # commit.todo[1]
      BY <2>1, <2>2, <2>3
    <3> QED
      BY <1>5, <3>1, <3>2 DEF InSeq
  <2> QED
    BY <2>5, <2>6
<1>7. /\ InSeq(s, commit.todo) /\ ~InSeq(s, t)
      /\ \A u : InSeq(u, t) => InSeq(u, commit.todo)
  <2>1. InSeq(s, commit.todo)
    BY <1>5 DEF InSeq
  <2>2. ~InSeq(s, t)
    BY <1>5, <1>6 DEF InSeq
  <2>3. ASSUME NEW u, InSeq(u, t) PROVE InSeq(u, commit.todo)
    <3>1. PICK i \in DOMAIN t : t[i] = u
      BY <2>3 DEF InSeq
    <3> QED
      BY <1>5, <1>6, <3>1
  <2> QED
    BY <2>1, <2>2, <2>3
<1>8. game[s] = "left"
  <2>1. InSeq(s, commit.all)
    BY <1>5 DEF EInv, Listed
  <2>2. Len(Lists) \in DOMAIN Lists /\ Lists[Len(Lists)] = commit.all
    BY ListsShape DEF EInv
  <2> QED
    BY <2>1, <2>2 DEF EInv, Listed, InSeq
<1>9. ~Open(s) /\ ~InSeq("Commit", inQ[s]) /\ inQ[s] \in Seq(Message)
  BY <1>5, <1>7, <1>8 DEF EInv, Commits, Open, Typed
<1>10. /\ Append(inQ[s], "Commit") \in Seq(Message) /\ Append(inQ[s], "Commit") # <<>>
       /\ \A i \in DOMAIN Append(inQ[s], "Commit") :
            Append(inQ[s], "Commit")[i] = "Commit" => i = Len(Append(inQ[s], "Commit"))
  BY <1>9, AppendMessage DEF Message
<1>11. /\ inQ'[s] = Append(inQ[s], "Commit") /\ data'[s] = "live"
       /\ \A u \in Session : u # s => inQ'[u] = inQ[u] /\ data'[u] = data[u]
  BY <1>2, <1>5 DEF EInv, Typed
<1>12. Typed'
  <2>1. /\ inQ' \in [Session -> Seq(Message)]
        /\ data' \in [Session -> {"none", "live", "freed"}]
    BY <1>2, <1>10 DEF EInv, Typed
  <2>2. commit' \in [todo : Seq(Session), all : Seq(Session)]
    BY <1>2, <1>3, <1>5 DEF EInv, Typed
  <2> QED
    BY <1>2, <2>1, <2>2 DEF EInv, Typed
<1>13. Begun' /\ Names' /\ Reported'
  BY <1>2, <1>8, <1>11 DEF EInv, Begun, Names, Reported, CrashReported, Outputs, Open
<1>14. Lists' = Lists
  BY <1>2, <1>5 DEF Lists
<1>15. Listed'
  <2>1. ASSUME NEW i \in DOMAIN t PROVE InSeq(t[i], commit.all)
    <3>1. InSeq(t[i], commit.todo)
      BY <1>5, <1>6
    <3>2. PICK j \in DOMAIN commit.todo : commit.todo[j] = t[i]
      BY <3>1 DEF InSeq
    <3>3. InSeq(commit.todo[j], commit.all)
      BY DEF EInv, Listed
    <3> QED
      BY <3>2, <3>3
  <2> QED
    BY <1>2, <1>5, <1>6, <1>14, <2>1 DEF EInv, Listed, ListedOnce, Distinct
<1>16. Kept'
  BY <1>2, <1>14 DEF EInv, Kept, Open, Runs, Outputs, Awaits
<1>17. Cleaned'
  BY <1>2, CleanedStands DEF EInv
<1>18. Commits'
  <2>1. CommitLast'
    BY <1>10, <1>11 DEF EInv, Commits, CommitLast
  <2>2. CommitDataLive'
    BY <1>2, <1>11 DEF EInv, Commits, CommitDataLive
  <2>3. \A u \in Session : Open(u)' \/ InSeq(u, commit'.todo) => ~InSeq("Commit", inQ'[u])
    BY <1>2, <1>5, <1>7, <1>9, <1>11 DEF EInv, Commits, Open
  <2>4. \A u \in Session : worker'[u] = "start" => inQ'[u] # <<>>
    BY <1>2, <1>10, <1>11 DEF EInv, Commits
  <2> QED
    BY <2>1, <2>2, <2>3, <2>4 DEF Commits
<1> QED
  BY <1>12, <1>13, <1>15, <1>16, <1>17, <1>18 DEF EInv

LEMMA CommitDoneStep == EInv /\ CommitDone => EInv'
<1> SUFFICES ASSUME EInv, CommitDone PROVE EInv'
  OBVIOUS
<1>1. /\ UNCHANGED <<mission, running, dllSeen, lastTrd, player, game, published, kicked>>
      /\ UNCHANGED <<oname, inQ, outQ, inHive, inFunctor, outputs, data, worker, target>>
      /\ UNCHANGED <<pool, dllQ, batch, at, half, stateQ, fault>>
      /\ commit.todo = <<>> /\ cleanQ' = Append(cleanQ, commit.all) /\ commit' = NoCommit
  BY DEF CommitDone, queueVars, workerVars
<1>2. Typed'
  <2>1. cleanQ' \in Seq(Seq(Session))
    <3> DEFINE S == Seq(Session)
    <3>1. cleanQ \in Seq(S) /\ commit.all \in S
      BY DEF EInv, Typed
    <3> HIDE DEF S
    <3>2. cleanQ' \in Seq(S)
      BY <1>1, <3>1
    <3> QED
      BY <3>2 DEF S
  <2>2. commit' \in [todo : Seq(Session), all : Seq(Session)]
    BY <1>1 DEF NoCommit
  <2> QED
    BY <1>1, <2>1, <2>2 DEF EInv, Typed
<1>3. /\ \A i \in DOMAIN Lists : i \in DOMAIN Lists' /\ Lists'[i] = Lists[i]
      /\ \A i \in DOMAIN Lists' : i \in DOMAIN Lists \/ Lists'[i] = <<>>
  <2>1. PICK b \in Nat, c \in Nat : b = Len(batch) /\ c = Len(cleanQ)
    BY ListsShape DEF EInv
  <2>2. /\ Len(Lists) = b + c + 1 /\ DOMAIN Lists = 1 .. b + c + 1
        /\ Lists[b + c + 1] = commit.all
        /\ \A i \in 1 .. b : Lists[i] = batch[i]
        /\ \A i \in 1 .. c : Lists[b + i] = cleanQ[i]
    <3>1. Len(Lists) = b + c + 1
      BY <2>1, ListsShape DEF EInv
    <3> QED
      BY <2>1, <3>1, ListsShape DEF EInv
  <2>3. /\ Len(cleanQ') = c + 1 /\ cleanQ'[c + 1] = commit.all
        /\ \A i \in 1 .. c : cleanQ'[i] = cleanQ[i]
    <3> DEFINE S == Seq(Session)
    <3>1. cleanQ \in Seq(S) /\ commit.all \in S
      BY DEF EInv, Typed
    <3> HIDE DEF S
    <3> QED
      BY <1>1, <2>1, <3>1, AppendProperties
  <2>4. /\ Len(Lists') = b + c + 2 /\ DOMAIN Lists' = 1 .. b + c + 2
        /\ Lists'[b + c + 2] = <<>>
        /\ \A i \in 1 .. b : Lists'[i] = batch[i]
        /\ \A i \in 1 .. c + 1 : Lists'[b + i] = cleanQ'[i]
    <3>1. Len(Lists') = b + (c + 1) + 1
      BY <1>1, <1>2, <2>1, <2>3, ListsShapeNext
    <3>2. Len(Lists') = b + c + 2 /\ commit'.all = <<>>
      BY <1>1, <3>1 DEF NoCommit
    <3> QED
      BY <1>1, <1>2, <2>1, <2>3, <3>2, ListsShapeNext
  <2>5. \A i \in 1 .. b + c + 1 : \/ i \in 1 .. b
                                  \/ i - b \in 1 .. c /\ b + (i - b) = i
                                  \/ i = b + (c + 1)
    BY <2>1
  <2>6. \A i \in 1 .. c : i \in 1 .. c + 1
    BY <2>1
  <2>7. \A i \in 1 .. b + c + 1 : Lists'[i] = Lists[i]
    <3> SUFFICES ASSUME NEW i \in 1 .. b + c + 1 PROVE Lists'[i] = Lists[i]
      OBVIOUS
    <3>1. CASE i \in 1 .. b
      BY <2>2, <2>4, <3>1
    <3>2. CASE i - b \in 1 .. c /\ b + (i - b) = i
      <4>1. /\ Lists[b + (i - b)] = cleanQ[i - b]
            /\ Lists'[b + (i - b)] = cleanQ'[i - b]
            /\ cleanQ'[i - b] = cleanQ[i - b]
        BY <2>2, <2>3, <2>4, <2>6, <3>2
      <4> QED
        BY <3>2, <4>1
    <3>3. CASE i = b + (c + 1)
      <4>1. c + 1 \in 1 .. c + 1 /\ b + (c + 1) = b + c + 1
        BY <2>1
      <4>2. Lists'[b + (c + 1)] = cleanQ'[c + 1]
        BY <2>4, <4>1
      <4> QED
        BY <2>2, <2>3, <3>3, <4>1, <4>2
    <3> QED
      BY <2>5, <3>1, <3>2, <3>3
  <2>8. \A i \in 1 .. b + c + 2 : i \in 1 .. b + c + 1 \/ i = b + c + 2
    BY <2>1
  <2>9. \A i \in 1 .. b + c + 1 : i \in 1 .. b + c + 2
    BY <2>1
  <2> QED
    BY <2>2, <2>4, <2>7, <2>8, <2>9
<1>4. \A i \in DOMAIN Lists' : \A j \in DOMAIN Lists'[i] :
        i \in DOMAIN Lists /\ j \in DOMAIN Lists[i] /\ Lists'[i][j] = Lists[i][j]
  BY <1>3
<1>5. Begun' /\ Names' /\ Reported'
  BY <1>1 DEF EInv, Begun, Names, Reported, CrashReported, Outputs, Open
<1>6. Listed'
  <2>1. ListedOnce(Lists')
    BY <1>4 DEF EInv, Listed, ListedOnce
  <2>2. \A i \in DOMAIN Lists' : \A j \in DOMAIN Lists'[i] : game'[Lists'[i][j]] = "left"
    BY <1>1, <1>4 DEF EInv, Listed
  <2>3. commit'.todo = <<>>
    BY <1>1 DEF NoCommit
  <2> QED
    BY <2>1, <2>2, <2>3 DEF Listed, Distinct
<1>7. Kept'
  <2>1. \A s \in Session : Open(s)' \/ Runs(s)' => s \in inHive' \cap Outputs'
    BY <1>1 DEF EInv, Kept, Open, Runs, Outputs
  <2>2. \A i \in DOMAIN Lists' : \A j \in DOMAIN Lists'[i] :
          Awaits(i, j)' => Lists'[i][j] \in inHive' \cap Outputs'
    BY <1>1, <1>4 DEF EInv, Kept, Awaits, Outputs
  <2> QED
    BY <2>1, <2>2 DEF Kept
<1>8. Cleaned'
  BY <1>1, CleanedStands DEF EInv
<1>9. Commits'
  BY <1>1 DEF EInv, Commits, CommitLast, CommitDataLive, Open, NoCommit, InSeq
<1> QED
  BY <1>2, <1>5, <1>6, <1>7, <1>8, <1>9 DEF EInv
-----------------------------------------------------------------------------
LEMMA EStep == EInv /\ [Next]_vars => EInv'
<1> SUFFICES ASSUME EInv, [Next]_vars PROVE EInv'
  OBVIOUS
<1>1. CASE \E s \in Session, p \in Players : Connect(s, p)
  BY <1>1, ConnectStep
<1>2. CASE GetDllState \/ GetState \/ EndGame \/ NewMission
  BY <1>2, GetDllStateStep, GetStateStep, EndGameStep, NewMissionStep
<1>3. CASE \E s \in Session : GetOutput(s) \/ Publish(s) \/ Leave(s)
  BY <1>3, GetOutputStep, PublishStep, LeaveStep
<1>4. CASE CommitCall
  BY <1>4, CommitRecordStep, CommitDoneStep DEF CommitCall
<1>5. CASE \E s \in Session : Worker(s)
  BY <1>5, WorkerStep
<1>6. CASE Cleanup
  BY <1>6, CleanupStep
<1>7. CASE UNCHANGED vars
  <2>1. /\ UNCHANGED <<mission, lastTrd, player, game, commit, kicked, oname, inQ, outQ,
                       inHive, outputs, data, workerVars, cleanQ, batch, at, half, stateQ>>
        /\ UNCHANGED <<running, dllSeen, published, inFunctor, pool, dllQ, fault>>
    BY <1>7 DEF vars, gameVars, queueVars, cleanVars
  <2>2. running' \in BOOLEAN /\ dllSeen' \in BOOLEAN /\ fault' \in BOOLEAN
    BY <2>1, Zenon DEF EInv, Typed
  <2> QED
    BY <2>1, <2>2, Unmoved DEF EInv, Typed
<1> QED
  BY <1>1, <1>2, <1>3, <1>4, <1>5, <1>6, <1>7 DEF Next

(* The invariant that the theorems below follow from.                      *)
THEOREM EInvariant == Spec => []EInv
<1>1. Init => EInv
  BY Starts
<1>2. EInv /\ [Next]_vars => EInv'
  BY EStep
<1> QED
  BY <1>1, <1>2, PTL DEF Spec

(* A hive the mission still holds a pointer to, for GetOutput, Publish or  *)
(* Commit (OPFL.cpp:462-517), is not one CleanupThreads has deleted.       *)
THEOREM GameHivesAlive == Spec => []GameHivesLive
<1>1. EInv => GameHivesLive
  <2> SUFFICES ASSUME EInv, NEW s \in Session, Open(s) \/ InSeq(s, commit.todo)
               PROVE  s \in inHive /\ s \in Outputs
    BY DEF GameHivesLive
  <2>1. CASE Open(s)
    BY <2>1 DEF EInv, Kept
  <2>2. CASE InSeq(s, commit.todo)
    <3>1. PICK j \in DOMAIN commit.all : commit.all[j] = s
      BY <2>2 DEF EInv, Listed, InSeq
    <3>2. /\ Len(Lists) \in DOMAIN Lists /\ Lists[Len(Lists)] = commit.all
          /\ Len(batch) \in Nat /\ Len(Lists) >= Len(batch) + 1
      BY ListsShape DEF EInv
    <3>3. batch # <<>> => Len(Lists) # 1
      <4>1. batch # <<>> => Len(batch) # 0
        <5> DEFINE S == Seq(Session)
        <5>1. batch \in Seq(S)
          BY DEF EInv, Typed
        <5> HIDE DEF S
        <5> QED
          BY <5>1, EmptySeq
      <4>2. Len(Lists) \in Nat
        BY ListsShape DEF EInv
      <4> QED
        BY <3>2, <4>1, <4>2
    <3>4. Awaits(Len(Lists), j)
      BY <3>3 DEF Awaits
    <3> QED
      BY <3>1, <3>2, <3>4 DEF EInv, Kept
  <2> QED
    BY <2>1, <2>2
<1> QED
  BY <1>1, EInvariant, PTL

(* A record of a Commit is in one message to the cleanup thread, once, and *)
(* both of its hives are there until CleanupThreads (OPFL.cpp:312-332)     *)
(* comes to it: nothing is deleted twice.                                  *)
THEOREM DeletesOnce == Spec => []DeletedOnce
<1>1. EInv => DeletedOnce
  <2> SUFFICES ASSUME EInv PROVE DeletedOnce
    OBVIOUS
  <2>1. ASSUME NEW x \in ToDelete
        PROVE  /\ x[1] \in DOMAIN Lists /\ x[2] \in DOMAIN Lists[x[1]]
               /\ Awaits(x[1], x[2]) /\ x = <<x[1], x[2]>>
    <3>1. /\ x \in (DOMAIN Lists) \X (1 .. Sessions)
          /\ x[2] <= Len(Lists[x[1]]) /\ Awaits(x[1], x[2])
      BY <2>1 DEF ToDelete, Awaits
    <3>2. Lists[x[1]] \in Seq(Session)
      BY <3>1, ListsShape, ElementOfSeq DEF EInv
    <3>3. x[2] \in 1 .. Len(Lists[x[1]])
      BY <3>1, <3>2, ExtensionAssumption
    <3> QED
      BY <3>1, <3>2, <3>3
  <2>2. \A x \in ToDelete : Lists[x[1]][x[2]] \in inHive \cap Outputs
    BY <2>1 DEF EInv, Kept
  <2>3. ASSUME NEW x \in ToDelete, NEW y \in ToDelete,
               Lists[x[1]][x[2]] = Lists[y[1]][y[2]]
        PROVE  x = y
    <3>1. x[1] = y[1] /\ x[2] = y[2]
      BY <2>1, <2>3 DEF EInv, Listed, ListedOnce
    <3> QED
      BY <2>1, <3>1
  <2> QED
    BY <2>2, <2>3 DEF DeletedOnce
<1> QED
  BY <1>1, EInvariant, PTL

(* The array that a Commit message in a thread's queue shares with the     *)
(* message of the cleanup thread (OPFL.cpp:505) is there as long as the    *)
(* thread may receive it.                                                  *)
THEOREM CommitDataAlive == Spec => []CommitDataLive
<1>1. EInv => CommitDataLive
  BY DEF EInv, Commits
<1> QED
  BY <1>1, EInvariant, PTL

(* No message of the mission (RankMain and RemovePlayer.sqf) comes into a  *)
(* queue behind the Commit that ends the thread that would write it.       *)
THEOREM CommitComesLast == Spec => []CommitLast
<1>1. EInv => CommitLast
  BY DEF EInv, Commits
<1> QED
  BY <1>1, EInvariant, PTL

(* While thread names are unique, in the mission that loaded the DLL, the  *)
(* handle that mycallback looks up by name (OPFL.cpp:194, 201) is its own  *)
(* and still there when it sends, and the mission reads its own account.   *)
THEOREM OutputsInMission == Spec => []OutputInMission
<1>1. EInv => OutputInMission
  <2> SUFFICES ASSUME EInv, mission = 1 PROVE OutputReachesOwner /\ TargetLive
    BY DEF OutputInMission
  <2>1. OutputReachesOwner
    BY DEF EInv, Names, OutputReachesOwner
  <2>2. \A s \in Session : worker[s] = "send" => target[s] = s /\ s \in Outputs
    BY DEF EInv, Names, Kept, Runs
  <2> QED
    BY <2>1, <2>2 DEF TargetLive
<1> QED
  BY <1>1, EInvariant, PTL

(* The thread of a session the mission still has does not end unseen: its  *)
(* report waits for GetState, or GetState has had the player kicked        *)
(* (OPFL.cpp:290, RankMain.sqf:246-253).                                   *)
THEOREM CrashesReported == Spec => []CrashReported
<1>1. EInv => CrashReported
  BY DEF EInv, Reported
<1> QED
  BY <1>1, EInvariant, PTL
=============================================================================
