------------------------ MODULE AccountSession_proofs ------------------------
(***************************************************************************)
(* Proofs about the connection pool, and about the sessions and their      *)
(* transactions on top of it, for every pool size and every number of      *)
(* sessions, players, connections and failures: the pool lends a           *)
(* connection once and loses none, what goes back to it holds no row, one  *)
(* thread at a time owns an account, a commit loses no update, and what    *)
(* was saved stays.                                                        *)
(***************************************************************************)
EXTENDS AccountSession, SequenceTheorems, FiniteSetTheorems, TLAPS

(* The set of idle connections after a push at the back and a pop at the   *)
(* front.                                                                  *)
LEMMA AppendIdle ==
  ASSUME PoolTypeOK, NEW c \in Conn, pool' = Append(pool, c)
  PROVE  /\ InPool' = InPool \cup {c}
         /\ Len(pool') = Len(pool) + 1
         /\ \A i \in DOMAIN pool : i \in DOMAIN pool' /\ pool'[i] = pool[i]
         /\ pool'[Len(pool')] = c
         /\ DOMAIN pool' = DOMAIN pool \cup {Len(pool')}
         /\ Len(pool') \notin DOMAIN pool
<1>1. /\ pool \in Seq(Conn) /\ Len(pool) \in Nat
      /\ DOMAIN pool = 1 .. Len(pool)
  BY LenProperties DEF PoolTypeOK
<1>2. /\ pool' \in Seq(Conn) /\ Len(pool') = Len(pool) + 1
      /\ DOMAIN pool' = 1 .. Len(pool) + 1
      /\ \A i \in 1 .. Len(pool) : pool'[i] = pool[i]
      /\ pool'[Len(pool) + 1] = c
  BY <1>1, AppendProperties, LenProperties
<1>3. DOMAIN pool' = DOMAIN pool \cup {Len(pool) + 1}
  BY <1>1, <1>2
<1>4. InPool' = InPool \cup {c}
  BY <1>1, <1>2, <1>3 DEF InPool
<1> QED
  BY <1>1, <1>2, <1>3, <1>4

(* Of idle connections that differ, the front one leaves, and only that.   *)
LEMMA TailIdle ==
  ASSUME PoolTypeOK, pool # <<>>, pool' = Tail(pool)
  PROVE  /\ Head(pool) \in Conn
         /\ Head(pool) = pool[1] /\ 1 \in DOMAIN pool
         /\ InPool = InPool' \cup {Head(pool)}
         /\ Len(pool') = Len(pool) - 1
         /\ \A i \in DOMAIN pool' : /\ i \in Nat /\ i > 0
                                    /\ i + 1 \in DOMAIN pool
                                    /\ pool'[i] = pool[i + 1]
<1>1. /\ pool \in Seq(Conn) /\ Len(pool) \in Nat \ {0}
      /\ DOMAIN pool = 1 .. Len(pool)
  BY LenProperties, EmptySeq DEF PoolTypeOK
<1>2. /\ Head(pool) \in Conn /\ Head(pool) = pool[1]
      /\ pool' \in Seq(Conn) /\ Len(pool') = Len(pool) - 1
      /\ DOMAIN pool' = 1 .. Len(pool) - 1
      /\ \A i \in 1 .. Len(pool) - 1 : pool'[i] = pool[i + 1]
  BY <1>1, HeadTailProperties, LenProperties
<1>3. InPool = InPool' \cup {Head(pool)}
  <2>1. ASSUME NEW i \in 1 .. Len(pool)
        PROVE  pool[i] \in InPool' \cup {Head(pool)}
    <3>1. CASE i = 1
      BY <1>2, <3>1
    <3>2. CASE i # 1
      <4>1. i - 1 \in 1 .. Len(pool) - 1 /\ pool'[i - 1] = pool[i]
        BY <1>1, <1>2, <3>2
      <4> QED
        BY <1>2, <4>1 DEF InPool
    <3> QED
      BY <3>1, <3>2
  <2>2. ASSUME NEW i \in 1 .. Len(pool) - 1
        PROVE  pool'[i] \in InPool
    BY <1>1, <1>2 DEF InPool
  <2> QED
    BY <1>1, <1>2, <2>1, <2>2 DEF InPool
<1> QED
  BY <1>1, <1>2, <1>3
-----------------------------------------------------------------------------
(* An empty pool is a consistent one.                                      *)
LEMMA InitPool == PoolInit => PoolInv
  BY PoolAssumption DEF PoolInit, PoolInv, PoolTypeOK, IdleOnce, Exclusive, InPool

(* borrow() from the front of the deque.                                   *)
LEMMA BorrowIdleInv ==
  ASSUME PoolInv, NEW h \in Holder, BorrowIdle(h), UNCHANGED built
  PROVE  PoolInv'
<1> USE DEF PoolInv, BorrowIdle
<1>1. /\ Head(pool) \in Conn
      /\ Head(pool) = pool[1] /\ 1 \in DOMAIN pool
      /\ InPool = InPool' \cup {Head(pool)}
      /\ \A i \in DOMAIN pool' : /\ i \in Nat /\ i > 0
                                 /\ i + 1 \in DOMAIN pool
                                 /\ pool'[i] = pool[i + 1]
  BY TailIdle
<1>2. PoolTypeOK'
  BY <1>1, HeadTailProperties DEF PoolTypeOK
<1>3. IdleOnce'
  <2>1. Head(pool) \notin InPool'
    BY <1>1 DEF IdleOnce, InPool
  <2>2. \A i, j \in DOMAIN pool' : pool'[i] = pool'[j] => i = j
    BY <1>1 DEF IdleOnce
  <2> QED
    BY <1>1, <2>1, <2>2 DEF IdleOnce
<1>4. Exclusive'
  <2>1. Head(pool) \notin borrowed
    BY <1>1 DEF IdleOnce
  <2> QED
    BY <2>1 DEF Exclusive, PoolTypeOK
<1> QED
  BY <1>2, <1>3, <1>4

(* borrow() in place of an abandoned connection: no holder refers to the   *)
(* one that goes, and none to the one that comes.                          *)
LEMMA BorrowReplaceInv ==
  ASSUME PoolInv, NEW h \in Holder, BorrowReplace(h), UNCHANGED built
  PROVE  PoolInv'
<1> USE DEF PoolInv, BorrowReplace
<1>1. PICK old \in Abandoned, new \in Fresh :
        /\ borrowed' = (borrowed \ {old}) \cup {new}
        /\ ptr' = [ptr EXCEPT ![h] = new]
        /\ healthy' = (healthy \ {old}) \cup {new}
  OBVIOUS
<1>2. /\ new \in Conn /\ new \notin InPool /\ new \notin borrowed
      /\ \A g \in Holder : ptr[g] # new /\ ptr[g] # old
  BY DEF Fresh, Owned, Abandoned, Referenced
<1>3. PoolTypeOK'
  BY <1>1, <1>2 DEF PoolTypeOK
<1>4. IdleOnce'
  BY <1>1, <1>2 DEF IdleOnce, InPool
<1>5. Exclusive'
  BY <1>1, <1>2 DEF Exclusive, PoolTypeOK
<1> QED
  BY <1>3, <1>4, <1>5

(* unborrow() of a connection that is lent.                                *)
LEMMA UnborrowInv ==
  ASSUME PoolInv, NEW h \in lent, Unborrow(h), UNCHANGED built
  PROVE  PoolInv'
<1> USE DEF PoolInv, Unborrow
<1>1. ptr[h] \in Conn /\ ptr[h] \in borrowed /\ ptr[h] \notin InPool
  BY DEF PoolTypeOK, Exclusive, IdleOnce
<1>2. /\ InPool' = InPool \cup {ptr[h]}
      /\ \A i \in DOMAIN pool : i \in DOMAIN pool' /\ pool'[i] = pool[i]
      /\ pool'[Len(pool')] = ptr[h]
      /\ DOMAIN pool' = DOMAIN pool \cup {Len(pool')}
      /\ Len(pool') \notin DOMAIN pool
  BY <1>1, AppendIdle
<1>3. PoolTypeOK'
  BY <1>1, AppendProperties DEF PoolTypeOK
<1>4. IdleOnce'
  <2>1. ASSUME NEW i \in DOMAIN pool', NEW j \in DOMAIN pool', pool'[i] = pool'[j]
        PROVE  i = j
    <3>1. \A k \in DOMAIN pool : pool'[k] # ptr[h]
      BY <1>1, <1>2 DEF InPool
    <3> QED
      BY <1>2, <2>1, <3>1 DEF IdleOnce
  <2>2. InPool' \cap borrowed' = {}
    BY <1>2 DEF IdleOnce
  <2> QED
    BY <2>1, <2>2 DEF IdleOnce
<1>5. Exclusive'
  BY DEF Exclusive, PoolTypeOK
<1> QED
  BY <1>3, <1>4, <1>5

(* The constructor adds a connection that was not there.                   *)
LEMMA FillInv ==
  ASSUME PoolInv, Fill
  PROVE  PoolInv'
<1> USE DEF PoolInv, Fill
<1>1. PICK c \in Fresh : pool' = Append(pool, c) /\ healthy' = healthy \cup {c}
  OBVIOUS
<1>2. c \in Conn /\ c \notin InPool /\ c \notin borrowed
  BY DEF Fresh, Owned
<1>3. /\ InPool' = InPool \cup {c}
      /\ \A i \in DOMAIN pool : i \in DOMAIN pool' /\ pool'[i] = pool[i]
      /\ pool'[Len(pool')] = c
      /\ DOMAIN pool' = DOMAIN pool \cup {Len(pool')}
      /\ Len(pool') \notin DOMAIN pool
  BY <1>1, <1>2, AppendIdle
<1>4. PoolTypeOK'
  BY <1>1, <1>2, AppendProperties DEF PoolTypeOK
<1>5. IdleOnce'
  <2>1. ASSUME NEW i \in DOMAIN pool', NEW j \in DOMAIN pool', pool'[i] = pool'[j]
        PROVE  i = j
    <3>1. \A k \in DOMAIN pool : pool'[k] # c
      BY <1>2, <1>3 DEF InPool
    <3> QED
      BY <1>3, <2>1, <3>1 DEF IdleOnce
  <2> QED
    BY <1>2, <1>3, <2>1 DEF IdleOnce
<1>6. Exclusive'
  BY DEF Exclusive
<1> QED
  BY <1>4, <1>5, <1>6

(* Every call, and every change around it, keeps the pool consistent.      *)
LEMMA PoolStep == PoolInv /\ [PoolNext]_poolVars => PoolInv'
<1> SUFFICES ASSUME PoolInv, [PoolNext]_poolVars PROVE PoolInv'
  OBVIOUS
<1>1. CASE Fill
  BY <1>1, FillInv
<1>2. ASSUME NEW h \in Holder, Use(h) PROVE PoolInv'
  <2>1. CASE BorrowIdle(h)
    BY <1>2, <2>1, BorrowIdleInv DEF Use
  <2>2. CASE BorrowReplace(h)
    BY <1>2, <2>2, BorrowReplaceInv DEF Use
  <2>3. CASE h \in lent /\ Unborrow(h)
    BY <1>2, <2>3, UnborrowInv DEF Use
  <2>4. CASE Release(h)
    BY <1>2, <2>4 DEF Use, Release, PoolInv, PoolTypeOK, IdleOnce, Exclusive, InPool
  <2>5. CASE UNCHANGED poolVars
    BY <2>5 DEF poolVars, PoolInv, PoolTypeOK, IdleOnce, Exclusive, InPool
  <2> QED
    BY <1>2, <2>1, <2>2, <2>3, <2>4, <2>5
       DEF Use, BorrowImpossible, BorrowUnavailable, poolVars
<1>3. CASE Filled \/ FillFails \/ \E c \in Conn : Break(c)
  BY <1>3 DEF Filled, FillFails, Break, PoolInv, PoolTypeOK, IdleOnce, Exclusive, InPool
<1>4. CASE UNCHANGED poolVars
  BY <1>4 DEF poolVars, PoolInv, PoolTypeOK, IdleOnce, Exclusive, InPool
<1> QED
  BY <1>1, <1>2, <1>3, <1>4 DEF PoolNext

(* The pool never lends one connection to two workers, and never queues a  *)
(* connection that is lent: whatever is abandoned, replaced or refused.    *)
THEOREM PoolSafe == PoolSpec => [](PoolTypeOK /\ IdleOnce /\ Exclusive)
  BY InitPool, PoolStep, PTL DEF PoolSpec, PoolInv
-----------------------------------------------------------------------------
(* Conservation needs, beside the above, that the borrowed set is finite   *)
(* and that nothing is lent before the constructor has filled the pool.    *)
Counted ==
  /\ PoolInv
  /\ IsFiniteSet(borrowed)
  /\ built = "filling" => borrowed = {} /\ Len(pool) <= PoolSize
  /\ Conserved

(* A lent connection moves from the deque to the set: the sum stays.       *)
LEMMA BorrowIdleCounted ==
  ASSUME Counted, built = "ready", NEW h \in Holder, BorrowIdle(h), UNCHANGED built
  PROVE  IsFiniteSet(borrowed') /\ Conserved'
<1>1. /\ Head(pool) \in InPool
      /\ Len(pool') = Len(pool) - 1
      /\ Len(pool) \in Nat
  BY TailIdle, LenProperties DEF Counted, PoolInv, BorrowIdle, PoolTypeOK
<1>2. Head(pool) \notin borrowed
  BY <1>1 DEF Counted, PoolInv, IdleOnce
<1>3. /\ IsFiniteSet(borrowed')
      /\ Cardinality(borrowed') = Cardinality(borrowed) + 1
      /\ Cardinality(borrowed) \in Nat
  BY <1>2, FS_AddElement, FS_CardinalityType DEF Counted, BorrowIdle
<1> QED
  BY <1>1, <1>3, PoolAssumption DEF Counted, Conserved

(* A replacement comes for the one that goes: the set keeps its size.      *)
LEMMA BorrowReplaceCounted ==
  ASSUME Counted, built = "ready", NEW h \in Holder, BorrowReplace(h), UNCHANGED built
  PROVE  IsFiniteSet(borrowed') /\ Conserved'
<1>1. PICK old \in borrowed, new \in Conn :
        /\ new \notin borrowed
        /\ borrowed' = (borrowed \ {old}) \cup {new}
  BY DEF BorrowReplace, Abandoned, Fresh, Owned
<1>2. /\ IsFiniteSet(borrowed \ {old})
      /\ Cardinality(borrowed \ {old}) = Cardinality(borrowed) - 1
      /\ Cardinality(borrowed) \in Nat
  BY <1>1, FS_RemoveElement, FS_CardinalityType DEF Counted
<1>3. /\ IsFiniteSet(borrowed')
      /\ Cardinality(borrowed') = Cardinality(borrowed)
  <2>1. PICK rest : rest = borrowed \ {old}
    OBVIOUS
  <2>2. IsFiniteSet(rest) /\ new \notin rest /\ borrowed' = rest \cup {new}
    BY <1>1, <1>2, <2>1
  <2>3. IsFiniteSet(borrowed') /\ Cardinality(borrowed') = Cardinality(rest) + 1
    BY <2>2, FS_AddElement
  <2> QED
    BY <1>2, <2>1, <2>3
<1> QED
  BY <1>3 DEF Counted, Conserved, BorrowReplace

(* A returned connection moves back: the sum stays.                        *)
LEMMA UnborrowCounted ==
  ASSUME Counted, built = "ready", NEW h \in lent, Unborrow(h), UNCHANGED built
  PROVE  IsFiniteSet(borrowed') /\ Conserved'
<1>1. ptr[h] \in Conn /\ ptr[h] \in borrowed
  BY DEF Counted, PoolInv, Exclusive, PoolTypeOK
<1>2. Len(pool') = Len(pool) + 1 /\ Len(pool) \in Nat
  BY <1>1, AppendIdle, LenProperties DEF Counted, PoolInv, Unborrow, PoolTypeOK
<1>3. /\ IsFiniteSet(borrowed')
      /\ Cardinality(borrowed') = Cardinality(borrowed) - 1
      /\ Cardinality(borrowed) \in Nat
  BY <1>1, FS_RemoveElement, FS_CardinalityType DEF Counted, Unborrow
<1> QED
  BY <1>2, <1>3 DEF Counted, Conserved

(* No step changes the number of connections the pool accounts for.        *)
LEMMA CountedStep == Counted /\ [PoolNext]_poolVars => Counted'
<1> SUFFICES ASSUME Counted, [PoolNext]_poolVars PROVE Counted'
  OBVIOUS
<1>0. PoolInv'
  BY PoolStep DEF Counted
<1>1. CASE Fill
  <2>1. PICK c \in Fresh : pool' = Append(pool, c)
    BY <1>1 DEF Fill
  <2>2. Len(pool') = Len(pool) + 1 /\ Len(pool) \in Nat
    BY <2>1, AppendIdle, LenProperties DEF Counted, PoolInv, PoolTypeOK, Fresh
  <2> QED
    BY <1>0, <1>1, <2>2, PoolAssumption DEF Fill, Counted, Conserved
<1>2. ASSUME NEW h \in Holder, Use(h) PROVE Counted'
  <2>1. built = "ready" /\ built' = "ready"
    BY <1>2 DEF Use
  <2>2. CASE BorrowIdle(h)
    BY <1>0, <1>2, <2>1, <2>2, BorrowIdleCounted DEF Use, Counted
  <2>3. CASE BorrowReplace(h)
    BY <1>0, <1>2, <2>1, <2>3, BorrowReplaceCounted DEF Use, Counted
  <2>4. CASE h \in lent /\ Unborrow(h)
    BY <1>0, <1>2, <2>1, <2>4, UnborrowCounted DEF Use, Counted
  <2>5. CASE Release(h) \/ BorrowImpossible \/ BorrowUnavailable
    BY <1>0, <2>1, <2>5
       DEF Release, BorrowImpossible, BorrowUnavailable, Counted, Conserved
  <2> QED
    BY <1>2, <2>2, <2>3, <2>4, <2>5 DEF Use
<1>3. CASE Filled
  <2>1. Len(pool) \in Nat
    BY LenProperties DEF Counted, PoolInv, PoolTypeOK
  <2> QED
    BY <1>0, <1>3, <2>1, FS_EmptySet, PoolAssumption DEF Filled, Counted, Conserved
<1>4. CASE FillFails \/ (\E c \in Conn : Break(c)) \/ UNCHANGED poolVars
  BY <1>0, <1>4 DEF FillFails, Break, poolVars, Counted, Conserved
<1> QED
  BY <1>1, <1>2, <1>3, <1>4 DEF PoolNext

(* No connection leaks: once built, idle and lent ones add up to pool_size. *)
THEOREM PoolConserved == PoolSpec => []Conserved
<1>1. PoolInit => Counted
  BY InitPool, FS_EmptySet, PoolAssumption DEF PoolInit, Counted, Conserved
<1>2. Counted => Conserved
  BY DEF Counted
<1> QED
  BY <1>1, <1>2, CountedStep, PTL DEF PoolSpec
-----------------------------------------------------------------------------
(* The sessions, from here on.                                             *)
Msg == [name : {"PublishAccount", "Commit"}, val : Nat, punish : BOOLEAN]
Lock == Conn \cup {NoConn}
Ditch == 0 .. 5

(* Where a thread has been lent opflcon, and opflcon2.                     *)
Setup == {"CreateAccount", "GetAccount", "CreateBanData", "GetBanData",
          "WriteBanData", "CommitBanData", "send"}
Leaving == {"PunishGet", "PunishWrite", "PunishCommit", "Return2", "CommitData"}
Uses1 == Setup \cup Leaving \cup {"borrow2", "got", "unborrow2", "serve", "Return1"}
Uses2 == Uses1 \ {"borrow2", "CommitData", "Return1"}

(* Where no transaction of it is open on opflcon, and on opflcon2.         *)
Idle1 == {"borrow2", "got", "unborrow2", "CreateAccount", "Return1"}
Idle2 == {"got", "unborrow2", "CreateAccount", "GetAccount", "CreateBanData",
          "send", "serve", "PunishGet", "Return2"}

(* Where the mission has not been sent the account.                        *)
Unsent == Setup \cup {"none", "borrow", "borrow2", "got", "again", "hopeless", "unborrow2"}

Place == Uses1 \cup Unsent \cup {"crash", "end", "over"}

Typed ==
  /\ account \in [Account -> [val : Nat, lock : Lock, tx : Nat]]
  /\ ban \in [Account -> [val : Ditch, lock : Lock, tx : Ditch]]
  /\ place \in [Session -> Place]
  /\ msgs \in [Session -> Seq(Msg)]
  /\ val \in [Session -> Nat] /\ left \in [Session -> Ditch]
  /\ view \in [Session -> Int]
  /\ outcome \in [Session -> {"open", "saved"}]
  /\ gone \subseteq Session

(* A row is locked by a connection that is lent or abandoned; what nobody  *)
(* has locked is what was committed; an account only grows, and a ditch    *)
(* counter is moved by one step before it is committed.                    *)
Rows ==
  \A a \in Account :
    /\ account[a].lock \in borrowed \cup {NoConn} /\ ban[a].lock \in borrowed \cup {NoConn}
    /\ account[a].lock = NoConn => account[a].tx = account[a].val
    /\ ban[a].lock = NoConn => ban[a].tx = ban[a].val
    /\ account[a].val <= account[a].tx
    /\ ban[a].tx = ban[a].val \/ OneStep(ban[a].val, ban[a].tx)

(* What session s holds, and which rows its connections have locked.       *)
Holds(s) ==
  /\ place[s] \in Uses1 => One(s) \in lent
  /\ place[s] \in Uses2 => Two(s) \in lent
  /\ \A a \in Account :
       /\ One(s) \in lent => ban[a].lock # Con(s)
       /\ Two(s) \in lent => account[a].lock # Con2(s)
       /\ place[s] \in Idle1 => account[a].lock # Con(s)
       /\ place[s] \in Idle2 => ban[a].lock # Con2(s)

(* While its links hold, a thread has its account locked from the first    *)
(* statement on, and its ban row around reading and writing it.            *)
Owns(s) ==
  /\ place[s] \in Owning \cup {"GetAccount"} /\ Con(s) \in healthy
       => AccountRow(s).lock = Con(s)
  /\ place[s] \in Owning /\ Con(s) \in healthy => AccountRow(s).tx = val[s]
  /\ place[s] \in {"GetBanData", "WriteBanData", "PunishWrite"} /\ Con2(s) \in healthy
       => /\ BanRow(s).lock = Con2(s) /\ BanRow(s).tx = BanRow(s).val
          /\ place[s] # "GetBanData" =>
               left[s] = BanRow(s).val \/ OneStep(BanRow(s).val, left[s])

Published(m) == m.name = "PublishAccount"

(* Of the queue q: Commit is last, and comes when the session is left; the *)
(* values published lie between lo and hi, in order.                       *)
Ordered(q, lo, hi) ==
  /\ lo <= hi
  /\ \A i \in DOMAIN q : Published(q[i]) => lo <= q[i].val /\ q[i].val <= hi
  /\ \A i, j \in DOMAIN q :
       Published(q[i]) /\ Published(q[j]) /\ i <= j => q[i].val <= q[j].val
  /\ lo = hi \/ \E i \in DOMAIN q : Published(q[i]) /\ q[i].val = hi

NonePublished(q) == \A i \in DOMAIN q : ~Published(q[i])
AllPublished(q) == \A i \in DOMAIN q : Published(q[i])
CommitAtEnd(q) == \A i \in DOMAIN q : ~Published(q[i]) => i = Len(q)

(* What the mission published is in the queue, in order, or written.       *)
Queued(s) ==
  /\ CommitAtEnd(msgs[s])
  /\ s \notin gone => AllPublished(msgs[s])
  /\ place[s] \in Unsent => view[s] < 0
  /\ view[s] < 0 => NonePublished(msgs[s])
  /\ place[s] = "serve" => Ordered(msgs[s], val[s], view[s])
  /\ place[s] \in Leaving => s \in gone /\ view[s] = val[s]
  /\ outcome[s] = "saved" =>
       /\ s \in gone /\ place[s] \in {"Return1", "end", "over"}
       /\ AccountRow(s).val >= view[s]

Mine(s) == Holds(s) /\ Owns(s) /\ Queued(s)

AInv ==
  /\ Counted /\ built = "ready"
  /\ Typed
  /\ Rows
  /\ \A s \in Session : Mine(s)
-----------------------------------------------------------------------------
(* What a step of session s does not touch: what the others hold ...       *)
PoolAside(s) ==
  \A t \in Session \ {s} : \A h \in {One(t), Two(t)} :
    /\ h \in lent' <=> h \in lent
    /\ ptr'[h] = ptr[h]
    /\ h \in lent /\ ptr[h] \in healthy' => ptr[h] \in healthy

(* ... where they are and what they know ...                               *)
Local(s) ==
  \A t \in Session \ {s} :
    /\ place'[t] = place[t] /\ msgs'[t] = msgs[t] /\ outcome'[t] = outcome[t]
    /\ val'[t] = val[t] /\ left'[t] = left[t] /\ view'[t] = view[t]
    /\ t \in gone' <=> t \in gone

(* ... and the rows of a table that they have locked.                      *)
RowsAside(s, old, new) ==
  \A a \in Account : \A t \in Session \ {s} : \A h \in {One(t), Two(t)} :
    h \in lent => /\ new[a].lock = ptr[h] <=> old[a].lock = ptr[h]
                  /\ old[a].lock = ptr[h] => new[a] = old[a]

LEMMA Holders ==
  ASSUME NEW s \in Session
  PROVE  /\ One(s) \in Holder /\ Two(s) \in Holder /\ One(s) # Two(s)
         /\ AccountOf[s] \in Account
         /\ \A t \in Session : t # s => /\ One(s) # One(t) /\ One(s) # Two(t)
                                        /\ Two(s) # One(t) /\ Two(s) # Two(t)
BY SessionAssumption DEF One, Two

LEMMA LentApart ==
  ASSUME AInv, NEW g \in lent
  PROVE  /\ ptr[g] \in Conn /\ ptr[g] \in borrowed /\ ptr[g] # NoConn
         /\ \A h \in lent : h # g => ptr[h] # ptr[g]
BY PoolAssumption DEF AInv, Counted, PoolInv, Exclusive, PoolTypeOK

(* The other sessions keep what the invariant says of them.                *)
LEMMA OthersStand ==
  ASSUME AInv, NEW s \in Session, PoolAside(s), Local(s), Typed',
         RowsAside(s, account, account'), RowsAside(s, ban, ban'),
         \A a \in Account : account'[a].val >= account[a].val,
         NEW t \in Session, t # s
  PROVE  Mine(t)'
<1>1. /\ place'[t] = place[t] /\ msgs'[t] = msgs[t] /\ outcome'[t] = outcome[t]
      /\ val'[t] = val[t] /\ left'[t] = left[t] /\ view'[t] = view[t]
      /\ t \in gone' <=> t \in gone
  BY DEF Local
<1>2. /\ One(t) \in lent' <=> One(t) \in lent
      /\ Two(t) \in lent' <=> Two(t) \in lent
      /\ Con(t)' = Con(t) /\ Con2(t)' = Con2(t)
      /\ One(t) \in lent /\ Con(t) \in healthy' => Con(t) \in healthy
      /\ Two(t) \in lent /\ Con2(t) \in healthy' => Con2(t) \in healthy
  BY DEF PoolAside, Con, Con2
<1>3. \A a \in Account :
        /\ One(t) \in lent => /\ account'[a].lock = Con(t) <=> account[a].lock = Con(t)
                              /\ ban'[a].lock = Con(t) <=> ban[a].lock = Con(t)
                              /\ account[a].lock = Con(t) => account'[a] = account[a]
        /\ Two(t) \in lent => /\ account'[a].lock = Con2(t) <=> account[a].lock = Con2(t)
                              /\ ban'[a].lock = Con2(t) <=> ban[a].lock = Con2(t)
                              /\ ban[a].lock = Con2(t) => ban'[a] = ban[a]
  BY DEF RowsAside, Con, Con2
<1>4. Mine(t) /\ AccountOf[t] \in Account
  BY Holders DEF AInv
<1>5. Holds(t)'
  <2>1. /\ place[t] \in Idle1 => place[t] \in Uses1
        /\ place[t] \in Idle2 => place[t] \in Uses2
    BY DEF Idle1, Idle2, Uses1, Uses2, Setup, Leaving
  <2> QED
    BY <1>1, <1>2, <1>3, <1>4, <2>1 DEF Mine, Holds
<1>6. Owns(t)'
  <2>1. /\ place[t] \in Owning \cup {"GetAccount"} => One(t) \in lent
        /\ place[t] \in {"GetBanData", "WriteBanData", "PunishWrite"} => Two(t) \in lent
    BY <1>4 DEF Mine, Holds, Owning, Uses1, Uses2, Setup, Leaving
  <2> QED
    BY <1>1, <1>2, <1>3, <1>4, <2>1 DEF Mine, Owns, AccountRow, BanRow
<1>7. Queued(t)'
  <2>1. outcome[t] = "saved" => AccountRow(t)'.val >= view[t]
    <3>1. /\ account[AccountOf[t]].val \in Nat /\ account'[AccountOf[t]].val \in Nat
          /\ view[t] \in Int
      BY <1>4 DEF AInv, Typed
    <3> QED
      BY <1>4, <3>1 DEF Mine, Queued, AccountRow
  <2> QED
    BY <1>1, <1>4, <2>1 DEF Mine, Queued
<1> QED
  BY <1>5, <1>6, <1>7 DEF Mine

LEMMA SessionMoves ==
  ASSUME AInv, NEW s \in Session, PoolAside(s), Local(s),
         RowsAside(s, account, account'), RowsAside(s, ban, ban'),
         \A a \in Account : account'[a].val >= account[a].val,
         Counted', built' = "ready", Typed', Rows', Mine(s)'
  PROVE  AInv'
BY OthersStand DEF AInv

(* A step that leaves the pool alone, or loses links.                      *)
LEMMA PoolStands ==
  ASSUME AInv, UNCHANGED <<pool, borrowed, ptr, lent, built>>, healthy' \subseteq healthy
  PROVE  /\ Counted' /\ built' = "ready"
         /\ \A s \in Session : PoolAside(s)
<1>1. PoolInv'
  BY DEF AInv, Counted, PoolInv, PoolTypeOK, IdleOnce, Exclusive, InPool
<1>2. Counted'
  BY <1>1 DEF AInv, Counted, Conserved
<1> QED
  BY <1>2 DEF AInv, PoolAside

LEMMA TablesStand ==
  ASSUME AInv, UNCHANGED dbVars
  PROVE  /\ \A s \in Session : RowsAside(s, account, account') /\ RowsAside(s, ban, ban')
         /\ \A a \in Account : account'[a].val >= account[a].val
BY DEF AInv, Typed, dbVars, RowsAside

(* Steps that touch neither the pool nor the database.                     *)
LEMMA QuietStep ==
  ASSUME AInv, NEW s \in Session, UNCHANGED <<poolVars, dbVars, left, outcome>>, Local(s),
         place' \in [Session -> Place], msgs' \in [Session -> Seq(Msg)],
         val' \in [Session -> Nat], view' \in [Session -> Int], gone' \subseteq Session,
         Mine(s)'
  PROVE  AInv'
<1>1. Counted' /\ built' = "ready" /\ PoolAside(s)
  BY PoolStands DEF poolVars
<1>2. Typed' /\ Rows'
  BY DEF AInv, Typed, Rows, dbVars, poolVars
<1> QED
  BY <1>1, <1>2, TablesStand, SessionMoves
-----------------------------------------------------------------------------
(* A statement that went wrong only sends the thread elsewhere: out of the *)
(* setting up, or from the punishment to CommitData.                       *)
LEMMA FailsAside ==
  ASSUME AInv, NEW s \in Session, NEW next, MoveTo(s, next),
         UNCHANGED <<poolVars, dbVars, msgs, ownVars, gameVars>>,
         \/ next = "crash"
         \/ next = "CommitData" /\ place[s] \in {"PunishGet", "PunishWrite"},
         place[s] \in Setup \cup {"PunishGet", "PunishWrite"}
  PROVE  AInv'
<1> USE DEF ownVars, gameVars, MoveTo
<1>1. place' \in [Session -> Place] /\ place'[s] = next /\ Local(s)
  BY DEF AInv, Typed, Local, Place, Uses1, Leaving, Unsent
<1>2. Mine(s) /\ outcome[s] # "saved"
  BY DEF AInv, Mine, Queued, Setup
<1>3. Holds(s)'
  BY <1>1, <1>2 DEF Mine, Holds, Con, Con2, dbVars, poolVars, Setup, Leaving, Uses1, Uses2, Idle1, Idle2
<1>4. Owns(s)'
  BY <1>1, <1>2 DEF Mine, Owns, Con, Con2, AccountRow, BanRow, dbVars, poolVars, Owning
<1>5. Queued(s)'
  BY <1>1, <1>2 DEF Mine, Queued, Setup, Leaving, Unsent
<1> QED
  BY <1>1, <1>3, <1>4, <1>5, QuietStep DEF AInv, Typed, Mine
-----------------------------------------------------------------------------
(* A message is taken from the queue.                                      *)
LEMMA TakeMessage ==
  ASSUME NEW q \in Seq(Msg), q # <<>>, CommitAtEnd(q)
  PROVE  /\ Head(q) \in Msg /\ Tail(q) \in Seq(Msg)
         /\ CommitAtEnd(Tail(q))
         /\ AllPublished(q) => AllPublished(Tail(q))
         /\ NonePublished(q) => NonePublished(Tail(q))
         /\ \A lo, hi \in Int : Ordered(q, lo, hi) /\ Published(Head(q))
              => Head(q).val >= lo /\ Ordered(Tail(q), Head(q).val, hi)
         /\ Head(q).name = "Commit"
              => /\ ~AllPublished(q)
                 /\ \A lo, hi \in Int : Ordered(q, lo, hi) => lo = hi
<1>1. /\ Len(q) \in Nat \ {0} /\ DOMAIN q = 1 .. Len(q)
      /\ Head(q) = q[1] /\ \A i \in 1 .. Len(q) : q[i] \in Msg
  BY EmptySeq, LenProperties, HeadTailProperties, ElementOfSeq
<1>2. /\ Tail(q) \in Seq(Msg) /\ Len(Tail(q)) = Len(q) - 1
      /\ DOMAIN Tail(q) = 1 .. Len(q) - 1
      /\ \A i \in 1 .. Len(q) - 1 : Tail(q)[i] = q[i + 1]
  BY <1>1, HeadTailProperties, LenProperties
<1>3. /\ CommitAtEnd(Tail(q))
      /\ AllPublished(q) => AllPublished(Tail(q))
      /\ NonePublished(q) => NonePublished(Tail(q))
  BY <1>1, <1>2 DEF CommitAtEnd, AllPublished, NonePublished
<1>4. ASSUME NEW lo \in Int, NEW hi \in Int, Ordered(q, lo, hi), Published(Head(q))
      PROVE  Head(q).val >= lo /\ Ordered(Tail(q), Head(q).val, hi)
  <2>1. /\ \A i \in 1 .. Len(q) : q[i].val \in Nat
        /\ lo <= q[1].val /\ q[1].val <= hi
    BY <1>1, <1>4 DEF Ordered, Msg
  <2>2. \A i \in DOMAIN Tail(q) : i + 1 \in DOMAIN q /\ Tail(q)[i] = q[i + 1] /\ i \in Int
    BY <1>1, <1>2
  <2>3. /\ \A i \in DOMAIN Tail(q) : Published(Tail(q)[i]) =>
               q[1].val <= Tail(q)[i].val /\ Tail(q)[i].val <= hi
        /\ \A i, j \in DOMAIN Tail(q) :
               Published(Tail(q)[i]) /\ Published(Tail(q)[j]) /\ i <= j
                 => Tail(q)[i].val <= Tail(q)[j].val
    BY <1>1, <1>4, <2>2 DEF Ordered
  <2>4. q[1].val = hi \/ \E i \in 1 .. Len(q) - 1 : Published(q[i + 1]) /\ q[i + 1].val = hi
    <3>1. CASE lo = hi
      BY <2>1, <3>1
    <3>2. CASE \E i \in 1 .. Len(q) : Published(q[i]) /\ q[i].val = hi
      <4>1. PICK i \in 1 .. Len(q) : Published(q[i]) /\ q[i].val = hi
        BY <3>2
      <4>2. i # 1 => i - 1 \in 1 .. Len(q) - 1 /\ (i - 1) + 1 = i
        BY <1>1
      <4> QED
        BY <4>1, <4>2
    <3> QED
      BY <1>1, <1>4, <3>1, <3>2 DEF Ordered
  <2>5. q[1].val = hi \/ \E i \in DOMAIN Tail(q) : Published(Tail(q)[i]) /\ Tail(q)[i].val = hi
    BY <1>2, <2>4
  <2> QED
    BY <1>1, <2>1, <2>3, <2>5 DEF Ordered
<1>5. ASSUME Head(q).name = "Commit"
      PROVE  ~AllPublished(q) /\ \A lo, hi \in Int : Ordered(q, lo, hi) => lo = hi
  <2>1. ~Published(q[1]) /\ 1 \in DOMAIN q
    BY <1>1, <1>5 DEF Published
  <2>2. ~AllPublished(q) /\ Len(q) = 1
    BY <2>1 DEF CommitAtEnd, AllPublished
  <2>3. \A i \in DOMAIN q : ~Published(q[i])
    BY <1>1, <2>1, <2>2
  <2> QED
    BY <2>2, <2>3 DEF Ordered
<1> QED
  BY <1>1, <1>2, <1>3, <1>4, <1>5

(* The mission publishes a value that is no older than the last one ...    *)
LEMMA AddPublish ==
  ASSUME NEW q \in Seq(Msg), AllPublished(q), NEW v \in Nat
  PROVE  LET r == Append(q, Message("PublishAccount", v, FALSE)) IN
         /\ r \in Seq(Msg)
         /\ AllPublished(r)
         /\ \A lo, hi \in Int : Ordered(q, lo, hi) /\ hi <= v => Ordered(r, lo, v)
<1> DEFINE m == Message("PublishAccount", v, FALSE)
           r == Append(q, m)
<1>1. m \in Msg /\ Published(m) /\ m.val = v
  BY DEF Message, Msg, Published
<1>2. /\ Len(q) \in Nat /\ DOMAIN q = 1 .. Len(q)
      /\ r \in Seq(Msg) /\ DOMAIN r = 1 .. Len(q) + 1
      /\ \A i \in 1 .. Len(q) : r[i] = q[i] /\ q[i] \in Msg
      /\ r[Len(q) + 1] = m
  <2>1. /\ r \in Seq(Msg) /\ Len(r) = Len(q) + 1 /\ r[Len(q) + 1] = m
        /\ \A i \in 1 .. Len(q) : r[i] = q[i]
    <3>1. ASSUME NEW x \in Msg
          PROVE  /\ Append(q, x) \in Seq(Msg) /\ Len(Append(q, x)) = Len(q) + 1
                 /\ Append(q, x)[Len(q) + 1] = x
                 /\ \A i \in 1 .. Len(q) : Append(q, x)[i] = q[i]
      BY AppendProperties
    <3> HIDE DEF m
    <3> QED
      BY <1>1, <3>1
  <2>2. DOMAIN r = 1 .. Len(q) + 1
    BY <2>1, LenProperties
  <2> QED
    BY <2>1, <2>2, LenProperties, ElementOfSeq
<1> HIDE DEF r, m
<1>3. \A i \in DOMAIN r : i \in 1 .. Len(q) \/ i = Len(q) + 1
  BY <1>2
<1>4. AllPublished(r)
  BY <1>1, <1>2, <1>3 DEF AllPublished
<1>5. ASSUME NEW lo \in Int, NEW hi \in Int, Ordered(q, lo, hi), hi <= v
      PROVE  Ordered(r, lo, v)
  <2>1. \A i \in 1 .. Len(q) : q[i].val \in Nat
    BY <1>2 DEF Msg
  <2>2. \A i \in DOMAIN r : Published(r[i]) => lo <= r[i].val /\ r[i].val <= v
    BY <1>1, <1>2, <1>3, <1>5, <2>1 DEF Ordered
  <2>3. ASSUME NEW i \in DOMAIN r, NEW j \in DOMAIN r, Published(r[i]), Published(r[j]), i <= j
        PROVE  r[i].val <= r[j].val
    BY <1>1, <1>2, <1>3, <1>5, <2>1, <2>2, <2>3 DEF Ordered
  <2>4. \E i \in DOMAIN r : Published(r[i]) /\ r[i].val = v
    BY <1>1, <1>2
  <2> QED
    BY <1>5, <2>2, <2>3, <2>4 DEF Ordered
<1> QED
  BY <1>2, <1>4, <1>5 DEF r, m

(* ... and commits the session once.                                       *)
LEMMA AddCommit ==
  ASSUME NEW q \in Seq(Msg), AllPublished(q), NEW punish \in BOOLEAN
  PROVE  LET r == q \o <<Message("Commit", 0, punish)>> IN
         /\ r \in Seq(Msg)
         /\ CommitAtEnd(r)
         /\ NonePublished(q) => NonePublished(r)
         /\ \A lo, hi \in Int : Ordered(q, lo, hi) => Ordered(r, lo, hi)
<1> DEFINE m == Message("Commit", 0, punish)
           r == q \o <<m>>
<1>1. m \in Msg /\ ~Published(m)
  BY DEF Message, Msg, Published
<1>2. /\ Len(q) \in Nat /\ DOMAIN q = 1 .. Len(q)
      /\ r \in Seq(Msg) /\ Len(r) = Len(q) + 1 /\ DOMAIN r = 1 .. Len(q) + 1
      /\ \A i \in 1 .. Len(q) : r[i] = q[i]
      /\ r[Len(q) + 1] = m
  BY <1>1, LenProperties, AppendProperties, AppendIsConcat
<1> HIDE DEF r, m
<1>3. \A i \in DOMAIN r : i \in 1 .. Len(q) \/ i = Len(q) + 1
  BY <1>2
<1>4. /\ \A i \in 1 .. Len(q) : Published(q[i])
      /\ \A i \in DOMAIN r : Published(r[i]) => i \in DOMAIN q /\ r[i] = q[i]
  BY <1>1, <1>2, <1>3 DEF AllPublished
<1>5. CommitAtEnd(r) /\ (NonePublished(q) => NonePublished(r))
  BY <1>1, <1>2, <1>3, <1>4 DEF CommitAtEnd, NonePublished
<1>6. ASSUME NEW lo \in Int, NEW hi \in Int, Ordered(q, lo, hi)
      PROVE  Ordered(r, lo, hi)
  BY <1>2, <1>4, <1>6 DEF Ordered
<1> QED
  BY <1>2, <1>5, <1>6 DEF r, m
-----------------------------------------------------------------------------
(* What Connect, Publish and RemovePlayer of the mission do to a session.  *)
LEMMA ConnectStep ==
  ASSUME AInv, NEW s \in Session, Connect(s)
  PROVE  AInv'
<1> USE DEF Connect, ownVars, MoveTo
<1>1. /\ place' \in [Session -> Place] /\ place'[s] = "borrow" /\ Local(s)
      /\ Mine(s)
  BY DEF AInv, Typed, Local, Place, Uses1, Leaving, Unsent
<1>2. Holds(s)' /\ Owns(s)'
  BY <1>1 DEF Mine, Holds, Owns, Con, Con2, dbVars, poolVars, Owning, Setup, Leaving,
              Uses1, Uses2, Idle1, Idle2
<1>3. Queued(s)'
  BY <1>1 DEF Mine, Queued, Unsent, Leaving, AccountRow, dbVars
<1> QED
  BY <1>1, <1>2, <1>3, QuietStep DEF AInv, Typed, Mine

LEMMA PublishStep ==
  ASSUME AInv, NEW s \in Session, Publish(s)
  PROVE  AInv'
<1> USE DEF Publish, ownVars
<1> DEFINE m == Message("PublishAccount", view[s] + 1, FALSE)
<1>1. /\ msgs[s] \in Seq(Msg) /\ view[s] \in Int /\ view[s] >= 0 /\ val[s] \in Nat
      /\ place[s] \notin Unsent /\ AllPublished(msgs[s]) /\ Mine(s)
  BY DEF AInv, Typed, Sent, Mine, Queued
<1>0. view[s] + 1 \in Nat /\ view[s] <= view[s] + 1 /\ val[s] \in Int
  BY <1>1
<1>2. /\ Append(msgs[s], m) \in Seq(Msg) /\ AllPublished(Append(msgs[s], m))
      /\ Ordered(msgs[s], val[s], view[s]) => Ordered(Append(msgs[s], m), val[s], view[s] + 1)
  BY <1>0, <1>1, AddPublish
<1>3. msgs' = [msgs EXCEPT ![s] = Append(msgs[s], m)]
  BY Zenon DEF PublishAccount
<1> HIDE DEF m
<1>6. /\ msgs' \in [Session -> Seq(Msg)] /\ msgs'[s] = Append(msgs[s], m)
      /\ view' \in [Session -> Int] /\ view'[s] = view[s] + 1 /\ Local(s)
  BY <1>1, <1>2, <1>3 DEF AInv, Typed, Local
<1>4. Holds(s)' /\ Owns(s)'
  BY <1>1 DEF Mine, Holds, Owns, Con, Con2, AccountRow, BanRow, dbVars, poolVars
<1>5. Queued(s)'
  <2>1. CommitAtEnd(Append(msgs[s], m))
    BY <1>2 DEF AllPublished, CommitAtEnd
  <2> QED
    BY <1>0, <1>1, <1>2, <1>6, <2>1 DEF Mine, Queued
<1> QED
  BY <1>4, <1>5, <1>6, QuietStep DEF AInv, Typed, Mine

LEMMA LeaveStep ==
  ASSUME AInv, NEW s \in Session, Leave(s)
  PROVE  AInv'
<1> USE DEF Leave, ownVars
<1>1. PICK active \in {FALSE, Sent(s)} :
        \E punish \in {FALSE, AccountOf[s] \in played'} :
          msgs' = [msgs EXCEPT ![s] =
                     (IF active THEN Append(@, PublishAccount(s, view[s])) ELSE @)
                       \o <<Message("Commit", 0, punish)>>]
  BY Zenon
<1>0. PICK punish \in BOOLEAN :
        msgs' = [msgs EXCEPT ![s] =
                   (IF active THEN Append(@, PublishAccount(s, view[s])) ELSE @)
                     \o <<Message("Commit", 0, punish)>>]
  <2>1. PICK p \in {FALSE, AccountOf[s] \in played'} :
          msgs' = [msgs EXCEPT ![s] =
                     (IF active THEN Append(@, PublishAccount(s, view[s])) ELSE @)
                       \o <<Message("Commit", 0, p)>>]
    BY <1>1, Zenon
  <2>2. p = FALSE \/ p = TRUE
    <3>1. (AccountOf[s] \in played') \in BOOLEAN
      OBVIOUS
    <3> QED
      BY <2>1, <3>1, Zenon
  <2> QED
    BY <2>1, <2>2, Zenon
<1> DEFINE q == IF active THEN Append(msgs[s], PublishAccount(s, view[s])) ELSE msgs[s]
<1>2. /\ msgs[s] \in Seq(Msg) /\ view[s] \in Int /\ val[s] \in Nat
      /\ s \notin gone /\ AllPublished(msgs[s]) /\ Mine(s)
  BY DEF AInv, Typed, Mine, Queued
<1>3. /\ q \in Seq(Msg) /\ AllPublished(q)
      /\ view[s] < 0 /\ NonePublished(msgs[s]) => NonePublished(q)
      /\ Ordered(msgs[s], val[s], view[s]) => Ordered(q, val[s], view[s])
  <2>1. CASE ~active
    <3>1. q = msgs[s]
      BY <2>1, Zenon
    <3> QED
      BY <1>2, <3>1
  <2>2. CASE active
    <3>1. view[s] \in Nat
      <4>1. Sent(s)
        BY <2>2, Zenon
      <4> QED
        BY <1>2, <4>1 DEF Sent
    <3>2. q = Append(msgs[s], Message("PublishAccount", view[s], FALSE))
      BY <2>2, Zenon DEF PublishAccount
    <3> HIDE DEF q, Leave
    <3>3. /\ q \in Seq(Msg) /\ AllPublished(q)
          /\ \A lo, hi \in Int : Ordered(msgs[s], lo, hi) /\ hi <= view[s] => Ordered(q, lo, view[s])
      BY <1>2, <3>1, <3>2, AddPublish
    <3> QED
      BY <1>2, <3>1, <3>3
  <2> QED
    BY <2>1, <2>2, Zenon
<1>4. msgs' = [msgs EXCEPT ![s] = q \o <<Message("Commit", 0, punish)>>]
  BY <1>0
<1> HIDE DEF q
<1> DEFINE r == q \o <<Message("Commit", 0, punish)>>
<1>5. /\ r \in Seq(Msg) /\ CommitAtEnd(r)
      /\ NonePublished(q) => NonePublished(r)
      /\ Ordered(q, val[s], view[s]) => Ordered(r, val[s], view[s])
  BY <1>2, <1>3, AddCommit
<1> HIDE DEF r
<1>6. /\ msgs' \in [Session -> Seq(Msg)] /\ msgs'[s] = r
      /\ gone' \subseteq Session /\ s \in gone' /\ Local(s)
  BY <1>4, <1>5 DEF AInv, Typed, Local, r
<1>7. Holds(s)' /\ Owns(s)'
  BY <1>2 DEF Mine, Holds, Owns, Con, Con2, AccountRow, BanRow, dbVars, poolVars
<1>8. Queued(s)'
  BY <1>2, <1>3, <1>5, <1>6 DEF Mine, Queued, AccountRow, dbVars
<1> QED
  BY <1>6, <1>7, <1>8, QuietStep DEF AInv, Typed, Mine
-----------------------------------------------------------------------------
(* The account goes to the mission.                                        *)
LEMMA SendStep ==
  ASSUME AInv, NEW s \in Session, WSend(s)
  PROVE  AInv'
<1> USE DEF WSend, ownVars, MoveTo, At
<1>1. /\ place' \in [Session -> Place] /\ place'[s] = "serve" /\ Local(s)
      /\ view' \in [Session -> Int] /\ view'[s] = val[s] /\ val[s] \in Nat
      /\ place[s] = "send" /\ Mine(s)
  BY DEF AInv, Typed, Local, Place, Uses1, Leaving, Unsent
<1>2. Holds(s)' /\ Owns(s)'
  BY <1>1 DEF Mine, Holds, Owns, Con, Con2, AccountRow, BanRow, dbVars, poolVars, Owning,
              Setup, Leaving, Uses1, Uses2, Idle1, Idle2
<1>3. NonePublished(msgs[s]) /\ CommitAtEnd(msgs[s]) /\ (s \notin gone => AllPublished(msgs[s])) /\ outcome[s] # "saved"
  BY <1>1 DEF Mine, Queued, Unsent, Setup
<1>4. Ordered(msgs[s], val[s], val[s])
  BY <1>1, <1>3 DEF Ordered, NonePublished
<1>5. Queued(s)'
  BY <1>1, <1>3, <1>4 DEF Queued, Unsent, Leaving, Setup
<1> QED
  BY <1>1, <1>2, <1>5, QuietStep DEF AInv, Typed, Mine

(* Commit is the last message: what was published before has been written. *)
LEMMA CommitMsgStep ==
  ASSUME AInv, NEW s \in Session, WCommitMsg(s)
  PROVE  AInv'
<1> USE DEF ownVars, gameVars
<1>0. PICK next \in {"PunishGet", "Return2"} :
        /\ place[s] = "serve" /\ msgs[s] # <<>> /\ Head(msgs[s]).name = "Commit"
        /\ msgs' = [msgs EXCEPT ![s] = Tail(msgs[s])]
        /\ place' = [place EXCEPT ![s] = next]
        /\ UNCHANGED <<poolVars, dbVars, ownVars, gameVars>>
  BY Zenon DEF WCommitMsg, MoveTo, At
<1>1. /\ place' \in [Session -> Place] /\ place'[s] \in {"PunishGet", "Return2"} /\ Local(s)
      /\ place[s] = "serve" /\ Mine(s)
  BY <1>0 DEF AInv, Typed, Local, Place, Uses1, Leaving, Unsent
<1>2. /\ msgs[s] \in Seq(Msg) /\ msgs[s] # <<>> /\ val[s] \in Int /\ view[s] \in Int
      /\ CommitAtEnd(msgs[s]) /\ (s \notin gone => AllPublished(msgs[s])) /\ Ordered(msgs[s], val[s], view[s])
  BY <1>0, <1>1 DEF AInv, Typed, Mine, Queued
<1>3. /\ Tail(msgs[s]) \in Seq(Msg) /\ CommitAtEnd(Tail(msgs[s]))
      /\ NonePublished(msgs[s]) => NonePublished(Tail(msgs[s]))
      /\ s \in gone /\ val[s] = view[s]
  BY <1>0, <1>2, TakeMessage
<1>4. msgs' \in [Session -> Seq(Msg)] /\ msgs'[s] = Tail(msgs[s])
  BY <1>0, <1>3 DEF AInv, Typed
<1>5. Holds(s)' /\ Owns(s)'
  BY <1>0, <1>1 DEF Mine, Holds, Owns, Con, Con2, AccountRow, BanRow, dbVars, poolVars, Owning,
              Setup, Leaving, Uses1, Uses2, Idle1, Idle2
<1>6. Queued(s)'
  BY <1>0, <1>1, <1>3, <1>4 DEF Mine, Queued, Unsent, Leaving, Setup
<1> QED
  BY <1>0, <1>1, <1>4, <1>5, <1>6, QuietStep DEF AInv, Typed, Mine
-----------------------------------------------------------------------------
(* The queue after a poll, while the mission has not been sent the account. *)
LEMMA PollQueue ==
  ASSUME AInv, NEW s \in Session, WPoll(s)
  PROVE  /\ msgs' \in [Session -> Seq(Msg)]
         /\ \A t \in Session \ {s} : msgs'[t] = msgs[t]
         /\ CommitAtEnd(msgs'[s]) /\ NonePublished(msgs'[s])
         /\ s \notin gone => AllPublished(msgs'[s])
<1>1. /\ place[s] \in {"got", "again", "hopeless"}
      /\ msgs' = [msgs EXCEPT ![s] = IF msgs[s] = <<>> THEN msgs[s] ELSE Tail(msgs[s])]
  BY Zenon DEF WPoll
<1>2. /\ msgs \in [Session -> Seq(Msg)] /\ msgs[s] \in Seq(Msg)
      /\ CommitAtEnd(msgs[s]) /\ NonePublished(msgs[s])
      /\ s \notin gone => AllPublished(msgs[s])
  BY <1>1 DEF AInv, Typed, Mine, Queued, Unsent
<1>3. CASE msgs[s] = <<>>
  BY <1>1, <1>2, <1>3
<1>4. CASE msgs[s] # <<>>
  <2>1. /\ Tail(msgs[s]) \in Seq(Msg) /\ CommitAtEnd(Tail(msgs[s]))
        /\ NonePublished(Tail(msgs[s]))
        /\ s \notin gone => AllPublished(Tail(msgs[s]))
    BY <1>2, <1>4, TakeMessage
  <2> QED
    BY <1>1, <1>2, <1>4, <2>1
<1> QED
  BY <1>3, <1>4

(* A poll that does not end the thread.                                    *)
LEMMA PollStep ==
  ASSUME AInv, NEW s \in Session, WPoll(s), UNCHANGED poolVars,
         NextTry(s) \/ (place[s] = "got" /\ GivesUp(s))
  PROVE  AInv'
<1> USE DEF ownVars, gameVars
<1>1. /\ place[s] \in {"got", "again", "hopeless"}
      /\ UNCHANGED <<dbVars, ownVars, gameVars>>
  BY Zenon DEF WPoll
<1>2. /\ Mine(s) /\ place \in [Session -> Place] /\ outcome[s] # "saved" /\ view[s] < 0
  BY <1>1 DEF AInv, Typed, Mine, Queued, Unsent
<1>3. PICK next \in {"CreateAccount", "borrow", "crash", "unborrow2"} :
        /\ place' = [place EXCEPT ![s] = next]
        /\ next \in {"CreateAccount", "unborrow2"} => place[s] = "got"
  BY <1>1 DEF NextTry, GivesUp, MoveTo
<1>4. /\ place' \in [Session -> Place] /\ place'[s] = next
      /\ \A t \in Session \ {s} : place'[t] = place[t]
  BY <1>2, <1>3 DEF Place, Uses1, Setup, Unsent
<1>5. Local(s)
  BY <1>1, <1>4, PollQueue DEF Local
<1>6. Holds(s)' /\ Owns(s)'
  BY <1>1, <1>2, <1>3, <1>4 DEF Mine, Holds, Owns, Con, Con2, dbVars, poolVars, Owning,
              Setup, Leaving, Uses1, Uses2, Idle1, Idle2
<1>7. Queued(s)'
  BY <1>1, <1>2, <1>4, PollQueue DEF Queued, Leaving
<1> QED
  BY <1>1, <1>4, <1>5, <1>6, <1>7, PollQueue, QuietStep DEF AInv, Typed, Mine

(* No connection is idle: another try, or none.                            *)
LEMMA BorrowFailsStep ==
  ASSUME AInv, NEW s \in Session, BorrowFails(s), UNCHANGED <<msgs, ownVars, gameVars>>,
         place[s] \in {"borrow", "borrow2"}
  PROVE  AInv'
<1> USE DEF ownVars, gameVars
<1>1. UNCHANGED <<poolVars, dbVars>> /\ Mine(s) /\ view[s] < 0 /\ outcome[s] # "saved"
  BY DEF BorrowFails, BorrowUnavailable, BorrowImpossible, poolVars, AInv, Mine, Queued, Unsent
<1>2. PICK next \in {"again", "hopeless"} : place' = [place EXCEPT ![s] = next]
  BY DEF BorrowFails, MoveTo
<1>3. place' \in [Session -> Place] /\ place'[s] = next /\ Local(s)
  BY <1>2 DEF AInv, Typed, Local, Place, Uses1, Leaving, Unsent
<1>4. Holds(s)' /\ Owns(s)'
  BY <1>1, <1>3 DEF Mine, Holds, Owns, Con, Con2, dbVars, poolVars, Owning,
              Setup, Leaving, Uses1, Uses2, Idle1, Idle2
<1>5. Queued(s)'
  BY <1>1, <1>3 DEF Mine, Queued, Unsent, Leaving, Setup
<1> QED
  BY <1>1, <1>3, <1>4, <1>5, QuietStep DEF AInv, Typed, Mine
-----------------------------------------------------------------------------
(* A statement on the account locks its row and may write it: what was     *)
(* committed stays, and nobody else's rows are touched.                    *)
LEMMA AccountStatement ==
  ASSUME AInv, NEW s \in Session, One(s) \in lent, NEW v \in Nat,
         AccountRow(s).val <= v, Runs(AccountRow(s), Con(s)),
         account' = [account EXCEPT ![AccountOf[s]] =
                       [val |-> AccountRow(s).val, lock |-> Con(s), tx |-> v]],
         UNCHANGED <<poolVars, ban>>
  PROVE  /\ Counted' /\ built' = "ready" /\ PoolAside(s) /\ Rows'
         /\ RowsAside(s, account, account') /\ RowsAside(s, ban, ban')
         /\ \A a \in Account : account'[a].val >= account[a].val
         /\ account' \in [Account -> [val : Nat, lock : Lock, tx : Nat]]
         /\ account'[AccountOf[s]] = [val |-> AccountRow(s).val, lock |-> Con(s), tx |-> v]
         /\ \A a \in Account \ {AccountOf[s]} : account'[a] = account[a]
         /\ Con(s) # Con2(s) \/ Two(s) \notin lent
<1>1. /\ Con(s) \in Conn /\ Con(s) \in borrowed /\ Con(s) # NoConn
      /\ \A h \in lent : h # One(s) => ptr[h] # Con(s)
      /\ \A h \in lent : ptr[h] # NoConn
  BY LentApart DEF Con
<1>2. /\ AccountOf[s] \in Account /\ Two(s) # One(s)
      /\ \A t \in Session \ {s} : One(t) # One(s) /\ Two(t) # One(s)
  BY Holders
<1>3. /\ account \in [Account -> [val : Nat, lock : Lock, tx : Nat]]
      /\ AccountRow(s) = account[AccountOf[s]] /\ AccountRow(s).lock \in {NoConn, Con(s)}
  BY DEF AInv, Typed, AccountRow, Runs, Free
<1>4. Counted' /\ built' = "ready" /\ PoolAside(s)
  BY PoolStands DEF poolVars
<1>5. /\ account' \in [Account -> [val : Nat, lock : Lock, tx : Nat]]
      /\ account'[AccountOf[s]] = [val |-> AccountRow(s).val, lock |-> Con(s), tx |-> v]
      /\ \A a \in Account \ {AccountOf[s]} : account'[a] = account[a]
  BY <1>1, <1>2, <1>3 DEF Lock
<1>6. Rows'
  BY <1>1, <1>2, <1>3, <1>5 DEF AInv, Rows, poolVars
<1>7. RowsAside(s, account, account') /\ RowsAside(s, ban, ban')
  BY <1>1, <1>2, <1>3, <1>5 DEF RowsAside
<1>8. \A a \in Account : account'[a].val >= account[a].val
  BY <1>2, <1>3, <1>5
<1> QED
  BY <1>1, <1>2, <1>4, <1>5, <1>6, <1>7, <1>8 DEF Con2

(* The same of a statement on the ban data.                                *)
LEMMA BanStatement ==
  ASSUME AInv, NEW s \in Session, Two(s) \in lent, NEW n \in Ditch,
         n = BanRow(s).val \/ OneStep(BanRow(s).val, n), Runs(BanRow(s), Con2(s)),
         ban' = [ban EXCEPT ![AccountOf[s]] =
                   [val |-> BanRow(s).val, lock |-> Con2(s), tx |-> n]],
         UNCHANGED <<poolVars, account>>
  PROVE  /\ Counted' /\ built' = "ready" /\ PoolAside(s) /\ Rows'
         /\ RowsAside(s, account, account') /\ RowsAside(s, ban, ban')
         /\ \A a \in Account : account'[a].val >= account[a].val
         /\ ban' \in [Account -> [val : Ditch, lock : Lock, tx : Ditch]]
         /\ ban'[AccountOf[s]] = [val |-> BanRow(s).val, lock |-> Con2(s), tx |-> n]
         /\ \A a \in Account \ {AccountOf[s]} : ban'[a] = ban[a]
         /\ Con(s) # Con2(s) \/ One(s) \notin lent
<1>1. /\ Con2(s) \in Conn /\ Con2(s) \in borrowed /\ Con2(s) # NoConn
      /\ \A h \in lent : h # Two(s) => ptr[h] # Con2(s)
      /\ \A h \in lent : ptr[h] # NoConn
  BY LentApart DEF Con2
<1>2. /\ AccountOf[s] \in Account /\ Two(s) # One(s)
      /\ \A t \in Session \ {s} : One(t) # Two(s) /\ Two(t) # Two(s)
  BY Holders
<1>3. /\ account \in [Account -> [val : Nat, lock : Lock, tx : Nat]]
      /\ ban \in [Account -> [val : Ditch, lock : Lock, tx : Ditch]]
      /\ BanRow(s) = ban[AccountOf[s]] /\ BanRow(s).lock \in {NoConn, Con2(s)}
  BY DEF AInv, Typed, BanRow, Runs, Free
<1>4. Counted' /\ built' = "ready" /\ PoolAside(s)
  BY PoolStands DEF poolVars
<1>5. /\ ban' \in [Account -> [val : Ditch, lock : Lock, tx : Ditch]]
      /\ ban'[AccountOf[s]] = [val |-> BanRow(s).val, lock |-> Con2(s), tx |-> n]
      /\ \A a \in Account \ {AccountOf[s]} : ban'[a] = ban[a]
  BY <1>1, <1>2, <1>3 DEF Lock
<1>6. Rows'
  BY <1>1, <1>2, <1>3, <1>5 DEF AInv, Rows, poolVars
<1>7. RowsAside(s, account, account') /\ RowsAside(s, ban, ban')
  BY <1>1, <1>2, <1>3, <1>5 DEF RowsAside
<1>8. \A a \in Account : account'[a].val >= account[a].val
  BY <1>3
<1> QED
  BY <1>1, <1>2, <1>4, <1>5, <1>6, <1>7, <1>8 DEF Con

LEMMA RowShapes ==
  ASSUME AInv, NEW s \in Session
  PROVE  /\ AccountRow(s) \in [val : Nat, lock : Lock, tx : Nat]
         /\ BanRow(s) \in [val : Ditch, lock : Lock, tx : Ditch]
         /\ \A c : Locked(AccountRow(s), c) =
                     [val |-> AccountRow(s).val, lock |-> c, tx |-> AccountRow(s).tx]
         /\ \A c : Locked(BanRow(s), c) =
                     [val |-> BanRow(s).val, lock |-> c, tx |-> BanRow(s).tx]
         /\ \A c, v : Locked(Written(AccountRow(s), v), c) =
                     [val |-> AccountRow(s).val, lock |-> c, tx |-> v]
         /\ \A c, v : Locked(Written(BanRow(s), v), c) =
                     [val |-> BanRow(s).val, lock |-> c, tx |-> v]
         /\ AccountRow(s).val <= AccountRow(s).tx
         /\ BanRow(s).tx = BanRow(s).val \/ OneStep(BanRow(s).val, BanRow(s).tx)
         /\ BanRow(s).lock = NoConn => BanRow(s).tx = BanRow(s).val
<1>1. /\ AccountRow(s) \in [val : Nat, lock : Lock, tx : Nat]
      /\ BanRow(s) \in [val : Ditch, lock : Lock, tx : Ditch]
  BY Holders DEF AInv, Typed, AccountRow, BanRow
<1>2. /\ AccountRow(s).val <= AccountRow(s).tx
      /\ BanRow(s).tx = BanRow(s).val \/ OneStep(BanRow(s).val, BanRow(s).tx)
      /\ BanRow(s).lock = NoConn => BanRow(s).tx = BanRow(s).val
  BY Holders DEF AInv, Rows, AccountRow, BanRow
<1>3. \A c : Locked(AccountRow(s), c) =
        [val |-> AccountRow(s).val, lock |-> c, tx |-> AccountRow(s).tx]
  BY <1>1 DEF Locked
<1>4. \A c : Locked(BanRow(s), c) =
        [val |-> BanRow(s).val, lock |-> c, tx |-> BanRow(s).tx]
  BY <1>1 DEF Locked
<1>5. \A c, v : Locked(Written(AccountRow(s), v), c) =
        [val |-> AccountRow(s).val, lock |-> c, tx |-> v]
  <2>1. ASSUME NEW v
        PROVE  Written(AccountRow(s), v) = [val |-> AccountRow(s).val, lock |-> AccountRow(s).lock, tx |-> v]
    BY <1>1 DEF Written
  <2>2. ASSUME NEW v, NEW c
        PROVE  Locked([val |-> AccountRow(s).val, lock |-> AccountRow(s).lock, tx |-> v], c) =
                 [val |-> AccountRow(s).val, lock |-> c, tx |-> v]
    BY DEF Locked
  <2> QED
    BY <2>1, <2>2
<1>6. \A c, v : Locked(Written(BanRow(s), v), c) =
        [val |-> BanRow(s).val, lock |-> c, tx |-> v]
  <2>1. ASSUME NEW v
        PROVE  Written(BanRow(s), v) = [val |-> BanRow(s).val, lock |-> BanRow(s).lock, tx |-> v]
    BY <1>1 DEF Written
  <2>2. ASSUME NEW v, NEW c
        PROVE  Locked([val |-> BanRow(s).val, lock |-> BanRow(s).lock, tx |-> v], c) =
                 [val |-> BanRow(s).val, lock |-> c, tx |-> v]
    BY DEF Locked
  <2> QED
    BY <2>1, <2>2
<1> QED
  BY <1>1, <1>2, <1>3, <1>4, <1>5, <1>6

(* A statement that succeeds, on the account and on the ban data.          *)
LEMMA AccountMoves ==
  ASSUME AInv, NEW s \in Session, NEW v \in Nat, AccountRow(s).val <= v,
         Runs(AccountRow(s), Con(s)),
         account' = [account EXCEPT ![AccountOf[s]] =
                       [val |-> AccountRow(s).val, lock |-> Con(s), tx |-> v]],
         UNCHANGED <<poolVars, ban, gameVars, left, outcome>>,
         place[s] \in {"CreateAccount", "GetAccount", "serve"},
         NEW next \in {"GetAccount", "CreateBanData", "serve"}, MoveTo(s, next),
         NEW w \in Nat, val' = [val EXCEPT ![s] = w], next # "GetAccount" => w = v,
         msgs' \in [Session -> Seq(Msg)],
         \A t \in Session \ {s} : msgs'[t] = msgs[t],
         Queued(s)'
  PROVE  AInv'
<1> USE DEF gameVars
<1>1. /\ Mine(s) /\ One(s) \in lent /\ Two(s) \in lent
  BY DEF AInv, Mine, Holds, Uses1, Uses2, Setup
<1>2. /\ place' \in [Session -> Place] /\ place'[s] = next
      /\ val' \in [Session -> Nat] /\ val'[s] = w /\ Local(s)
  BY DEF MoveTo, AInv, Typed, Local, Place, Uses1, Unsent, Setup
<1>3. /\ Counted' /\ built' = "ready" /\ PoolAside(s) /\ Rows'
      /\ RowsAside(s, account, account') /\ RowsAside(s, ban, ban')
      /\ \A a \in Account : account'[a].val >= account[a].val
      /\ account' \in [Account -> [val : Nat, lock : Lock, tx : Nat]]
      /\ account'[AccountOf[s]] = [val |-> AccountRow(s).val, lock |-> Con(s), tx |-> v]
      /\ \A a \in Account \ {AccountOf[s]} : account'[a] = account[a]
      /\ Con(s) # Con2(s)
  BY <1>1, AccountStatement
<1>4. Holds(s)'
  BY <1>1, <1>2, <1>3 DEF Mine, Holds, Con, Con2, poolVars, Uses1, Uses2, Idle1, Idle2, Setup
<1>5. Owns(s)'
  BY <1>2, <1>3 DEF Owns, Owning, Con, AccountRow, poolVars
<1>6. Typed'
  BY <1>2, <1>3 DEF AInv, Typed
<1> QED
  BY <1>2, <1>3, <1>4, <1>5, <1>6, SessionMoves DEF Mine

LEMMA BanMoves ==
  ASSUME AInv, NEW s \in Session, NEW n \in Ditch,
         n = BanRow(s).val \/ OneStep(BanRow(s).val, n), Runs(BanRow(s), Con2(s)),
         ban' = [ban EXCEPT ![AccountOf[s]] =
                   [val |-> BanRow(s).val, lock |-> Con2(s), tx |-> n]],
         UNCHANGED <<poolVars, account, gameVars, msgs, val, outcome>>,
         NEW next, MoveTo(s, next),
         \/ /\ place[s] \in {"CreateBanData", "GetBanData", "WriteBanData"}
            /\ next \in {"GetBanData", "WriteBanData", "CommitBanData"}
         \/ /\ place[s] \in {"PunishGet", "PunishWrite"}
            /\ next \in {"PunishWrite", "PunishCommit"},
         left' \in [Session -> Ditch], \A t \in Session \ {s} : left'[t] = left[t],
         next \in {"GetBanData", "WriteBanData", "PunishWrite"} => n = BanRow(s).val,
         next \in {"WriteBanData", "PunishWrite"} =>
           left'[s] = BanRow(s).val \/ OneStep(BanRow(s).val, left'[s])
  PROVE  AInv'
<1> USE DEF gameVars
<1>1. /\ Mine(s) /\ One(s) \in lent /\ Two(s) \in lent
  BY DEF AInv, Mine, Holds, Uses1, Uses2, Setup, Leaving
<1>2. /\ place' \in [Session -> Place] /\ place'[s] = next
      /\ Local(s)
  BY DEF MoveTo, AInv, Typed, Local, Place, Uses1, Unsent, Setup, Leaving
<1>3. /\ Counted' /\ built' = "ready" /\ PoolAside(s) /\ Rows'
      /\ RowsAside(s, account, account') /\ RowsAside(s, ban, ban')
      /\ \A a \in Account : account'[a].val >= account[a].val
      /\ ban' \in [Account -> [val : Ditch, lock : Lock, tx : Ditch]]
      /\ ban'[AccountOf[s]] = [val |-> BanRow(s).val, lock |-> Con2(s), tx |-> n]
      /\ \A a \in Account \ {AccountOf[s]} : ban'[a] = ban[a]
      /\ Con(s) # Con2(s)
  BY <1>1, BanStatement
<1>4. Holds(s)'
  BY <1>1, <1>2, <1>3 DEF Mine, Holds, Con, Con2, poolVars, Uses1, Uses2, Idle1, Idle2, Setup, Leaving
<1>5. Owns(s)'
  BY <1>1, <1>2, <1>3 DEF Mine, Owns, Owning, Con, Con2, AccountRow, BanRow, poolVars
<1>6. Queued(s)'
  BY <1>1, <1>2 DEF Mine, Queued, Unsent, Setup, Leaving, AccountRow
<1>7. Typed'
  BY <1>2, <1>3 DEF AInv, Typed
<1> QED
  BY <1>2, <1>3, <1>4, <1>5, <1>6, <1>7, SessionMoves DEF Mine

(* Reading the account and the ban data, and writing them.                 *)
LEMMA CreateAccountStep ==
  ASSUME AInv, NEW s \in Session, WCreateAccount(s)
  PROVE  AInv'
<1> USE DEF WCreateAccount, At, ownVars, gameVars
<1>1. CASE StatementFails(s, AccountRow(s), Con(s), "crash")
  BY <1>1, FailsAside DEF StatementFails, Setup
<1>2. CASE OnAccount(s, AccountRow(s)) /\ MoveTo(s, "GetAccount") /\ UNCHANGED <<msgs, ownVars>>
  <2>1. Queued(s)'
    BY <1>2 DEF OnAccount, MoveTo, AInv, Typed, Mine, Queued, Unsent, Setup, Leaving
  <2>2. val[s] \in Nat /\ val' = [val EXCEPT ![s] = val[s]]
    BY <1>2 DEF AInv, Typed
  <2> QED
    BY <1>2, <2>1, <2>2, RowShapes, AccountMoves DEF OnAccount, AInv, Typed
<1> QED
  BY <1>1, <1>2

LEMMA GetAccountStep ==
  ASSUME AInv, NEW s \in Session, WGetAccount(s)
  PROVE  AInv'
<1> USE DEF WGetAccount, At, ownVars, gameVars
<1>1. CASE StatementFails(s, AccountRow(s), Con(s), "crash")
  BY <1>1, FailsAside DEF StatementFails, Setup
<1>2. CASE /\ OnAccount(s, AccountRow(s))
           /\ val' = [val EXCEPT ![s] = AccountRow(s).tx]
           /\ MoveTo(s, "CreateBanData")
           /\ UNCHANGED <<msgs, left, outcome>>
  <2>1. Queued(s)'
    BY <1>2 DEF OnAccount, MoveTo, AInv, Typed, Mine, Queued, Unsent, Setup, Leaving
  <2> QED
    BY <1>2, <2>1, RowShapes, AccountMoves DEF OnAccount, AInv, Typed
<1> QED
  BY <1>1, <1>2

LEMMA PublishedStep ==
  ASSUME AInv, NEW s \in Session, WPublish(s)
  PROVE  AInv'
<1> USE DEF WPublish, At, ownVars, gameVars
<1> DEFINE m == Head(msgs[s])
<1>1. /\ place[s] = "serve" /\ msgs[s] # <<>> /\ m.name = "PublishAccount"
      /\ msgs' = [msgs EXCEPT ![s] = Tail(msgs[s])]
      /\ val' = [val EXCEPT ![s] = m.val]
      /\ UNCHANGED <<left, outcome>>
  OBVIOUS
<1> HIDE DEF WPublish, m
<1>2. /\ Mine(s) /\ msgs[s] \in Seq(Msg) /\ CommitAtEnd(msgs[s])
      /\ s \notin gone => AllPublished(msgs[s])
      /\ Ordered(msgs[s], val[s], view[s]) /\ outcome[s] # "saved"
      /\ val[s] \in Int /\ view[s] \in Int
  <2>1. Mine(s) /\ msgs[s] \in Seq(Msg) /\ val[s] \in Int /\ view[s] \in Int
    BY DEF AInv, Typed
  <2> QED
    BY <1>1, <2>1 DEF Mine, Queued
<1>3. /\ m \in Msg /\ Tail(msgs[s]) \in Seq(Msg) /\ CommitAtEnd(Tail(msgs[s]))
      /\ s \notin gone => AllPublished(Tail(msgs[s]))
      /\ NonePublished(msgs[s]) => NonePublished(Tail(msgs[s]))
      /\ m.val >= val[s] /\ Ordered(Tail(msgs[s]), m.val, view[s])
  BY <1>1, <1>2, TakeMessage DEF Published, m
<1>4. /\ msgs' \in [Session -> Seq(Msg)] /\ msgs'[s] = Tail(msgs[s])
      /\ \A t \in Session \ {s} : msgs'[t] = msgs[t]
      /\ m.val \in Nat /\ val'[s] = m.val /\ val' \in [Session -> Nat]
  BY <1>1, <1>3 DEF AInv, Typed, Msg
<1>5. CASE OnAccount(s, Written(AccountRow(s), m.val)) /\ UNCHANGED place
  <2>0. MoveTo(s, "serve")
    BY <1>1, <1>5 DEF MoveTo, AInv, Typed
  <2>1. /\ UNCHANGED <<gameVars, poolVars, ban>>
        /\ Runs(AccountRow(s), Con(s))
        /\ account' = [account EXCEPT ![AccountOf[s]] =
             [val |-> AccountRow(s).val, lock |-> Con(s), tx |-> m.val]]
    <3>1. Locked(Written(AccountRow(s), m.val), Con(s)) =
            [val |-> AccountRow(s).val, lock |-> Con(s), tx |-> m.val]
      BY RowShapes
    <3> QED
      BY <1>5, <3>1, Zenon DEF OnAccount
  <2>2. Queued(s)'
    BY <1>1, <1>2, <1>3, <1>4, <1>5, <2>1 DEF Mine, Queued, Unsent, Setup, Leaving
  <2>3. AccountRow(s).val <= m.val
    <3>1. AccountRow(s).tx = val[s]
      BY <1>1, <1>2, <2>1 DEF Mine, Owns, Owning, Runs
    <3> QED
      BY <1>2, <1>3, <1>4, <3>1, RowShapes
  <2> QED
    BY <1>1, <1>4, <2>0, <2>1, <2>2, <2>3, AccountMoves
<1>6. CASE MoveTo(s, "crash") /\ UNCHANGED <<poolVars, dbVars, gameVars>>
  <2>1. place' \in [Session -> Place] /\ place'[s] = "crash" /\ Local(s)
    BY <1>1, <1>4, <1>6 DEF MoveTo, AInv, Typed, Local, Place
  <2>2. Holds(s)' /\ Owns(s)'
    BY <1>2, <1>6, <2>1 DEF Mine, Holds, Owns, Con, Con2, dbVars, poolVars, Owning,
                            Setup, Leaving, Uses1, Uses2, Idle1, Idle2
  <2>3. Queued(s)'
    BY <1>1, <1>2, <1>3, <1>4, <1>6, <2>1 DEF Mine, Queued, Unsent, Setup, Leaving
  <2> QED
    BY <1>1, <1>4, <1>6, <2>1, <2>2, <2>3, QuietStep DEF AInv, Typed, Mine
<1> QED
  BY <1>5, <1>6, Zenon DEF WPublish, m

(* What the ban row holds where no transaction of the thread has touched it, *)
(* and what a pardon and a punishment make of the counter.                 *)
LEMMA UntouchedBan ==
  ASSUME AInv, NEW s \in Session, place[s] \in Idle2, Runs(BanRow(s), Con2(s))
  PROVE  BanRow(s).tx = BanRow(s).val
<1>1. BanRow(s).lock # Con2(s)
  BY Holders DEF AInv, Mine, Holds, BanRow
<1> QED
  BY <1>1, RowShapes DEF Runs, Free

LEMMA CounterMoves ==
  ASSUME NEW n \in Ditch
  PROVE  /\ Punished(n) \in Ditch /\ OneStep(n, Punished(n))
         /\ \A banned \in BOOLEAN :
              /\ Forgiven(n, banned) \in Ditch
              /\ Forgiven(n, banned) = n \/ OneStep(n, Forgiven(n, banned))
BY DEF Ditch, Punished, Forgiven, OneStep

LEMMA CreateBanDataStep ==
  ASSUME AInv, NEW s \in Session, WCreateBanData(s)
  PROVE  AInv'
<1> USE DEF WCreateBanData, At, ownVars, gameVars
<1>1. CASE StatementFails(s, BanRow(s), Con2(s), "crash")
  BY <1>1, FailsAside DEF StatementFails, Setup
<1>2. CASE OnBan(s, BanRow(s)) /\ MoveTo(s, "GetBanData") /\ UNCHANGED <<msgs, ownVars>>
  <2>1. left' \in [Session -> Ditch] /\ left' = left /\ left'[s] \in Ditch
    BY <1>2 DEF AInv, Typed
  <2>2. BanRow(s).tx = BanRow(s).val
    BY <1>2, UntouchedBan DEF OnBan, Idle2
  <2>3. /\ UNCHANGED <<poolVars, account, gameVars, msgs, val, outcome>>
        /\ Runs(BanRow(s), Con2(s)) /\ MoveTo(s, "GetBanData")
        /\ ban' = [ban EXCEPT ![AccountOf[s]] =
                     [val |-> BanRow(s).val, lock |-> Con2(s), tx |-> BanRow(s).tx]]
    <3>1. Locked(BanRow(s), Con2(s)) =
            [val |-> BanRow(s).val, lock |-> Con2(s), tx |-> BanRow(s).tx]
      BY RowShapes
    <3> QED
      BY <1>2, <3>1, Zenon DEF OnBan
  <2>4. BanRow(s).tx \in Ditch /\ (BanRow(s).tx = BanRow(s).val \/ OneStep(BanRow(s).val, BanRow(s).tx))
    BY <2>1, <2>2, RowShapes
  <2>5. place[s] = "CreateBanData"
    OBVIOUS
  <2> HIDE DEF WCreateBanData
  <2> QED
    BY <2>1, <2>2, <2>3, <2>4, <2>5, BanMoves
<1> QED
  BY <1>1, <1>2

LEMMA GetBanDataStep ==
  ASSUME AInv, NEW s \in Session, WGetBanData(s)
  PROVE  AInv'
<1> USE DEF At, ownVars, gameVars
<1>0. place[s] = "GetBanData"
  BY DEF WGetBanData
<1>1. CASE StatementFails(s, BanRow(s), Con2(s), "crash")
  BY <1>0, <1>1, FailsAside DEF StatementFails, Setup
<1>2. CASE OnBan(s, BanRow(s)) /\ ~StatementFails(s, BanRow(s), Con2(s), "crash")
  <2>1. /\ BanRow(s).tx = BanRow(s).val /\ BanRow(s).tx \in Ditch
    BY <1>0, <1>2, RowShapes DEF OnBan, Runs, AInv, Mine, Owns
  <2>2. PICK next \in {"WriteBanData", "CommitBanData"}, w \in Ditch :
          /\ MoveTo(s, next) /\ left' = [left EXCEPT ![s] = w]
          /\ next = "WriteBanData" => w = BanRow(s).val \/ OneStep(BanRow(s).val, w)
    <3>1. CASE rejoin[s]
      BY <1>2, <2>1, <3>1, CounterMoves DEF WGetBanData
    <3>2. CASE ~rejoin[s]
      BY <1>2, <2>1, <3>2 DEF WGetBanData
    <3> QED
      BY <3>1, <3>2
  <2>3. UNCHANGED <<msgs, val, outcome>>
    BY <1>2, Zenon DEF WGetBanData
  <2>4. /\ left' \in [Session -> Ditch] /\ left'[s] = w
        /\ \A t \in Session \ {s} : left'[t] = left[t]
    BY <2>2 DEF AInv, Typed
  <2> QED
    BY <1>0, <1>2, <2>1, <2>2, <2>3, <2>4, RowShapes, BanMoves DEF OnBan
<1> QED
  BY <1>1, <1>2, Zenon DEF WGetBanData

LEMMA WriteBanDataStep ==
  ASSUME AInv, NEW s \in Session, WWriteBanData(s)
  PROVE  AInv'
<1> USE DEF WWriteBanData, At, ownVars, gameVars
<1>1. CASE StatementFails(s, BanRow(s), Con2(s), "crash")
  BY <1>1, FailsAside DEF StatementFails, Setup
<1>2. CASE /\ OnBan(s, Written(BanRow(s), left[s])) /\ MoveTo(s, "CommitBanData")
           /\ UNCHANGED <<msgs, ownVars>>
  <2>1. left' \in [Session -> Ditch] /\ left' = left /\ left'[s] \in Ditch
    BY <1>2 DEF AInv, Typed
  <2>2. left[s] = BanRow(s).val \/ OneStep(BanRow(s).val, left[s])
    BY <1>2 DEF OnBan, Runs, AInv, Mine, Owns
  <2>3. /\ UNCHANGED <<poolVars, account, gameVars, msgs, val, outcome>>
        /\ Runs(BanRow(s), Con2(s)) /\ MoveTo(s, "CommitBanData")
        /\ ban' = [ban EXCEPT ![AccountOf[s]] =
                     [val |-> BanRow(s).val, lock |-> Con2(s), tx |-> left[s]]]
    <3>1. Locked(Written(BanRow(s), left[s]), Con2(s)) =
            [val |-> BanRow(s).val, lock |-> Con2(s), tx |-> left[s]]
      BY RowShapes
    <3> QED
      BY <1>2, <3>1, Zenon DEF OnBan
  <2>4. left[s] \in Ditch /\ (left[s] = BanRow(s).val \/ OneStep(BanRow(s).val, left[s]))
    BY <2>1, <2>2, RowShapes
  <2>5. place[s] = "WriteBanData"
    OBVIOUS
  <2> HIDE DEF WWriteBanData
  <2> QED
    BY <2>1, <2>2, <2>3, <2>4, <2>5, BanMoves
<1> QED
  BY <1>1, <1>2

(* The punishment.                                                         *)
LEMMA PunishGetStep ==
  ASSUME AInv, NEW s \in Session, WPunishGet(s)
  PROVE  AInv'
<1> USE DEF WPunishGet, At, ownVars, gameVars
<1>1. CASE StatementFails(s, BanRow(s), Con2(s), "CommitData")
  BY <1>1, FailsAside DEF StatementFails
<1>2. CASE /\ OnBan(s, BanRow(s)) /\ MoveTo(s, "PunishWrite")
           /\ left' = [left EXCEPT ![s] = Punished(BanRow(s).tx)]
           /\ UNCHANGED <<msgs, val, outcome>>
  <2>1. BanRow(s).tx = BanRow(s).val /\ BanRow(s).tx \in Ditch
    BY <1>2, UntouchedBan, RowShapes DEF OnBan, Idle2
  <2>2. /\ Punished(BanRow(s).tx) \in Ditch
        /\ OneStep(BanRow(s).val, Punished(BanRow(s).tx))
    BY <2>1, CounterMoves
  <2>3. /\ left' \in [Session -> Ditch] /\ left'[s] = Punished(BanRow(s).tx)
        /\ \A t \in Session \ {s} : left'[t] = left[t]
    BY <1>2, <2>2 DEF AInv, Typed
  <2> QED
    BY <1>2, <2>1, <2>2, <2>3, RowShapes, BanMoves DEF OnBan
<1> QED
  BY <1>1, <1>2

LEMMA PunishWriteStep ==
  ASSUME AInv, NEW s \in Session, WPunishWrite(s)
  PROVE  AInv'
<1> USE DEF WPunishWrite, At, ownVars, gameVars
<1>1. CASE StatementFails(s, BanRow(s), Con2(s), "CommitData")
  BY <1>1, FailsAside DEF StatementFails
<1>2. CASE /\ OnBan(s, Written(BanRow(s), left[s])) /\ MoveTo(s, "PunishCommit")
           /\ UNCHANGED <<msgs, ownVars>>
  <2>1. left' \in [Session -> Ditch] /\ left' = left /\ left'[s] \in Ditch
    BY <1>2 DEF AInv, Typed
  <2>2. left[s] = BanRow(s).val \/ OneStep(BanRow(s).val, left[s])
    BY <1>2 DEF OnBan, Runs, AInv, Mine, Owns
  <2>3. /\ UNCHANGED <<poolVars, account, gameVars, msgs, val, outcome>>
        /\ Runs(BanRow(s), Con2(s)) /\ MoveTo(s, "PunishCommit")
        /\ ban' = [ban EXCEPT ![AccountOf[s]] =
                     [val |-> BanRow(s).val, lock |-> Con2(s), tx |-> left[s]]]
    <3>1. Locked(Written(BanRow(s), left[s]), Con2(s)) =
            [val |-> BanRow(s).val, lock |-> Con2(s), tx |-> left[s]]
      BY RowShapes
    <3> QED
      BY <1>2, <3>1, Zenon DEF OnBan
  <2>4. left[s] \in Ditch /\ (left[s] = BanRow(s).val \/ OneStep(BanRow(s).val, left[s]))
    BY <2>1, <2>2, RowShapes
  <2>5. place[s] = "PunishWrite"
    OBVIOUS
  <2> HIDE DEF WPunishWrite
  <2> QED
    BY <2>1, <2>2, <2>3, <2>4, <2>5, BanMoves
<1> QED
  BY <1>1, <1>2
-----------------------------------------------------------------------------
(* The end of a transaction on connection c: its rows are committed or     *)
(* rolled back, or nothing happens; no other row changes.                  *)
SettledIn(old, new, c) ==
  \A a \in Account :
    \/ new[a] = old[a]
    \/ /\ old[a].lock = c
       /\ new[a] = Committed(old[a]) \/ new[a] = RolledBack(old[a])

Settled(c) ==
  /\ SettledIn(account, account', c) /\ SettledIn(ban, ban', c)
  /\ account' \in [Account -> [val : Nat, lock : Lock, tx : Nat]]
  /\ ban' \in [Account -> [val : Ditch, lock : Lock, tx : Ditch]]

LEMMA Settles ==
  ASSUME AInv, NEW c, Commit(c) \/ Rollback({c}) \/ UNCHANGED dbVars
  PROVE  Settled(c)
<1>1. /\ account \in [Account -> [val : Nat, lock : Lock, tx : Nat]]
      /\ ban \in [Account -> [val : Ditch, lock : Lock, tx : Ditch]]
      /\ NoConn \in Lock
  BY DEF AInv, Typed, Lock
<1>2. \A a \in Account :
        /\ Committed(account[a]) \in [val : Nat, lock : Lock, tx : Nat]
        /\ RolledBack(account[a]) \in [val : Nat, lock : Lock, tx : Nat]
        /\ Committed(ban[a]) \in [val : Ditch, lock : Lock, tx : Ditch]
        /\ RolledBack(ban[a]) \in [val : Ditch, lock : Lock, tx : Ditch]
  BY <1>1 DEF Committed, RolledBack
<1>3. CASE Commit(c)
  BY <1>1, <1>2, <1>3 DEF Commit, CommittedIn, Settled, SettledIn
<1>4. CASE Rollback({c})
  BY <1>1, <1>2, <1>4 DEF Rollback, RolledBackIn, Settled, SettledIn
<1>5. CASE UNCHANGED dbVars
  BY <1>1, <1>5 DEF dbVars, Settled, SettledIn
<1> QED
  BY <1>3, <1>4, <1>5

(* Nothing that was committed is taken back, and no lock appears.          *)
LEMMA SettledRows ==
  ASSUME AInv, NEW c, Settled(c)
  PROVE  /\ \A a \in Account :
              /\ account'[a].val >= account[a].val
              /\ account'[a].lock \in {account[a].lock, NoConn}
              /\ ban'[a].lock \in {ban[a].lock, NoConn}
              /\ account[a].lock # c => account'[a] = account[a]
              /\ ban[a].lock # c => ban'[a] = ban[a]
         /\ borrowed' = borrowed => Rows'
         /\ (\A a \in Account : /\ account'[a].lock \in borrowed' \cup {NoConn}
                                /\ ban'[a].lock \in borrowed' \cup {NoConn}) => Rows'
<1>1. ASSUME NEW a \in Account
      PROVE  /\ account'[a].val >= account[a].val
             /\ account'[a].lock \in {account[a].lock, NoConn}
             /\ account'[a].lock = NoConn => account'[a].tx = account'[a].val
             /\ account'[a].val <= account'[a].tx
             /\ account[a].lock # c => account'[a] = account[a]
  <2>1. /\ account[a].val \in Nat /\ account[a].tx \in Nat
        /\ account[a].val <= account[a].tx
        /\ account[a].lock = NoConn => account[a].tx = account[a].val
    BY DEF AInv, Typed, Rows
  <2> QED
    BY <2>1 DEF Settled, SettledIn, Committed, RolledBack
<1>2. ASSUME NEW a \in Account
      PROVE  /\ ban'[a].lock \in {ban[a].lock, NoConn}
             /\ ban'[a].lock = NoConn => ban'[a].tx = ban'[a].val
             /\ ban'[a].tx = ban'[a].val \/ OneStep(ban'[a].val, ban'[a].tx)
             /\ ban[a].lock # c => ban'[a] = ban[a]
  BY DEF AInv, Rows, Settled, SettledIn, Committed, RolledBack
<1>3. ASSUME \A a \in Account : /\ account'[a].lock \in borrowed' \cup {NoConn}
                                 /\ ban'[a].lock \in borrowed' \cup {NoConn}
      PROVE  Rows'
  BY <1>1, <1>2, <1>3 DEF Rows
<1>4. ASSUME borrowed' = borrowed PROVE Rows'
  BY <1>1, <1>2, <1>3, <1>4 DEF AInv, Rows
<1> QED
  BY <1>1, <1>2, <1>3, <1>4

LEMMA SettledAside ==
  ASSUME AInv, NEW s \in Session, NEW h \in {One(s), Two(s)}, h \in lent, Settled(ptr[h])
  PROVE  RowsAside(s, account, account') /\ RowsAside(s, ban, ban')
<1>1. ASSUME NEW t \in Session \ {s}, NEW g \in {One(t), Two(t)}, g \in lent
      PROVE  ptr[g] # ptr[h] /\ ptr[g] # NoConn
  BY <1>1, Holders, LentApart
<1> QED
  BY <1>1, SettledRows DEF RowsAside

LEMMA CommitOutcome ==
  ASSUME AInv, NEW c, CommitSucceeds(c) \/ CommitFails(c)
  PROVE  /\ Settled(c) /\ Counted' /\ built' = "ready"
         /\ UNCHANGED <<pool, borrowed, ptr, lent, built>> /\ healthy' \subseteq healthy
         /\ \A s \in Session : PoolAside(s)
         /\ CommitSucceeds(c) /\ c # NoConn =>
              \A a \in Account : account'[a].lock # c /\ ban'[a].lock # c
<1>1. /\ UNCHANGED <<pool, borrowed, ptr, lent, built>> /\ healthy' \subseteq healthy
      /\ Commit(c) \/ Rollback({c}) \/ UNCHANGED dbVars
  BY DEF CommitSucceeds, CommitFails, poolVars
<1>2. CommitSucceeds(c) /\ c # NoConn =>
        \A a \in Account : account'[a].lock # c /\ ban'[a].lock # c
  BY DEF CommitSucceeds, Commit, CommittedIn, Committed
<1> QED
  BY <1>1, <1>2, Settles, PoolStands

(* The ban data is committed on opflcon2, the account stays as it is.      *)
LEMMA BanCommitMoves ==
  ASSUME AInv, NEW s \in Session, UNCHANGED <<msgs, ownVars, gameVars>>,
         CommitSucceeds(Con2(s)) \/ CommitFails(Con2(s)),
         NEW next, MoveTo(s, next),
         \/ place[s] = "CommitBanData" /\ next \in {"send", "crash"}
         \/ place[s] = "PunishCommit" /\ next \in {"Return2", "CommitData"},
         next \in {"send", "Return2"} => CommitSucceeds(Con2(s))
  PROVE  AInv'
<1> USE DEF ownVars, gameVars
<1>1. /\ Mine(s) /\ One(s) \in lent /\ Two(s) \in lent /\ outcome[s] # "saved"
  BY DEF AInv, Mine, Holds, Queued, Uses1, Uses2, Setup, Leaving
<1>2. /\ Con2(s) # NoConn /\ Con2(s) = ptr[Two(s)]
  BY <1>1, LentApart DEF Con2
<1>3. /\ place' \in [Session -> Place] /\ place'[s] = next /\ Local(s)
  BY DEF MoveTo, AInv, Typed, Local, Place, Uses1, Unsent, Setup, Leaving
<1>4. /\ Settled(Con2(s)) /\ Counted' /\ built' = "ready"
      /\ UNCHANGED <<pool, borrowed, ptr, lent, built>> /\ healthy' \subseteq healthy
      /\ PoolAside(s)
      /\ next \in {"send", "Return2"} => \A a \in Account : ban'[a].lock # Con2(s)
  BY <1>2, CommitOutcome
<1>5. /\ \A a \in Account :
           /\ account'[a].val >= account[a].val
           /\ account'[a] = account[a]
           /\ ban'[a].lock \in {ban[a].lock, NoConn}
      /\ Rows'
  BY <1>1, <1>4, SettledRows DEF Mine, Holds
<1>6. RowsAside(s, account, account') /\ RowsAside(s, ban, ban')
  BY <1>1, <1>2, <1>4, SettledAside
<1>7. Con(s) # NoConn
  BY <1>1, <1>4, LentApart DEF Con, Con2
<1>8. Holds(s)'
  BY <1>1, <1>2, <1>3, <1>4, <1>5, <1>7
     DEF Mine, Holds, Con, Con2, Uses1, Uses2, Idle1, Idle2, Setup, Leaving
<1>9. Owns(s)'
  BY <1>1, <1>3, <1>4, <1>5, Holders DEF Mine, Owns, Owning, Con, AccountRow
<1>10. Queued(s)'
  BY <1>1, <1>3 DEF Mine, Queued, Unsent, Setup, Leaving
<1>11. Typed'
  BY <1>3, <1>4 DEF AInv, Typed, Settled
<1> QED
  BY <1>3, <1>4, <1>5, <1>6, <1>8, <1>9, <1>10, <1>11, SessionMoves DEF Mine

LEMMA CommitBanDataStep ==
  ASSUME AInv, NEW s \in Session, WCommitBanData(s) \/ WPunishCommit(s)
  PROVE  AInv'
BY BanCommitMoves DEF WCommitBanData, WPunishCommit, At

(* CommitData: while the link holds, opflcon has the row locked with the   *)
(* last value published.                                                   *)
LEMMA CommitDataStep ==
  ASSUME AInv, NEW s \in Session, WCommitData(s)
  PROVE  AInv'
<1> USE DEF ownVars, gameVars
<1>1. PICK next \in {"Return1", "end"} :
        /\ place[s] = "CommitData" /\ MoveTo(s, next)
        /\ UNCHANGED <<msgs, val, left, gameVars>>
        /\ \/ /\ next = "Return1" /\ CommitSucceeds(Con(s))
              /\ outcome' = [outcome EXCEPT ![s] = "saved"]
           \/ next = "end" /\ CommitFails(Con(s)) /\ UNCHANGED outcome
  BY DEF WCommitData, At
<1>2. /\ Mine(s) /\ One(s) \in lent /\ outcome[s] # "saved"
  BY <1>1 DEF AInv, Mine, Holds, Queued, Uses1, Uses2, Setup, Leaving
<1>3. /\ Con(s) # NoConn /\ Con(s) = ptr[One(s)]
  BY <1>2, LentApart DEF Con
<1>4. /\ place' \in [Session -> Place] /\ place'[s] = next /\ Local(s)
      /\ outcome' \in [Session -> {"open", "saved"}]
      /\ outcome'[s] = IF next = "Return1" THEN "saved" ELSE outcome[s]
  BY <1>1 DEF MoveTo, AInv, Typed, Local, Place, Uses1, Unsent, Setup, Leaving
<1>5. /\ Settled(Con(s)) /\ Counted' /\ built' = "ready"
      /\ UNCHANGED <<pool, borrowed, ptr, lent, built>> /\ healthy' \subseteq healthy
      /\ PoolAside(s)
      /\ next = "Return1" => \A a \in Account : account'[a].lock # Con(s)
  BY <1>1, <1>3, CommitOutcome
<1>6. /\ \A a \in Account :
           /\ account'[a].val >= account[a].val
           /\ account'[a].lock \in {account[a].lock, NoConn}
           /\ ban'[a] = ban[a]
      /\ Rows'
  BY <1>2, <1>5, SettledRows DEF Mine, Holds
<1>7. RowsAside(s, account, account') /\ RowsAside(s, ban, ban')
  BY <1>2, <1>3, <1>5, SettledAside
<1>8. Holds(s)'
  <2>1. Two(s) \in lent => Con2(s) # NoConn
    BY LentApart DEF Con2
  <2> QED
    BY <1>1, <1>2, <1>3, <1>4, <1>5, <1>6, <2>1
       DEF Mine, Holds, Con, Con2, Uses1, Uses2, Idle1, Idle2, Setup, Leaving
<1>9. Owns(s)'
  BY <1>4 DEF Owns, Owning
<1>10. Queued(s)'
  <2>1. next = "Return1" => AccountRow(s)'.val >= view[s]
    <3>1. ASSUME next = "Return1"
          PROVE  /\ account'[AccountOf[s]] = Committed(account[AccountOf[s]])
                 /\ account[AccountOf[s]].tx = val[s] /\ val[s] = view[s] /\ view[s] \in Int
      <4>1. Con(s) \in healthy /\ Commit(Con(s))
        BY <1>1, <3>1 DEF CommitSucceeds
      <4>2. account[AccountOf[s]].lock = Con(s) /\ account[AccountOf[s]].tx = val[s]
        BY <1>1, <1>2, <4>1 DEF Mine, Owns, Owning, AccountRow
      <4>3. val[s] = view[s] /\ view[s] \in Int
        BY <1>1, <1>2 DEF AInv, Typed, Mine, Queued, Leaving
      <4> QED
        BY <4>1, <4>2, <4>3, Holders DEF Commit, CommittedIn
    <3> QED
      BY <3>1 DEF Committed, AccountRow
  <2> QED
    BY <1>1, <1>2, <1>4, <2>1 DEF Mine, Queued, Unsent, Setup, Leaving
<1>11. Typed'
  BY <1>1, <1>4, <1>5 DEF AInv, Typed, Settled
<1> QED
  BY <1>4, <1>5, <1>6, <1>7, <1>8, <1>9, <1>10, <1>11, SessionMoves DEF Mine

(* A link is lost, of any session or of none.                              *)
LEMMA LinkLostStep ==
  ASSUME AInv, NEW c \in Conn, LinkLost(c)
  PROVE  AInv'
<1> USE DEF ownVars, gameVars
<1>1. /\ UNCHANGED <<place, msgs, ownVars, gameVars>> /\ Settled(c)
      /\ UNCHANGED <<pool, borrowed, ptr, lent, built>>
      /\ healthy' = healthy \ {c}
  BY Settles DEF LinkLost, Break
<1>2. /\ Counted' /\ built' = "ready"
  BY <1>1, PoolStands
<1>3. /\ \A a \in Account :
           /\ account'[a].val >= account[a].val
           /\ account'[a].lock \in {account[a].lock, NoConn}
           /\ ban'[a].lock \in {ban[a].lock, NoConn}
           /\ account[a].lock # c => account'[a] = account[a]
           /\ ban[a].lock # c => ban'[a] = ban[a]
      /\ Rows'
  BY <1>1, SettledRows
<1>4. ASSUME NEW s \in Session PROVE Mine(s)'
  <2>1. /\ Mine(s) /\ AccountOf[s] \in Account
        /\ One(s) \in lent => Con(s) # NoConn
        /\ Two(s) \in lent => Con2(s) # NoConn
    BY Holders, LentApart DEF AInv, Con, Con2
  <2>2. /\ place[s] \in Idle1 => One(s) \in lent
        /\ place[s] \in Idle2 => Two(s) \in lent
    BY <2>1 DEF Mine, Holds, Idle1, Idle2, Uses1, Uses2, Setup, Leaving
  <2>3. Holds(s)'
    BY <1>1, <1>3, <2>1, <2>2 DEF Mine, Holds, Con, Con2
  <2>4. Owns(s)'
    BY <1>1, <1>3, <2>1 DEF Mine, Owns, Con, Con2, AccountRow, BanRow
  <2>5. Queued(s)'
    <3>1. /\ account[AccountOf[s]].val \in Nat /\ account'[AccountOf[s]].val \in Nat
          /\ view[s] \in Int
      BY <1>1, <2>1 DEF AInv, Typed, Settled
    <3> QED
      BY <1>1, <1>3, <2>1, <3>1 DEF Mine, Queued, AccountRow
  <2> QED
    BY <2>3, <2>4, <2>5 DEF Mine
<1>5. Typed'
  BY <1>1 DEF AInv, Typed, Settled
<1> QED
  BY <1>2, <1>3, <1>4, <1>5 DEF AInv
-----------------------------------------------------------------------------
(* borrow() hands out a connection that has no row locked, and closes at   *)
(* most an abandoned one, whose rows are rolled back.                      *)
LEMMA BorrowPool ==
  ASSUME AInv, NEW h \in Holder, Borrow(h)
  PROVE  /\ Counted' /\ built' = "ready"
         /\ ptr' = [ptr EXCEPT ![h] = ptr'[h]] /\ ptr'[h] \in Conn
         /\ lent' = lent \cup {h}
         /\ ptr'[h] \notin borrowed
         /\ \A c \in borrowed : c \in healthy' => c \in healthy
<1>1. built = "ready" /\ built' = "ready" /\ Counted
  BY DEF AInv, Borrow
<1>2. CASE BorrowIdle(h)
  <2>1. PoolInv' /\ IsFiniteSet(borrowed') /\ Conserved'
    BY <1>1, <1>2, BorrowIdleInv, BorrowIdleCounted DEF Counted
  <2>2. Head(pool) \in Conn /\ Head(pool) \notin borrowed
    <3>1. Head(pool) \in Conn /\ Head(pool) \in InPool
      BY <1>1, <1>2, TailIdle DEF Counted, PoolInv, BorrowIdle
    <3> QED
      BY <1>1, <3>1 DEF Counted, PoolInv, IdleOnce
  <2>3. ptr'[h] = Head(pool)
    BY <1>1, <1>2 DEF BorrowIdle, Counted, PoolInv, PoolTypeOK
  <2> QED
    BY <1>1, <1>2, <2>1, <2>2, <2>3 DEF Counted, BorrowIdle
<1>3. CASE BorrowReplace(h)
  <2>1. PoolInv' /\ IsFiniteSet(borrowed') /\ Conserved'
    BY <1>1, <1>3, BorrowReplaceInv, BorrowReplaceCounted DEF Counted
  <2>2. PICK old \in Abandoned, new \in Fresh :
          /\ borrowed' = (borrowed \ {old}) \cup {new}
          /\ ptr' = [ptr EXCEPT ![h] = new]
          /\ healthy' = (healthy \ {old}) \cup {new}
    BY <1>3 DEF BorrowReplace
  <2>3. new \in Conn /\ new \notin borrowed /\ ptr'[h] = new
    BY <1>1, <2>2 DEF Fresh, Owned, Counted, PoolInv, PoolTypeOK
  <2> QED
    BY <1>1, <1>3, <2>1, <2>2, <2>3 DEF Counted, BorrowReplace
<1> QED
  BY <1>2, <1>3 DEF Borrow

LEMMA BorrowRows ==
  ASSUME AInv, NEW h \in Holder, Borrow(h)
  PROVE  \E d : /\ Settled(d)
                /\ \A g \in Holder : ptr[g] # d \/ d = NoConn
                /\ \A a \in Account : /\ account'[a].lock \in borrowed' \cup {NoConn}
                                      /\ ban'[a].lock \in borrowed' \cup {NoConn}
<1>1. /\ account \in [Account -> [val : Nat, lock : Lock, tx : Nat]]
      /\ ban \in [Account -> [val : Ditch, lock : Lock, tx : Ditch]]
      /\ \A a \in Account : /\ account[a].lock \in borrowed \cup {NoConn}
                            /\ ban[a].lock \in borrowed \cup {NoConn}
  BY DEF AInv, Typed, Rows
<1>2. CASE BorrowIdle(h)
  <2>1. Rollback({}) /\ borrowed \subseteq borrowed'
    <3>1. borrowed \ borrowed' = {} /\ borrowed \subseteq borrowed'
      BY <1>2 DEF BorrowIdle
    <3> QED
      BY <3>1 DEF Borrow
  <2>2. UNCHANGED dbVars
    BY <1>1, <2>1 DEF Rollback, RolledBackIn, dbVars
  <2>3. Settled(NoConn)
    BY <2>2, Settles
  <2> QED
    BY <1>1, <2>1, <2>2, <2>3 DEF dbVars
<1>3. CASE BorrowReplace(h)
  <2>1. PICK old \in Abandoned, new \in Fresh : borrowed' = (borrowed \ {old}) \cup {new}
    BY <1>3 DEF BorrowReplace
  <2>2. new \notin borrowed /\ old \in borrowed /\ \A g \in Holder : ptr[g] # old
    BY <2>1 DEF Fresh, Owned, Abandoned, Referenced
  <2>3. Rollback({old})
    <3>1. borrowed \ borrowed' = {old}
      BY <2>1, <2>2
    <3> QED
      BY <3>1 DEF Borrow
  <2>4. Settled(old)
    BY <2>3, Settles
  <2>5. \A a \in Account : /\ account'[a].lock \in borrowed' \cup {NoConn}
                           /\ ban'[a].lock \in borrowed' \cup {NoConn}
    BY <1>1, <2>1, <2>3 DEF Rollback, RolledBackIn, RolledBack
  <2> QED
    BY <2>2, <2>4, <2>5
<1> QED
  BY <1>2, <1>3 DEF Borrow

LEMMA BorrowMoves ==
  ASSUME AInv, NEW s \in Session, NEW h \in {One(s), Two(s)}, Borrow(h),
         NEW next, MoveTo(s, next), UNCHANGED <<msgs, ownVars, gameVars>>,
         \/ h = One(s) /\ place[s] = "borrow" /\ next = "borrow2"
         \/ h = Two(s) /\ place[s] = "borrow2" /\ next = "got"
  PROVE  AInv'
<1> USE DEF ownVars, gameVars
<1>1. /\ Mine(s) /\ outcome[s] # "saved" /\ h \in Holder
      /\ \A t \in Session \ {s} : One(t) # h /\ Two(t) # h
  BY Holders DEF AInv, Mine, Queued
<1>2. /\ place' \in [Session -> Place] /\ place'[s] = next /\ Local(s)
  BY DEF MoveTo, AInv, Typed, Local, Place, Uses1, Unsent, Setup
<1>3. /\ Counted' /\ built' = "ready"
      /\ ptr' = [ptr EXCEPT ![h] = ptr'[h]] /\ ptr'[h] \in Conn /\ ptr'[h] # NoConn
      /\ lent' = lent \cup {h}
      /\ ptr'[h] \notin borrowed
      /\ \A c \in borrowed : c \in healthy' => c \in healthy
  BY <1>1, BorrowPool, PoolAssumption
<1>4. /\ \A g \in Holder : g # h => ptr'[g] = ptr[g]
      /\ \A g \in lent : ptr[g] \in borrowed /\ ptr[g] # NoConn
  BY <1>1, <1>3, LentApart DEF AInv, Counted, PoolInv, PoolTypeOK
<1>5. PoolAside(s)
  BY <1>1, <1>3, <1>4, Holders DEF PoolAside
<1>6. PICK d : /\ Settled(d)
               /\ \A g \in Holder : ptr[g] # d \/ d = NoConn
               /\ \A a \in Account : /\ account'[a].lock \in borrowed' \cup {NoConn}
                                     /\ ban'[a].lock \in borrowed' \cup {NoConn}
  BY <1>1, BorrowRows
<1>7. \A a \in Account :
        /\ account'[a].val >= account[a].val
        /\ account'[a].lock \in {account[a].lock, NoConn}
        /\ ban'[a].lock \in {ban[a].lock, NoConn}
        /\ account[a].lock # d => account'[a] = account[a]
        /\ ban[a].lock # d => ban'[a] = ban[a]
  BY <1>6, SettledRows
<1>8. RowsAside(s, account, account') /\ RowsAside(s, ban, ban')
  BY <1>4, <1>6, <1>7, Holders DEF RowsAside
<1>9. Rows'
  BY <1>6, SettledRows
<1>10. /\ Typed'
       /\ \A a \in Account : account[a].lock # ptr'[h] /\ ban[a].lock # ptr'[h]
  BY <1>2, <1>3, <1>6 DEF AInv, Typed, Rows, Settled
<1>11. CASE h = One(s)
  <2>1. /\ Con(s)' = ptr'[h] /\ Con2(s)' = Con2(s) /\ One(s) # Two(s)
        /\ Two(s) \in lent => Con2(s) # NoConn
    BY <1>1, <1>4, <1>11, Holders DEF Con, Con2
  <2>2. Holds(s)'
    BY <1>1, <1>2, <1>3, <1>7, <1>10, <1>11, <2>1
       DEF Mine, Holds, Uses1, Uses2, Idle1, Idle2, Setup, Leaving
  <2>3. Owns(s)' /\ Queued(s)'
    BY <1>1, <1>2, <1>11 DEF Mine, Owns, Owning, Queued, Unsent, Leaving, Setup
  <2> QED
    BY <1>2, <1>3, <1>5, <1>7, <1>8, <1>9, <1>10, <2>2, <2>3, SessionMoves DEF Mine
<1>12. CASE h = Two(s)
  <2>1. /\ Con2(s)' = ptr'[h] /\ Con(s)' = Con(s) /\ One(s) # Two(s)
        /\ One(s) \in lent /\ Con(s) # NoConn
    BY <1>1, <1>4, <1>12, Holders DEF Con, Con2, Mine, Holds, Uses1
  <2>2. Holds(s)'
    BY <1>1, <1>2, <1>3, <1>7, <1>10, <1>12, <2>1
       DEF Mine, Holds, Uses1, Uses2, Idle1, Idle2, Setup, Leaving
  <2>3. Owns(s)' /\ Queued(s)'
    BY <1>1, <1>2, <1>12 DEF Mine, Owns, Owning, Queued, Unsent, Leaving, Setup
  <2> QED
    BY <1>2, <1>3, <1>5, <1>7, <1>8, <1>9, <1>10, <2>2, <2>3, SessionMoves DEF Mine
<1> QED
  BY <1>11, <1>12

LEMMA BorrowStep ==
  ASSUME AInv, NEW s \in Session, WBorrow(s) \/ WBorrow2(s)
  PROVE  AInv'
<1>1. /\ UNCHANGED <<msgs, ownVars, gameVars>>
      /\ \/ place[s] = "borrow" /\ Borrow(One(s)) /\ MoveTo(s, "borrow2")
         \/ place[s] = "borrow2" /\ Borrow(Two(s)) /\ MoveTo(s, "got")
         \/ place[s] \in {"borrow", "borrow2"} /\ BorrowFails(s)
  BY DEF WBorrow, WBorrow2, At
<1> QED
  BY <1>1, BorrowMoves, BorrowFailsStep
-----------------------------------------------------------------------------
(* The thread ends: its references go, its connections are left behind as  *)
(* they are.                                                               *)
LEMMA EndMoves ==
  ASSUME AInv, NEW s \in Session, ThreadEnds(s), UNCHANGED <<dbVars, ownVars, gameVars>>,
         msgs' \in [Session -> Seq(Msg)],
         \A t \in Session \ {s} : msgs'[t] = msgs[t],
         /\ CommitAtEnd(msgs'[s])
         /\ s \notin gone => AllPublished(msgs'[s])
         /\ view[s] < 0 => NonePublished(msgs'[s])
  PROVE  AInv'
<1> USE DEF ownVars, gameVars, ThreadEnds
<1>1. Mine(s)
  BY DEF AInv
<1>2. /\ place' \in [Session -> Place] /\ place'[s] = "over" /\ Local(s)
  BY DEF MoveTo, AInv, Typed, Local, Place
<1>3. PoolInv'
  <2>1. ptr' \in [Holder -> Conn \cup {NoConn}] /\ lent' \subseteq lent
        /\ \A h \in lent' : ptr'[h] = ptr[h]
    BY Holders DEF AInv, Counted, PoolInv, PoolTypeOK
  <2> QED
    BY <2>1 DEF AInv, Counted, PoolInv, PoolTypeOK, IdleOnce, Exclusive, InPool
<1>4. Counted' /\ built' = "ready"
  BY <1>3 DEF AInv, Counted, Conserved
<1>5. PoolAside(s)
  BY Holders DEF PoolAside, AInv, Counted, PoolInv, PoolTypeOK
<1>6. One(s) \notin lent' /\ Two(s) \notin lent'
  OBVIOUS
<1>7. Holds(s)' /\ Owns(s)'
  BY <1>2, <1>6 DEF Holds, Owns, Owning, Uses1, Uses2, Idle1, Idle2, Setup, Leaving
<1>8. Queued(s)'
  BY <1>1, <1>2 DEF Mine, Queued, AccountRow, Unsent, Setup, Leaving, dbVars
<1>9. Typed' /\ Rows'
  BY <1>2 DEF AInv, Typed, Rows, dbVars
<1> QED
  BY <1>2, <1>4, <1>5, <1>7, <1>8, <1>9, TablesStand, SessionMoves DEF Mine

LEMMA EndStep ==
  ASSUME AInv, NEW s \in Session, WEnd(s) \/ WCrash(s)
  PROVE  AInv'
<1>1. ThreadEnds(s) /\ UNCHANGED <<dbVars, msgs, ownVars, gameVars>>
  BY DEF WEnd, WCrash
<1>2. /\ msgs' \in [Session -> Seq(Msg)] /\ CommitAtEnd(msgs'[s])
      /\ s \notin gone => AllPublished(msgs'[s])
      /\ view[s] < 0 => NonePublished(msgs'[s])
  BY <1>1 DEF AInv, Typed, Mine, Queued
<1> QED
  BY <1>1, <1>2, EndMoves

LEMMA PolledStep ==
  ASSUME AInv, NEW s \in Session, WPoll(s)
  PROVE  AInv'
<1>1. \/ NextTry(s) /\ UNCHANGED poolVars
      \/ place[s] = "got" /\ GivesUp(s) /\ UNCHANGED poolVars
      \/ ThreadEnds(s) /\ UNCHANGED <<dbVars, ownVars, gameVars>>
  BY Zenon DEF WPoll, GivesUp
<1> QED
  BY <1>1, PollStep, PollQueue, EndMoves

(* unborrow(): what goes back to the pool has no row locked.               *)
LEMMA ReturnMoves ==
  ASSUME AInv, NEW s \in Session, NEW h \in {One(s), Two(s)}, Unborrow(h),
         NEW next, MoveTo(s, next), UNCHANGED <<built, dbVars, msgs, ownVars, gameVars>>,
         \/ h = Two(s) /\ place[s] = "Return2" /\ next = "CommitData"
         \/ h = Two(s) /\ place[s] = "unborrow2" /\ next = "Return1"
         \/ h = One(s) /\ place[s] = "Return1" /\ next = "end"
  PROVE  AInv'
<1> USE DEF ownVars, gameVars
<1>1. /\ Mine(s) /\ One(s) \in lent /\ h \in lent
      /\ \A a \in Account : account[a].lock # ptr[h] /\ ban[a].lock # ptr[h]
  BY DEF AInv, Mine, Holds, Uses1, Uses2, Idle1, Idle2, Setup, Leaving, Con, Con2
<1>2. /\ place' \in [Session -> Place] /\ place'[s] = next /\ Local(s)
  BY DEF MoveTo, AInv, Typed, Local, Place, Uses1, Unsent, Setup, Leaving
<1>3. /\ Counted' /\ built' = "ready"
  BY <1>1, UnborrowInv, UnborrowCounted DEF AInv, Counted
<1>4. /\ borrowed' = borrowed \ {ptr[h]} /\ lent' = lent \ {h}
      /\ UNCHANGED <<ptr, healthy>>
  BY DEF Unborrow
<1>5. PoolAside(s)
  BY <1>4, Holders DEF PoolAside
<1>6. Typed' /\ Rows'
  BY <1>1, <1>2, <1>4 DEF AInv, Typed, Rows, dbVars
<1>7. Holds(s)' /\ Owns(s)'
  BY <1>1, <1>2, <1>4, Holders
     DEF Mine, Holds, Owns, Owning, AccountRow, Con, Con2, dbVars, Uses1, Uses2, Idle1, Idle2,
         Setup, Leaving
<1>8. Queued(s)'
  BY <1>1, <1>2 DEF Mine, Queued, AccountRow, Unsent, Setup, Leaving, dbVars
<1> QED
  BY <1>2, <1>3, <1>5, <1>6, <1>7, <1>8, TablesStand, SessionMoves DEF Mine

LEMMA ReturnStep ==
  ASSUME AInv, NEW s \in Session, WReturn(s)
  PROVE  AInv'
BY ReturnMoves DEF WReturn
-----------------------------------------------------------------------------
LEMMA AStep == AInv /\ [Next]_vars => AInv'
<1> SUFFICES ASSUME AInv, [Next]_vars PROVE AInv'
  OBVIOUS
<1>1. ASSUME NEW s \in Session, Connect(s) \/ Publish(s) \/ Leave(s)
      PROVE  AInv'
  BY <1>1, ConnectStep, PublishStep, LeaveStep
<1>2. ASSUME NEW s \in Session, Worker(s)
      PROVE  AInv'
  BY <1>2, BorrowStep, PolledStep, CreateAccountStep, GetAccountStep, CreateBanDataStep,
     GetBanDataStep, WriteBanDataStep, CommitBanDataStep, SendStep, PublishedStep,
     CommitMsgStep, PunishGetStep, PunishWriteStep, CommitDataStep, ReturnStep, EndStep
     DEF Worker
<1>3. ASSUME NEW c \in Conn, LinkLost(c)
      PROVE  AInv'
  BY <1>3, LinkLostStep
<1>4. CASE UNCHANGED vars
  BY <1>4 DEF vars, poolVars, dbVars, ownVars, gameVars, AInv, Counted, PoolInv, PoolTypeOK,
       IdleOnce, Exclusive, Conserved, InPool, Typed, Rows, Mine, Holds, Owns, Queued, Con, Con2,
       AccountRow, BanRow
<1> QED
  BY <1>1, <1>2, <1>3, <1>4 DEF Next

(* The full pool is one to start from.                                     *)
LEMMA AInit == Init => AInv
<1> SUFFICES ASSUME Init PROVE AInv
  OBVIOUS
<1>1. PICK q \in [1 .. PoolSize -> Conn] :
        pool = q /\ \A i, j \in 1 .. PoolSize : q[i] = q[j] => i = j
  BY DEF Init
<1>2. pool \in Seq(Conn) /\ Len(pool) = PoolSize /\ DOMAIN pool = 1 .. PoolSize
  <2>1. PoolSize \in Nat /\ pool \in [1 .. PoolSize -> Conn]
    BY <1>1, PoolAssumption
  <2>2. pool \in Seq(Conn)
    BY <2>1, SeqDef
  <2>3. DOMAIN pool = 1 .. PoolSize /\ DOMAIN pool = 1 .. Len(pool) /\ Len(pool) \in Nat
    BY <2>1, <2>2, LenProperties
  <2> QED
    BY <2>1, <2>2, <2>3, LenProperties
<1>3. Counted
  <2>1. PoolInv
    BY <1>1, <1>2 DEF Init, PoolInv, PoolTypeOK, IdleOnce, Exclusive, InPool
  <2> QED
    BY <1>2, <2>1, FS_EmptySet, PoolAssumption DEF Init, Counted, Conserved
<1>4. /\ account = [a \in Account |-> Row(0)]
      /\ ban \in [Account -> {Row(n) : n \in StartLeft}]
      /\ place = [s \in Session |-> "none"] /\ msgs = [s \in Session |-> <<>>]
      /\ val = [s \in Session |-> 0] /\ left = [s \in Session |-> 0]
      /\ view = [s \in Session |-> -1] /\ gone = {}
      /\ outcome = [s \in Session |-> "open"] /\ lent = {}
  BY DEF Init
<1>5. /\ \A n \in Nat : Row(n) \in [val : Nat, lock : Lock, tx : Nat]
      /\ \A n \in StartLeft : Row(n) \in [val : Ditch, lock : Lock, tx : Ditch]
      /\ \A n \in Nat : Row(n).val = n /\ Row(n).lock = NoConn /\ Row(n).tx = n
      /\ \A n \in StartLeft : n \in Nat
  BY SessionAssumption DEF Row, Lock, Ditch
<1>6. Typed
  <2>1. msgs \in [Session -> Seq(Msg)]
    <3>1. <<>> \in Seq(Msg)
      OBVIOUS
    <3> QED
      BY <1>4, <3>1
  <2>2. /\ account \in [Account -> [val : Nat, lock : Lock, tx : Nat]]
        /\ ban \in [Account -> [val : Ditch, lock : Lock, tx : Ditch]]
    BY <1>4, <1>5
  <2> QED
    BY <1>4, <2>1, <2>2 DEF Typed, Place, Unsent, Ditch
<1>7. Rows
  <2>1. ASSUME NEW a \in Account
        PROVE  /\ account[a].lock = NoConn /\ account[a].tx = account[a].val
               /\ ban[a].lock = NoConn /\ ban[a].tx = ban[a].val /\ account[a].val \in Nat
    <3>1. account[a] = Row(0) /\ 0 \in Nat
      BY <1>4
    <3>2. PICK n \in StartLeft : ban[a] = Row(n)
      BY <1>4
    <3>3. n \in Nat
      BY <1>5, <3>2
    <3> QED
      BY <1>5, <3>1, <3>2, <3>3
  <2> QED
    BY <2>1 DEF Rows
<1>8. ASSUME NEW s \in Session PROVE Mine(s)
  <2>1. Holds(s) /\ Owns(s)
    BY <1>4 DEF Holds, Owns, Owning, Uses1, Uses2, Idle1, Idle2, Setup, Leaving
  <2>2. DOMAIN msgs[s] = {}
    BY <1>4
  <2>3. Queued(s)
    BY <1>4, <2>2 DEF Queued, Leaving, Unsent, CommitAtEnd, AllPublished, NonePublished
  <2> QED
    BY <2>1, <2>3 DEF Mine
<1> QED
  BY <1>3, <1>6, <1>7, <1>8 DEF AInv, Init

(* The invariant: what each session's thread holds, owns and has still in  *)
(* its queue, next to a pool that adds up and rows that only lent or       *)
(* abandoned connections have locked.                                      *)
THEOREM AInvariant == Spec => []AInv
  BY AInit, AStep, PTL DEF Spec

(* mycallback returns opflcon2 and opflcon only when nothing is locked on  *)
(* them: after a commit, or before the first statement; on every failure   *)
(* it leaves them abandoned instead.                                       *)
THEOREM PoolIsClean == Spec => []PoolClean
<1>1. AInv => PoolClean
  <2> SUFFICES ASSUME AInv, NEW a \in Account
               PROVE  {account[a].lock, ban[a].lock} \cap InPool = {}
    BY DEF PoolClean
  <2>1. /\ account[a].lock \in borrowed \cup {NoConn}
        /\ ban[a].lock \in borrowed \cup {NoConn}
    BY DEF AInv, Rows
  <2>2. InPool \subseteq Conn /\ InPool \cap borrowed = {}
    BY ElementOfSeq, LenProperties DEF AInv, Counted, PoolInv, PoolTypeOK, IdleOnce, InPool
  <2> QED
    BY <2>1, <2>2, PoolAssumption
<1> QED
  BY <1>1, AInvariant, PTL

(* The row lock of GetAccount's SELECT ... FOR UPDATE is held until        *)
(* CommitData: of two threads of a player whose links work, one waits.     *)
THEOREM AccountHasOneOwner == Spec => []OneOwner
<1>1. AInv => OneOwner
  <2> SUFFICES ASSUME AInv, NEW s \in Session, NEW t \in Session, s # t,
                      place[s] \in Owning, Con(s) \in healthy,
                      place[t] \in Owning, Con(t) \in healthy,
                      AccountOf[s] = AccountOf[t]
               PROVE  FALSE
    BY DEF OneOwner
  <2>1. One(s) \in lent /\ One(t) \in lent
    BY DEF AInv, Mine, Holds, Owning, Uses1, Setup, Leaving
  <2>2. AccountRow(s).lock = Con(s) /\ AccountRow(t).lock = Con(t)
    BY DEF AInv, Mine, Owns
  <2> QED
    BY <2>1, <2>2, LentApart, Holders DEF AccountRow, Con
<1> QED
  BY <1>1, AInvariant, PTL

(* What mycallback reported as committed is in the table with everything   *)
(* the mission published, and no later session takes it back.              *)
THEOREM SavedStays == Spec => []SavedIsDurable
<1>1. AInv => SavedIsDurable
  BY DEF AInv, Mine, Queued, SavedIsDurable
<1> QED
  BY <1>1, AInvariant, PTL

(* The pool under the sessions: borrow() never hands a connection to two   *)
(* threads, and lent and idle connections always add up to pool_size.      *)
THEOREM SessionPool == Spec => [](Exclusive /\ Conserved)
<1>1. AInv => Exclusive /\ Conserved
  BY DEF AInv, Counted, PoolInv
<1> QED
  BY <1>1, AInvariant, PTL
-----------------------------------------------------------------------------
(* A step leaves a committed value alone or puts the value its transaction *)
(* wrote in its place.                                                     *)
LEMMA CommitsWritten ==
  ASSUME AInv, Next, NEW a \in Account
  PROVE  /\ account'[a].val \in {account[a].val, account[a].tx}
         /\ ban'[a].val \in {ban[a].val, ban[a].tx}
<1> DEFINE Moved == /\ account'[a].val \in {account[a].val, account[a].tx}
                    /\ ban'[a].val \in {ban[a].val, ban[a].tx}
<1>1. ASSUME UNCHANGED dbVars PROVE Moved
  BY <1>1 DEF dbVars
<1>2. ASSUME NEW c, Settled(c) PROVE Moved
  BY <1>2 DEF Settled, SettledIn, Committed, RolledBack
<1>3. ASSUME NEW s \in Session, NEW v,
             OnAccount(s, AccountRow(s)) \/ OnAccount(s, Written(AccountRow(s), v))
      PROVE  Moved
  <2>1. account \in [Account -> [val : Nat, lock : Lock, tx : Nat]] /\ UNCHANGED ban
    BY <1>3 DEF AInv, Typed, OnAccount
  <2>2. PICK row : /\ account' = [account EXCEPT ![AccountOf[s]] = row]
                   /\ row.val = AccountRow(s).val
    BY <1>3, RowShapes DEF OnAccount
  <2> QED
    BY <2>1, <2>2 DEF AccountRow
<1>4. ASSUME NEW s \in Session, NEW v,
             OnBan(s, BanRow(s)) \/ OnBan(s, Written(BanRow(s), v))
      PROVE  Moved
  <2>1. ban \in [Account -> [val : Ditch, lock : Lock, tx : Ditch]] /\ UNCHANGED account
    BY <1>4 DEF AInv, Typed, OnBan
  <2>2. PICK row : /\ ban' = [ban EXCEPT ![AccountOf[s]] = row]
                   /\ row.val = BanRow(s).val
    BY <1>4, RowShapes DEF OnBan
  <2> QED
    BY <2>1, <2>2 DEF BanRow
<1> HIDE DEF Moved
<1>5. ASSUME NEW s \in Session, Connect(s) \/ Publish(s) \/ Leave(s) PROVE Moved
  BY <1>1, <1>5 DEF Connect, Publish, Leave
<1>6. ASSUME NEW s \in Session, Worker(s) PROVE Moved
  <2>1. CASE WBorrow(s) \/ WBorrow2(s)
    <3>1. UNCHANGED dbVars \/ \E h \in Holder : Borrow(h)
      BY <2>1, Holders DEF WBorrow, WBorrow2, BorrowFails
    <3> QED
      BY <1>1, <1>2, <3>1, BorrowRows
  <2>2. CASE WPoll(s) \/ WSend(s) \/ WCommitMsg(s) \/ WReturn(s) \/ WEnd(s) \/ WCrash(s)
    BY <1>1, <2>2, Zenon DEF WPoll, WSend, WCommitMsg, WReturn, WEnd, WCrash
  <2>3. CASE WCreateAccount(s) \/ WGetAccount(s) \/ WPublish(s)
    <3>1. \/ UNCHANGED dbVars
          \/ \E v : OnAccount(s, AccountRow(s)) \/ OnAccount(s, Written(AccountRow(s), v))
      BY <2>3, Zenon DEF WCreateAccount, WGetAccount, WPublish, StatementFails
    <3> QED
      BY <1>1, <1>3, <3>1
  <2>4. CASE \/ WCreateBanData(s) \/ WGetBanData(s) \/ WWriteBanData(s)
             \/ WPunishGet(s) \/ WPunishWrite(s)
    <3>1. \/ UNCHANGED dbVars
          \/ \E v : OnBan(s, BanRow(s)) \/ OnBan(s, Written(BanRow(s), v))
      BY <2>4, Zenon DEF WCreateBanData, WGetBanData, WWriteBanData, WPunishGet, WPunishWrite,
                         StatementFails
    <3> QED
      BY <1>1, <1>4, <3>1
  <2>5. CASE WCommitBanData(s) \/ WPunishCommit(s) \/ WCommitData(s)
    <3>1. \E c : CommitSucceeds(c) \/ CommitFails(c)
      BY <2>5 DEF WCommitBanData, WPunishCommit, WCommitData
    <3> QED
      BY <1>2, <3>1, CommitOutcome
  <2> QED
    BY <1>6, <2>1, <2>2, <2>3, <2>4, <2>5 DEF Worker
<1>7. ASSUME NEW c \in Conn, LinkLost(c) PROVE Moved
  BY <1>2, <1>7, Settles DEF LinkLost
<1> QED
  BY <1>5, <1>6, <1>7 DEF Next, Moved

(* In whatever order the threads of a player's sessions read, write, fail  *)
(* and commit, no commit puts an older account over a newer one.           *)
THEOREM NoUpdateIsLost == Spec => NoLostUpdate
<1>1. AInv /\ [Next]_vars => [\A a \in Account : account'[a].val >= account[a].val]_vars
  <2> SUFFICES ASSUME AInv, Next, NEW a \in Account
               PROVE  account'[a].val >= account[a].val
    OBVIOUS
  <2>1. /\ account[a].val \in Nat /\ account[a].tx \in Nat
        /\ account[a].val <= account[a].tx
    BY DEF AInv, Typed, Rows
  <2> QED
    BY <2>1, CommitsWritten
<1> QED
  BY <1>1, AInvariant, PTL DEF Spec, NoLostUpdate

(* Every commit of the ban data moves the ditch counter by one punishment  *)
(* or one pardon: none is skipped and none is applied twice.               *)
THEOREM DitchMovesByOne == Spec => DitchMoves
<1>1. AInv /\ [Next]_vars =>
        [\A a \in Account : ban'[a].val # ban[a].val =>
           OneStep(ban[a].val, ban'[a].val)]_vars
  <2> SUFFICES ASSUME AInv, Next, NEW a \in Account, ban'[a].val # ban[a].val
               PROVE  OneStep(ban[a].val, ban'[a].val)
    OBVIOUS
  <2>1. ban[a].tx = ban[a].val \/ OneStep(ban[a].val, ban[a].tx)
    BY DEF AInv, Rows
  <2> QED
    BY <2>1, CommitsWritten
<1> QED
  BY <1>1, AInvariant, PTL DEF Spec, DitchMoves
=============================================================================
