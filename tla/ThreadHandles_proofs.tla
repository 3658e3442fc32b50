------------------------- MODULE ThreadHandles_proofs -------------------------
(***************************************************************************)
(* Proofs about the reference count of the thread handles, for every       *)
(* number of handles and hives and whatever the memory of a handle holds.  *)
(* While intact, the counter may overflow on its way up, but comes to 0 on *)
(* its way down exactly when it started at 0 and the last owner goes.      *)
(***************************************************************************)
EXTENDS ThreadHandles, SequenceTheorems, FiniteSetTheorems, TLAPS

(* A handle is shared by one hive until its thread is spawned, and by at   *)
(* most two after that: this is what the counter must be able to tell, and *)
(* what ties it to the life of the hives.                                  *)
Typed ==
  /\ alive \in SUBSET Handle
  /\ shares \in [Handle -> 0 .. UIntMod - 1]
  /\ start \in [Handle -> 0 .. UIntMod - 1]
  /\ mine \in [Hive -> Handle \cup {Null}]
  /\ stage \in [Hive -> {"none", "open", "shared", "gone"}]

Holds ==
  \A v \in Hive : IF stage[v] \in {"open", "shared"} THEN mine[v] \in alive
                                                      ELSE mine[v] = Null

(* What the counter of a handle with these owners says: they are at most   *)
(* two, and only a counter that did not start at 0 outlives the last one.  *)
Counted(h) ==
  /\ IsFiniteSet(Owners(h))
  /\ Cardinality(Owners(h)) \in 0 .. 2
  /\ Cardinality(Owners(h)) = 0 => start[h] # 0
  /\ start[h] # UIntMod - 1
  /\ shares[h] = (start[h] + Cardinality(Owners(h))) % UIntMod

Counts == \A h \in alive : Counted(h)

OpenAlone == \A v \in Hive : stage[v] = "open" => Cardinality(Owners(mine[v])) = 1

HInv == Typed /\ Holds /\ Counts /\ OpenAlone

(* Arithmetic of the counter: a is where it started, c how often it was    *)
(* counted up.  shares++ and shares-- undo each other, also around 0.      *)
LEMMA CountUp ==
  ASSUME NEW a \in 0 .. UIntMod - 2, NEW c \in 0 .. 1
  PROVE  (((a + c) % UIntMod) + 1) % UIntMod = (a + (c + 1)) % UIntMod
<1>1. (a + c) % UIntMod = a + c
  BY HandleAssumption
<1> QED
  BY <1>1, HandleAssumption

LEMMA CountDown ==
  ASSUME NEW a \in 0 .. UIntMod - 2, NEW c \in 1 .. 2
  PROVE  /\ (((a + c) % UIntMod) - 1) % UIntMod = (a + (c - 1)) % UIntMod
         /\ (a + (c - 1)) % UIntMod < 1 <=> a = 0 /\ c = 1
<1>1. (a + (c - 1)) % UIntMod = a + (c - 1)
  BY HandleAssumption
<1>2. CASE a + c < UIntMod
  <2>1. (a + c) % UIntMod = a + c
    BY <1>2, HandleAssumption
  <2> QED
    BY <1>1, <2>1
<1>3. CASE a + c = UIntMod
  <2>1. (a + c) % UIntMod = 0
    BY <1>3, HandleAssumption
  <2>2. (0 - 1) % UIntMod = UIntMod - 1
    BY HandleAssumption
  <2> QED
    BY <1>1, <1>3, <2>1, <2>2, HandleAssumption
<1> QED
  BY <1>1, <1>2, <1>3, HandleAssumption

(* No handle and no hive in use.                                           *)
LEMMA InitHandles == Init => HInv
  BY HandleAssumption DEF Init, HInv, Typed, Holds, Counts, OpenAlone

(* A handle whose owners and counters stay is counted as before.           *)
LEMMA StaysCounted ==
  ASSUME NEW h, Counted(h), Owners(h)' = Owners(h),
         shares'[h] = shares[h], start'[h] = start[h]
  PROVE  Counted(h)'
BY DEF Counted

(* A handle with one owner has no other.                                   *)
LEMMA OnlyOwner ==
  ASSUME NEW h, IsFiniteSet(Owners(h)), Cardinality(Owners(h)) = 1,
         NEW v \in Owners(h), NEW w \in Owners(h)
  PROVE  v = w
<1>1. Cardinality(Owners(h) \ {w}) = 0 /\ IsFiniteSet(Owners(h) \ {w})
  BY FS_RemoveElement
<1>2. Owners(h) \ {w} = {}
  BY <1>1, FS_EmptySet
<1> QED
  BY <1>2

(* A new handle has the one owner it was made for.                         *)
LEMMA AddThreadInv ==
  ASSUME HInv, intact', NEW v \in Hive, AddThread(v)
  PROVE  HInv'
<1>1. PICK h \in Handle \ alive, g \in Garbage :
        /\ Allocate(h, g)
        /\ shares' = [shares EXCEPT ![h] = (g + 1) % UIntMod]
        /\ mine' = [mine EXCEPT ![v] = h]
  BY DEF AddThread
<1>2. /\ stage[v] = "none"
      /\ stage' = [stage EXCEPT ![v] = "open"]
  BY DEF AddThread
<1>3. /\ alive' = alive \cup {h}
      /\ start' = [start EXCEPT ![h] = g]
      /\ g \in 0 .. UIntMod - 1 /\ g # UIntMod - 1
  BY <1>1, HandleAssumption DEF Allocate
<1>4. Typed'
  <2>1. (g + 1) % UIntMod \in 0 .. UIntMod - 1
    BY <1>3, HandleAssumption
  <2> QED
    BY <1>1, <1>2, <1>3, <2>1, HandleAssumption DEF HInv, Typed
<1>5. mine[v] = Null /\ \A w \in Hive : mine[w] # h
  BY <1>1, <1>2, HandleAssumption DEF HInv, Holds
<1>6. Holds'
  BY <1>1, <1>2, <1>3 DEF HInv, Typed, Holds
<1>7. Owners(h)' = {v}
  BY <1>1, <1>5 DEF Owners, HInv, Typed
<1>8. \A k \in alive : /\ Owners(k)' = Owners(k)
                       /\ shares'[k] = shares[k] /\ start'[k] = start[k]
  BY <1>1, <1>3, <1>5, HandleAssumption DEF Owners, HInv, Typed
<1>9. Counts'
  <2>1. Counted(h)'
    <3>1. IsFiniteSet({v}) /\ Cardinality({v}) = 1
      BY FS_Singleton
    <3>2. shares'[h] = (g + 1) % UIntMod /\ start'[h] = g
      BY <1>1, <1>3 DEF HInv, Typed
    <3>3. IsFiniteSet(Owners(h)') /\ Cardinality(Owners(h)') = 1
      BY <1>7, <3>1
    <3> QED
      BY <1>3, <3>2, <3>3 DEF Counted
  <2>2. \A k \in alive : Counted(k)'
    BY <1>8, StaysCounted DEF HInv, Counts
  <2> QED
    BY <1>3, <2>1, <2>2 DEF Counts
<1>10. OpenAlone'
  <2> SUFFICES ASSUME NEW w \in Hive, stage'[w] = "open"
               PROVE  Cardinality({u \in Hive : mine'[u] = mine'[w]}) = 1
    BY DEF OpenAlone, Owners
  <2>1. CASE w = v
    <3>1. mine'[w] = h
      BY <1>1, <2>1 DEF HInv, Typed
    <3>2. {u \in Hive : mine'[u] = mine'[w]} = {v}
      BY <1>7, <3>1 DEF Owners
    <3> QED
      BY <3>2, FS_Singleton
  <2>2. CASE w # v
    <3>1. stage[w] = "open" /\ mine'[w] = mine[w]
      BY <1>1, <1>2, <2>2 DEF HInv, Typed
    <3>2. mine[w] \in alive /\ Cardinality(Owners(mine[w])) = 1
      BY <3>1 DEF HInv, Holds, OpenAlone
    <3>3. {u \in Hive : mine'[u] = mine'[w]} = Owners(mine[w])
      BY <1>8, <3>1, <3>2 DEF Owners
    <3> QED
      BY <3>2, <3>3
  <2> QED
    BY <2>1, <2>2
<1> QED
  BY <1>4, <1>6, <1>9, <1>10 DEF HInv

(* The functor is the second owner.                                        *)
LEMMA SpawnThreadInv ==
  ASSUME HInv, NEW v \in Hive, NEW w \in Hive, SpawnThread(v, w)
  PROVE  HInv'
<1>0. PICK h : h = mine[v]
  OBVIOUS
<1>1. /\ stage[v] = "open" /\ stage[w] = "none" /\ v # w
      /\ h \in alive /\ h \in Handle /\ mine[w] = Null
      /\ Counted(h) /\ Cardinality(Owners(h)) = 1
  BY <1>0 DEF SpawnThread, HInv, Typed, Holds, OpenAlone, Counts
<1>2. /\ mine' = [mine EXCEPT ![w] = h]
      /\ stage' = [stage EXCEPT ![v] = "shared", ![w] = "shared"]
      /\ shares' = [shares EXCEPT ![h] = (@ + 1) % UIntMod]
      /\ alive' = alive /\ start' = start
  BY <1>0 DEF SpawnThread, history
<1>3. shares'[h] = (start[h] + 2) % UIntMod
  <2>1. /\ start[h] \in 0 .. UIntMod - 2 /\ 1 \in 0 .. 1 /\ 1 + 1 = 2
        /\ shares[h] = (start[h] + 1) % UIntMod
    BY <1>1, HandleAssumption DEF HInv, Typed, Counted
  <2>2. shares'[h] = (((start[h] + 1) % UIntMod) + 1) % UIntMod
    BY <1>1, <1>2, <2>1 DEF HInv, Typed
  <2> QED
    BY <2>1, <2>2, CountUp
<1>4. Typed'
  <2>1. (shares[h] + 1) % UIntMod \in 0 .. UIntMod - 1
    BY <1>1, HandleAssumption DEF HInv, Typed
  <2> QED
    BY <1>1, <1>2, <2>1, HandleAssumption DEF HInv, Typed
<1>5. Holds'
  BY <1>1, <1>2 DEF HInv, Typed, Holds
<1>6. Owners(h)' = Owners(h) \cup {w} /\ w \notin Owners(h)
  BY <1>1, <1>2, HandleAssumption DEF Owners, HInv, Typed
<1>7. \A g \in alive \ {h} : Owners(g)' = Owners(g) /\ shares'[g] = shares[g]
  BY <1>1, <1>2, HandleAssumption DEF Owners, HInv, Typed
<1>8. Counts'
  <2>1. IsFiniteSet(Owners(h)') /\ Cardinality(Owners(h)') = 2
    <3>1. IsFiniteSet(Owners(h))
      BY <1>1 DEF Counted
    <3>2. /\ IsFiniteSet(Owners(h) \cup {w})
          /\ Cardinality(Owners(h) \cup {w}) = Cardinality(Owners(h)) + 1
      BY <1>6, <3>1, FS_AddElement
    <3> QED
      BY <1>1, <1>6, <3>2
  <2>2. Counted(h)'
    BY <1>1, <1>2, <1>3, <2>1 DEF Counted
  <2>3. \A g \in alive \ {h} : Counted(g)'
    BY <1>2, <1>7, StaysCounted DEF HInv, Counts
  <2> QED
    BY <1>2, <2>2, <2>3 DEF Counts
<1>9. OpenAlone'
  <2> SUFFICES ASSUME NEW u \in Hive, stage'[u] = "open"
               PROVE  Cardinality({x \in Hive : mine'[x] = mine'[u]}) = 1
    BY DEF OpenAlone, Owners
  <2>1. stage[u] = "open" /\ u # v /\ u # w /\ mine'[u] = mine[u]
    BY <1>2 DEF HInv, Typed
  <2>2. mine[u] \in alive /\ Cardinality(Owners(mine[u])) = 1
    BY <2>1 DEF HInv, Holds, OpenAlone
  <2>3. mine[u] # h
    <3> SUFFICES ASSUME mine[u] = h PROVE FALSE
      OBVIOUS
    <3>1. u \in Owners(h) /\ v \in Owners(h)
      BY <1>0 DEF Owners
    <3>2. IsFiniteSet(Owners(h))
      BY <1>1 DEF Counted
    <3> QED
      BY <1>1, <2>1, <3>1, <3>2, OnlyOwner
  <2>4. {x \in Hive : mine'[x] = mine'[u]} = Owners(mine[u])
    BY <1>7, <2>1, <2>2, <2>3 DEF Owners
  <2> QED
    BY <2>2, <2>4
<1> QED
  BY <1>4, <1>5, <1>8, <1>9 DEF HInv

(* A destructor takes one owner away; it deletes the handle if this was    *)
(* the last one, and the counter had started at 0.                         *)
LEMMA DestroyTakes ==
  ASSUME HInv, NEW v \in Hive, Destroy(v), NEW h, h = mine[v]
  PROVE  /\ h \in alive /\ h \in Handle /\ h # Null /\ v \in Owners(h) /\ Counted(h)
         /\ Cardinality(Owners(h)) \in 1 .. 2
         /\ mine' = [mine EXCEPT ![v] = Null]
         /\ stage' = [stage EXCEPT ![v] = "gone"]
         /\ start' = start
         /\ shares' = [shares EXCEPT ![h] =
              (start[h] + (Cardinality(Owners(h)) - 1)) % UIntMod]
         /\ IF start[h] = 0 /\ Cardinality(Owners(h)) = 1
              THEN Unlink(h) /\ alive' = alive \ {h}
              ELSE UNCHANGED <<head, tail, next, alive, order>>
<1> DEFINE c == Cardinality(Owners(h))
           a == start[h]
<1>1. /\ h \in alive /\ h \in Handle /\ h # Null /\ v \in Owners(h) /\ Counted(h)
  BY HandleAssumption DEF Destroy, HInv, Typed, Holds, Counts, Owners
<1>2. c \in 1 .. 2
  <2>1. IsFiniteSet(Owners(h)) /\ c \in 0 .. 2
    BY <1>1 DEF Counted
  <2>2. c # 0
    BY <1>1, <2>1, FS_EmptySet
  <2> QED
    BY <2>1, <2>2
<1>3. a \in 0 .. UIntMod - 2 /\ shares[h] = (a + c) % UIntMod
  BY <1>1, HandleAssumption DEF HInv, Typed, Counted
<1> HIDE DEF c, a
<1>4. /\ (shares[h] - 1) % UIntMod = (a + (c - 1)) % UIntMod
      /\ (a + (c - 1)) % UIntMod < 1 <=> a = 0 /\ c = 1
  BY <1>2, <1>3, CountDown
<1>5. /\ mine' = [mine EXCEPT ![v] = Null]
      /\ stage' = [stage EXCEPT ![v] = "gone"]
      /\ start' = start
      /\ shares' = [shares EXCEPT ![h] = (shares[h] - 1) % UIntMod]
      /\ IF (shares[h] - 1) % UIntMod < 1
           THEN Unlink(h)
           ELSE UNCHANGED <<head, tail, next, alive, order>>
  BY DEF Destroy, history
<1>6. Unlink(h) => alive' = alive \ {h}
  BY DEF Unlink
<1>7. shares' = [shares EXCEPT ![h] = (a + (c - 1)) % UIntMod]
  BY <1>4, <1>5
<1>8. IF a = 0 /\ c = 1
        THEN Unlink(h) /\ alive' = alive \ {h}
        ELSE UNCHANGED <<head, tail, next, alive, order>>
  <2>1. CASE a = 0 /\ c = 1
    BY <1>4, <1>5, <1>6, <2>1
  <2>2. CASE ~(a = 0 /\ c = 1)
    BY <1>4, <1>5, <2>2
  <2> QED
    BY <2>1, <2>2
<1> QED
  BY <1>1, <1>2, <1>5, <1>7, <1>8 DEF a, c

LEMMA DestroyInv ==
  ASSUME HInv, NEW v \in Hive, Destroy(v)
  PROVE  HInv'
<1>0. PICK h : h = mine[v]
  OBVIOUS
<1> DEFINE c == Cardinality(Owners(h))
<1>1. /\ h \in alive /\ h \in Handle /\ h # Null /\ v \in Owners(h) /\ Counted(h)
      /\ c \in 1 .. 2
      /\ mine' = [mine EXCEPT ![v] = Null]
      /\ stage' = [stage EXCEPT ![v] = "gone"]
      /\ start' = start
      /\ shares' = [shares EXCEPT ![h] = (start[h] + (c - 1)) % UIntMod]
      /\ alive' = IF start[h] = 0 /\ c = 1 THEN alive \ {h} ELSE alive
  <2>1. IF start[h] = 0 /\ c = 1
          THEN Unlink(h) /\ alive' = alive \ {h}
          ELSE UNCHANGED <<head, tail, next, alive, order>>
    BY <1>0, DestroyTakes
  <2>2. alive' = IF start[h] = 0 /\ c = 1 THEN alive \ {h} ELSE alive
    BY <2>1
  <2> QED
    BY <1>0, <2>2, DestroyTakes
<1> HIDE DEF c
<1>2. Owners(h)' = Owners(h) \ {v}
  BY <1>1, HandleAssumption DEF Owners, HInv, Typed
<1>3. IsFiniteSet(Owners(h)') /\ Cardinality(Owners(h)') = c - 1
  BY <1>1, <1>2, FS_RemoveElement DEF Counted, c
<1>4. \A g \in alive \ {h} : Owners(g)' = Owners(g) /\ shares'[g] = shares[g]
  BY <1>1, HandleAssumption DEF Owners, HInv, Typed
<1>5. Typed'
  <2>1. (start[h] + (c - 1)) % UIntMod \in 0 .. UIntMod - 1
    BY <1>1, HandleAssumption DEF HInv, Typed
  <2> QED
    BY <1>1, <2>1, HandleAssumption DEF HInv, Typed
<1>6. Holds'
  <2> SUFFICES ASSUME NEW w \in Hive, w # v, stage[w] \in {"open", "shared"}
               PROVE  mine[w] \in alive'
    BY <1>1 DEF HInv, Typed, Holds
  <2>1. mine[w] \in alive
    BY DEF HInv, Holds
  <2>2. c = 1 => mine[w] # h
    BY <1>2, <1>3, FS_EmptySet DEF Owners
  <2> QED
    BY <1>1, <2>1, <2>2
<1>7. Counts'
  <2> SUFFICES ASSUME NEW g \in alive' PROVE Counted(g)'
    BY DEF Counts
  <2>1. CASE g = h
    <3>1. ~(start[h] = 0 /\ c = 1)
      BY <1>1, <2>1
    <3>2. shares'[h] = (start[h] + (c - 1)) % UIntMod /\ start'[h] = start[h]
      BY <1>1 DEF HInv, Typed
    <3>3. c - 1 \in 0 .. 2 /\ (c - 1 = 0 => start[h] # 0)
      BY <1>1, <3>1
    <3>4. start[h] # UIntMod - 1
      BY <1>1 DEF Counted
    <3>5. Counted(h)'
      BY <1>3, <3>2, <3>3, <3>4 DEF Counted
    <3> QED
      BY <2>1, <3>5
  <2>2. CASE g # h
    BY <1>1, <1>4, <2>2, StaysCounted DEF HInv, Counts
  <2> QED
    BY <2>1, <2>2
<1>8. OpenAlone'
  <2> SUFFICES ASSUME NEW w \in Hive, stage'[w] = "open"
               PROVE  Cardinality({u \in Hive : mine'[u] = mine'[w]}) = 1
    BY DEF OpenAlone, Owners
  <2>1. w # v /\ stage[w] = "open" /\ mine'[w] = mine[w]
    BY <1>1 DEF HInv, Typed
  <2>2. mine[w] \in alive /\ Cardinality(Owners(mine[w])) = 1
    BY <2>1 DEF HInv, Holds, OpenAlone
  <2>3. mine[w] # h
    <3> SUFFICES ASSUME mine[w] = h PROVE FALSE
      OBVIOUS
    <3>1. w \in Owners(h) /\ Cardinality(Owners(h)) = 1
      BY <2>2 DEF Owners
    <3>2. IsFiniteSet(Owners(h))
      BY <1>1 DEF Counted
    <3> QED
      BY <1>1, <2>1, <3>1, <3>2, OnlyOwner
  <2>4. {u \in Hive : mine'[u] = mine'[w]} = Owners(mine[w])
    BY <1>4, <2>1, <2>2, <2>3 DEF Owners
  <2> QED
    BY <2>2, <2>4
<1> QED
  BY <1>5, <1>6, <1>7, <1>8 DEF HInv

(* Once a counter has started at its greatest value, it has for good.      *)
LEMMA StaysIntact == [Next]_vars /\ intact' => intact
  BY DEF Next, vars, AddThread, Allocate, SpawnThread, Destroy, Forget, history

(* Every step keeps the counters right that started right.                 *)
LEMMA HandlesStep == HInv /\ [Next]_vars /\ intact' => HInv'
<1> SUFFICES ASSUME HInv, [Next]_vars, intact' PROVE HInv'
  OBVIOUS
<1>1. ASSUME UNCHANGED <<shares, alive, mine, start>>,
             Typed', Holds', \A v \in Hive : stage'[v] = "open" => stage[v] = "open"
      PROVE  HInv'
  BY <1>1 DEF HInv, Counts, Counted, OpenAlone, Owners
<1>2. ASSUME NEW v \in Hive, Forget(v) PROVE HInv'
  <2>1. UNCHANGED <<shares, alive, mine, start>>
    BY <1>2 DEF Forget, history
  <2>2. Typed' /\ Holds' /\ \A w \in Hive : stage'[w] = "open" => stage[w] = "open"
    BY <1>2, <2>1 DEF Forget, HInv, Typed, Holds
  <2> QED
    BY <1>1, <2>1, <2>2
<1>3. CASE UNCHANGED vars
  BY <1>1, <1>3 DEF vars, HInv, Typed, Holds
<1> QED
  BY <1>2, <1>3, AddThreadInv, SpawnThreadInv, DestroyInv DEF Next

(* What the invariant says of the properties that TLC checks.              *)
LEMMA HandlesSafe ==
  (intact => HInv) => NoDanglingHandle /\ SharesCountOwners /\ LastOneDeletes
<1> SUFFICES ASSUME HInv, intact
             PROVE  NoDanglingHandle /\ SharesCountOwners /\ LastOneDeletes
  BY DEF NoDanglingHandle, SharesCountOwners, LastOneDeletes
<1>1. NoDanglingHandle
  BY DEF NoDanglingHandle, HInv, Holds
<1>2. SharesCountOwners
  BY DEF SharesCountOwners, HInv, Counts, Counted
<1>3. LastOneDeletes
  BY FS_EmptySet DEF LastOneDeletes, HInv, Counts, Counted
<1> QED
  BY <1>1, <1>2, <1>3

LEMMA HandlesInvariant == Spec => [](intact => HInv)
<1>1. Init => (intact => HInv)
  BY InitHandles
<1>2. (intact => HInv) /\ [Next]_vars => (intact => HInv)'
  BY HandlesStep, StaysIntact
<1> QED
  BY <1>1, <1>2, PTL DEF Spec

(* The counter is what the memory held and one for each owner, whichever   *)
(* of a hive and the functor of its thread is destroyed first              *)
(* (ThreadHive.h:542, 631, 647).                                           *)
THEOREM HandlesCounted == Spec => []SharesCountOwners
  BY HandlesInvariant, HandlesSafe, PTL

(* No hive or functor is left with a handle that the other has deleted     *)
(* (~ThreadHive, ThreadHive.h:543), though nobody initialises the counter. *)
THEOREM HandlesLive == Spec => []NoDanglingHandle
  BY HandlesInvariant, HandlesSafe, PTL

(* A handle whose counter started at 0 goes with the last object that      *)
(* shares it, in either order.                                             *)
THEOREM HandlesOwned == Spec => []LastOneDeletes
  BY HandlesInvariant, HandlesSafe, PTL
-----------------------------------------------------------------------------
(* The list needs, beside what Linked says, that the handles that joined   *)
(* and the pointers are handles.                                           *)
LInv ==
  /\ order \in Seq(Handle)
  /\ next \in [Handle -> Handle \cup {Null}]
  /\ Linked

(* An empty list, and only an empty list, has no tail.                     *)
LEMMA ListEnds ==
  ASSUME LInv
  PROVE  /\ Len(order) \in Nat /\ DOMAIN order = 1 .. Len(order)
         /\ \A i \in 1 .. Len(order) : order[i] \in Handle /\ order[i] # Null
         /\ alive = {order[i] : i \in 1 .. Len(order)}
         /\ \A i, j \in 1 .. Len(order) : order[i] = order[j] => i = j
         /\ head = IF Len(order) = 0 THEN Null ELSE order[1]
         /\ tail = IF Len(order) = 0 THEN Null ELSE order[Len(order)]
         /\ \A i \in 1 .. Len(order) :
              next[order[i]] = IF i = Len(order) THEN Null ELSE order[i + 1]
<1>1. /\ Len(order) \in Nat /\ DOMAIN order = 1 .. Len(order)
      /\ \A i \in 1 .. Len(order) : order[i] \in Handle
      /\ order = <<>> <=> Len(order) = 0
  BY LenProperties, ElementOfSeq, EmptySeq DEF LInv
<1> QED
  BY <1>1, HandleAssumption DEF LInv, Linked

LEMMA InitList == Init => LInv
  BY DEF Init, LInv, Linked

(* push(): the handle that joins comes last.                               *)
LEMMA LinkList ==
  ASSUME LInv, NEW h \in Handle \ alive, Link(h), alive' = alive \cup {h}
  PROVE  LInv'
<1> DEFINE n == Len(order)
<1>1. /\ n \in Nat /\ DOMAIN order = 1 .. n
      /\ \A i \in 1 .. n : order[i] \in Handle /\ order[i] # Null
      /\ alive = {order[i] : i \in 1 .. n}
      /\ \A i, j \in 1 .. n : order[i] = order[j] => i = j
      /\ head = IF n = 0 THEN Null ELSE order[1]
      /\ tail = IF n = 0 THEN Null ELSE order[n]
      /\ \A i \in 1 .. n : next[order[i]] = IF i = n THEN Null ELSE order[i + 1]
  BY ListEnds
<1>2. /\ order' \in Seq(Handle) /\ Len(order') = n + 1 /\ DOMAIN order' = 1 .. n + 1
      /\ \A i \in 1 .. n : order'[i] = order[i]
      /\ order'[n + 1] = h
  <2>1. order' = Append(order, h) /\ order \in Seq(Handle)
    BY DEF Link, LInv
  <2>2. /\ order' \in Seq(Handle) /\ Len(order') = n + 1 /\ order'[n + 1] = h
        /\ \A i \in 1 .. n : order'[i] = order[i]
    BY <2>1, AppendProperties
  <2> QED
    BY <2>2, LenProperties
<1> HIDE DEF n
<1>0. \A i \in 1 .. n : order[i] # h
  BY <1>1
<1>3. \A i \in 1 .. n + 1 : i \in 1 .. n \/ i = n + 1
  BY <1>1
<1>4. n + 1 \in Nat /\ n + 1 # 0 /\ 1 \in 1 .. n + 1 /\ order' # <<>>
      /\ (n # 0 => 1 \in 1 .. n /\ n \in 1 .. n) /\ (n = 0 => n + 1 = 1)
  BY <1>0, <1>1, <1>2, EmptySeq
<1>5. /\ next' \in [Handle -> Handle \cup {Null}]
      /\ head' = order'[1] /\ tail' = order'[n + 1]
      /\ next'[h] = Null
      /\ \A i \in 1 .. n : next'[order[i]] = IF i = n THEN h ELSE order[i + 1]
  <2>1. CASE n = 0
    BY <1>0, <1>1, <1>2, <1>4, <2>1 DEF Link, LInv
  <2>2. CASE n # 0
    <3>1. /\ tail = order[n] /\ tail # Null /\ tail \in Handle /\ tail # h
          /\ head' = head /\ tail' = h
          /\ next' = [next EXCEPT ![h] = Null, ![tail] = h]
      BY <1>0, <1>1, <1>4, <2>2 DEF Link
    <3>2. \A i \in 1 .. n : next'[order[i]] = IF i = n THEN h ELSE next[order[i]]
      BY <1>0, <1>1, <1>4, <2>2, <3>1 DEF LInv
    <3> QED
      BY <1>0, <1>1, <1>2, <1>4, <2>2, <3>1, <3>2 DEF LInv
  <2> QED
    BY <2>1, <2>2
<1>6. alive' = {order'[i] : i \in DOMAIN order'}
  BY <1>0, <1>1, <1>2, <1>3, <1>4
<1>7. \A i, j \in DOMAIN order' : order'[i] = order'[j] => i = j
  BY <1>0, <1>1, <1>2, <1>3
<1>8. \A i \in DOMAIN order' :
        next'[order'[i]] = IF i = Len(order') THEN Null ELSE order'[i + 1]
  <2>1. ASSUME NEW i \in 1 .. n
        PROVE  next'[order'[i]] = IF i = Len(order') THEN Null ELSE order'[i + 1]
    <3>1. i # n + 1 /\ (i # n => i + 1 \in 1 .. n)
      BY <1>1
    <3> QED
      BY <1>0, <1>1, <1>2, <1>5, <3>1
  <2> QED
    BY <1>2, <1>3, <1>5, <2>1
<1> QED
  BY <1>2, <1>4, <1>5, <1>6, <1>7, <1>8 DEF LInv, Linked

(* ~ThreadHive(): the handle that goes is taken out, wherever it stands.   *)
LEMMA UnlinkList ==
  ASSUME LInv, NEW h \in alive, Unlink(h)
  PROVE  LInv'
<1> DEFINE n == Len(order)
           k == Position(h)
<1>1. /\ n \in Nat /\ DOMAIN order = 1 .. n
      /\ \A i \in 1 .. n : order[i] \in Handle /\ order[i] # Null
      /\ alive = {order[i] : i \in 1 .. n}
      /\ \A i, j \in 1 .. n : order[i] = order[j] => i = j
      /\ head = IF n = 0 THEN Null ELSE order[1]
      /\ tail = IF n = 0 THEN Null ELSE order[n]
      /\ \A i \in 1 .. n : next[order[i]] = IF i = n THEN Null ELSE order[i + 1]
  BY ListEnds
<1>2. k \in 1 .. n /\ order[k] = h
  BY <1>1 DEF Position
<1> HIDE DEF k, n
<1>3. /\ order' = [i \in 1 .. n - 1 |-> IF i < k THEN order[i] ELSE order[i + 1]]
      /\ alive' = alive \ {h}
  BY DEF Unlink, Without, k, n
<1>4. /\ order' \in Seq(Handle) /\ Len(order') = n - 1 /\ DOMAIN order' = 1 .. n - 1
      /\ n - 1 \in Nat
      /\ \A i \in 1 .. n - 1 : order'[i] = IF i < k THEN order[i] ELSE order[i + 1]
  <2>1. n - 1 \in Nat
    BY <1>1, <1>2
  <2>2. \A i \in 1 .. n - 1 : i \in 1 .. n /\ i + 1 \in 1 .. n
    BY <1>1
  <2>3. order' \in [1 .. n - 1 -> Handle]
    BY <1>1, <1>3, <2>2
  <2>4. order' \in Seq(Handle)
    BY <2>1, <2>3, SeqDef
  <2>5. DOMAIN order' = 1 .. n - 1 /\ Len(order') = n - 1
    BY <2>1, <2>3, <2>4, LenProperties
  <2> QED
    BY <1>3, <2>1, <2>4, <2>5
<1>5. alive' = {order'[i] : i \in DOMAIN order'}
  <2>1. ASSUME NEW j \in 1 .. n, j # k
        PROVE  \E i \in 1 .. n - 1 : order'[i] = order[j]
    <3>1. CASE j < k
      <4>1. j \in 1 .. n - 1
        BY <1>1, <1>2, <3>1
      <4> QED
        BY <1>4, <3>1, <4>1
    <3>2. CASE j > k
      <4>1. j - 1 \in 1 .. n - 1 /\ ~(j - 1 < k) /\ (j - 1) + 1 = j
        BY <1>1, <1>2, <3>2
      <4> QED
        BY <1>4, <4>1
    <3> QED
      BY <1>1, <1>2, <2>1, <3>1, <3>2
  <2>2. ASSUME NEW i \in 1 .. n - 1
        PROVE  order'[i] \in alive /\ order'[i] # h
    <3>1. i \in 1 .. n /\ i + 1 \in 1 .. n /\ (i < k => i # k) /\ (~(i < k) => i + 1 # k)
      BY <1>1, <1>2
    <3> QED
      BY <1>1, <1>2, <1>4, <3>1
  <2>3. ASSUME NEW x \in alive'
        PROVE  \E i \in 1 .. n - 1 : x = order'[i]
    <3>1. x \in alive /\ x # h
      BY <1>3
    <3>2. PICK j \in 1 .. n : x = order[j]
      BY <1>1, <3>1
    <3> QED
      BY <1>2, <2>1, <3>1, <3>2
  <2>4. ASSUME NEW i \in 1 .. n - 1
        PROVE  order'[i] \in alive'
    BY <1>3, <2>2
  <2>5. DOMAIN order' = 1 .. n - 1
    BY <1>4
  <2> QED
    BY <2>3, <2>4, <2>5
<1>6. \A i, j \in DOMAIN order' : order'[i] = order'[j] => i = j
  <2> SUFFICES ASSUME NEW i \in 1 .. n - 1, NEW j \in 1 .. n - 1, order'[i] = order'[j]
               PROVE  i = j
    BY <1>4
  <2>1. i \in 1 .. n /\ j \in 1 .. n /\ i + 1 \in 1 .. n /\ j + 1 \in 1 .. n
    BY <1>1
  <2>2. (IF i < k THEN i ELSE i + 1) = (IF j < k THEN j ELSE j + 1)
    BY <1>1, <1>4, <2>1
  <2> QED
    BY <1>1, <1>2, <2>1, <2>2
<1>7. CASE k = 1
  <2>1. /\ head = h /\ n # 0
        /\ head' = next[h] /\ tail' = (IF next[h] = Null THEN Null ELSE tail)
        /\ next' = [next EXCEPT ![h] = Null]
    BY <1>1, <1>2, <1>7 DEF Unlink
  <2>2. /\ next[h] = IF n = 1 THEN Null ELSE order[2]
        /\ n # 1 => 1 \in 1 .. n - 1 /\ n - 1 \in 1 .. n - 1 /\ (n - 1) + 1 = n /\ 2 \in 1 .. n
    BY <1>1, <1>2, <1>7
  <2>3. /\ head' = IF n - 1 = 0 THEN Null ELSE order'[1]
        /\ tail' = IF n - 1 = 0 THEN Null ELSE order'[n - 1]
    BY <1>1, <1>2, <1>4, <1>7, <2>1, <2>2
  <2>4. ASSUME NEW i \in 1 .. n - 1
        PROVE  next'[order'[i]] = IF i = n - 1 THEN Null ELSE order'[i + 1]
    <3>1. /\ ~(i < k) /\ i + 1 \in 1 .. n /\ i + 1 # k /\ i \in Int
          /\ i # n - 1 => i + 1 \in 1 .. n - 1 /\ ~(i + 1 < k)
          /\ i = n - 1 <=> i + 1 = n
      BY <1>1, <1>7
    <3>2. order'[i] = order[i + 1] /\ order[i + 1] # h /\ order[i + 1] \in Handle
      BY <1>1, <1>2, <1>4, <3>1
    <3>3. next'[order'[i]] = next[order[i + 1]]
      BY <2>1, <3>2 DEF LInv
    <3> QED
      BY <1>1, <1>4, <3>1, <3>3
  <2>5. next' \in [Handle -> Handle \cup {Null}]
    BY <2>1 DEF LInv
  <2>6. order' = <<>> <=> n - 1 = 0
    BY <1>4, EmptySeq
  <2> QED
    BY <1>4, <1>5, <1>6, <2>3, <2>4, <2>5, <2>6 DEF LInv, Linked
<1>8. CASE k # 1
  <2>1. /\ k - 1 \in 1 .. n /\ k - 1 \in 1 .. n - 1 /\ n # 0 /\ 1 \in 1 .. n - 1 /\ 1 < k
        /\ 1 \in 1 .. n /\ n - 1 # 0 /\ (k - 1) + 1 = k /\ k - 1 # n /\ n - 1 \in 1 .. n - 1
    BY <1>1, <1>2, <1>8
  <2>2. head # h
    BY <1>1, <1>2, <1>8, <2>1
  <2>3. PICK p \in Before(h) :
          /\ head' = head
          /\ tail' = (IF tail = h THEN p ELSE tail)
          /\ next' = [next EXCEPT ![p] = next[h], ![h] = Null]
    BY <2>2 DEF Unlink
  <2>4. p = order[k - 1] /\ p # h /\ p \in Handle
    <3>1. PICK j \in 1 .. n : p = order[j]
      BY <1>1 DEF Before
    <3>2. next[order[j]] = h
      BY <3>1 DEF Before
    <3>3. j # n /\ order[j + 1] = h /\ j + 1 \in 1 .. n
      BY <1>1, <1>2, <3>2
    <3>4. j + 1 = k
      BY <1>1, <1>2, <3>3
    <3>5. j = k - 1 /\ j # k
      BY <1>1, <1>2, <3>4
    <3> QED
      BY <1>1, <1>2, <3>1, <3>5
  <2>5. head' = order'[1]
    BY <1>1, <1>4, <2>1, <2>3
  <2>6. tail' = order'[n - 1]
    <3>1. CASE k = n
      BY <1>1, <1>2, <1>4, <2>1, <2>3, <2>4, <3>1
    <3>2. CASE k # n
      <4>1. tail = order[n] /\ n \in 1 .. n /\ tail # h
        BY <1>1, <1>2, <2>1, <3>2
      <4>2. ~(n - 1 < k) /\ (n - 1) + 1 = n
        BY <1>1, <1>2, <3>2
      <4> QED
        BY <1>4, <2>1, <2>3, <4>1, <4>2
    <3> QED
      BY <3>1, <3>2
  <2>7. ASSUME NEW i \in 1 .. n - 1
        PROVE  next'[order'[i]] = IF i = n - 1 THEN Null ELSE order'[i + 1]
    <3>1. CASE i < k - 1
      <4>1. /\ i < k /\ i \in 1 .. n /\ i # k /\ i # k - 1 /\ i # n /\ i # n - 1
            /\ i + 1 \in 1 .. n - 1 /\ i + 1 < k
        BY <1>1, <1>2, <3>1
      <4>2. order'[i] = order[i] /\ order[i] # h /\ order[i] # p /\ order[i] \in Handle
        BY <1>1, <1>2, <1>4, <2>1, <2>4, <4>1
      <4>3. next'[order[i]] = next[order[i]]
        BY <2>3, <2>4, <4>2 DEF LInv
      <4> QED
        BY <1>1, <1>4, <4>1, <4>2, <4>3
    <3>2. CASE i = k - 1
      <4>1. i < k /\ order'[i] = p
        BY <1>1, <1>2, <1>4, <2>4, <3>2
      <4>2. next'[p] = next[h]
        BY <2>3, <2>4 DEF LInv
      <4>3. next[h] = IF k = n THEN Null ELSE order[k + 1]
        BY <1>1, <1>2
      <4>4. i = n - 1 <=> k = n
        BY <1>1, <1>2, <3>2
      <4>5. k # n => i + 1 \in 1 .. n - 1 /\ ~(i + 1 < k) /\ i + 1 = k
        BY <1>1, <1>2, <3>2
      <4> QED
        BY <1>4, <4>1, <4>2, <4>3, <4>4, <4>5
    <3>3. CASE i > k - 1
      <4>1. /\ ~(i < k) /\ i + 1 \in 1 .. n /\ i + 1 # k /\ i + 1 # k - 1
            /\ i # n - 1 => i + 1 \in 1 .. n - 1 /\ ~(i + 1 < k)
            /\ i = n - 1 <=> i + 1 = n
        BY <1>1, <1>2, <3>3
      <4>2. /\ order'[i] = order[i + 1] /\ order[i + 1] # h /\ order[i + 1] # p
            /\ order[i + 1] \in Handle
        BY <1>1, <1>2, <1>4, <2>1, <2>4, <4>1
      <4>3. next'[order[i + 1]] = next[order[i + 1]]
        BY <2>3, <2>4, <4>2 DEF LInv
      <4> QED
        BY <1>1, <1>4, <4>1, <4>2, <4>3
    <3> QED
      BY <1>1, <1>2, <3>1, <3>2, <3>3
  <2>8. next' \in [Handle -> Handle \cup {Null}]
    BY <1>1, <1>2, <2>3, <2>4 DEF LInv
  <2>9. order' # <<>>
    BY <1>4, <2>1, EmptySeq
  <2> QED
    BY <1>4, <1>5, <1>6, <2>1, <2>5, <2>6, <2>7, <2>8, <2>9 DEF LInv, Linked
<1> QED
  BY <1>7, <1>8

(* No call of a hive breaks the list, since a hive that lives has a handle *)
(* that is linked.                                                         *)
LEMMA ListStep == HInv /\ LInv /\ [Next]_vars => LInv'
<1> SUFFICES ASSUME HInv, LInv, [Next]_vars PROVE LInv'
  OBVIOUS
<1>1. ASSUME UNCHANGED <<head, tail, next, alive, order>> PROVE LInv'
  BY <1>1 DEF LInv, Linked
<1>2. ASSUME NEW v \in Hive, AddThread(v) PROVE LInv'
  BY <1>2, LinkList DEF AddThread, Allocate
<1>3. ASSUME NEW v \in Hive, Destroy(v) PROVE LInv'
  <2>1. mine[v] \in alive
    BY <1>3 DEF Destroy, HInv, Holds
  <2>2. Unlink(mine[v]) \/ UNCHANGED <<head, tail, next, alive, order>>
    BY <1>3, Zenon DEF Destroy
  <2> QED
    BY <1>1, <2>1, <2>2, UnlinkList
<1>4. ASSUME NEW v \in Hive, NEW w \in Hive, Forget(v) \/ SpawnThread(v, w) PROVE LInv'
  BY <1>1, <1>4 DEF Forget, SpawnThread
<1>5. CASE UNCHANGED vars
  BY <1>1, <1>5 DEF vars
<1> QED
  BY <1>2, <1>3, <1>4, <1>5 DEF Next

(* head, tail and next spell the handles in the order in which they        *)
(* joined, whatever order they go in: the walks of ~ThreadHive and of      *)
(* getThreadHandle end, and find what is linked.                           *)
THEOREM HandlesListed == Spec => []ListIntact
<1>1. Init => (intact => HInv /\ LInv)
  BY InitHandles, InitList
<1>2. (intact => HInv /\ LInv) /\ [Next]_vars => (intact => HInv /\ LInv)'
  BY HandlesStep, ListStep, StaysIntact
<1>3. (intact => HInv /\ LInv) => ListIntact
  BY DEF LInv, ListIntact
<1> QED
  BY <1>1, <1>2, <1>3, PTL DEF Spec
-----------------------------------------------------------------------------
(* An owner's handle is promised, and so is a handle that can still be     *)
(* deleted.                                                                *)
LEMMA HeldIsPromised ==
  ASSUME HInv, NEW v \in Hive, mine[v] # Null
  PROVE  mine[v] \in Promised
<1>1. mine[v] \in alive
  BY DEF HInv, Holds
<1> QED
  BY <1>1 DEF Promised, Owners

(* With its last owner a promised handle goes, by deletion if its counter  *)
(* started at 0; one that has an owner left is kept.                       *)
LEMMA DestroyShares ==
  ASSUME HInv, NEW v \in Hive, Destroy(v)
  PROVE  Sharing!Drop(v)
<1>0. PICK h : h = mine[v]
  OBVIOUS
<1>1. /\ h \in alive /\ h \in Handle /\ h # Null /\ v \in Owners(h)
      /\ mine' = [mine EXCEPT ![v] = Null]
      /\ start' = start
      /\ alive' = IF start[h] = 0 /\ Cardinality(Owners(h)) = 1
                   THEN alive \ {h} ELSE alive
  <2>1. IF start[h] = 0 /\ Cardinality(Owners(h)) = 1
          THEN Unlink(h) /\ alive' = alive \ {h}
          ELSE UNCHANGED <<head, tail, next, alive, order>>
    BY <1>0, DestroyTakes
  <2>2. alive' = IF start[h] = 0 /\ Cardinality(Owners(h)) = 1
                   THEN alive \ {h} ELSE alive
    BY <2>1
  <2> QED
    BY <1>0, <2>2, DestroyTakes
<1>2. HInv'
  BY DestroyInv
<1>3. ASSUME NEW g \in Promised'
      PROVE  g \in Promised /\ \E w \in Hive : mine'[w] = g
  <2>1. g \in alive' /\ (start[g] = 0 \/ \E w \in Hive : mine'[w] = g)
    BY <1>1, <1>3 DEF Promised, Owners
  <2>2. \E w \in Hive : mine'[w] = g
    <3> SUFFICES ASSUME ~\E w \in Hive : mine'[w] = g PROVE FALSE
      OBVIOUS
    <3>1. Owners(g)' = {} /\ start'[g] = 0
      BY <1>1, <2>1 DEF Owners
    <3>2. Counted(g)'
      BY <1>2, <2>1 DEF HInv, Counts
    <3> QED
      BY <3>1, <3>2, FS_EmptySet DEF Counted
  <2>3. g \in alive /\ g # Null
    BY <1>1, <2>1, HandleAssumption DEF HInv, Typed
  <2>4. \E w \in Hive : mine[w] = g
    BY <1>1, <2>2, <2>3 DEF HInv, Typed
  <2> QED
    BY <2>2, <2>3, <2>4 DEF Promised, Owners
<1>4. ASSUME NEW g \in Promised, NEW w \in Hive, mine'[w] = g
      PROVE  g \in Promised'
  <2>1. g \in alive'
    <3>1. g \in Handle
      BY DEF Promised, HInv, Typed
    <3>2. mine'[w] # Null /\ (Holds)'
      BY <1>2, <1>4, <3>1, HandleAssumption DEF HInv
    <3> QED
      BY <1>4, <3>2 DEF Holds
  <2> QED
    BY <1>4, <2>1 DEF Promised, Owners
<1>5. Promised' = {g \in Promised : \E w \in Hive : mine'[w] = g}
  BY <1>3, <1>4
<1> QED
  BY <1>0, <1>1, <1>5 DEF Sharing!Drop

(* A hive that is given a handle has had none, and the functor of a thread *)
(* neither; what is promised of the other handles stays.                   *)
LEMMA AddThreadShares ==
  ASSUME HInv, intact', NEW v \in Hive, AddThread(v)
  PROVE  Sharing!Give(v)
<1>1. PICK h \in Handle \ alive, g \in Garbage :
        /\ Allocate(h, g)
        /\ mine' = [mine EXCEPT ![v] = h]
  BY DEF AddThread
<1>2. /\ alive' = alive \cup {h} /\ start' = [start EXCEPT ![h] = g]
  BY <1>1 DEF Allocate
<1>3. mine[v] = Null /\ \A w \in Hive : mine[w] # h
  BY <1>1, HandleAssumption DEF AddThread, HInv, Holds
<1>4. h \in Promised' /\ h \notin Promised
  <2>1. h \in alive' /\ mine'[v] = h
    BY <1>1, <1>2 DEF HInv, Typed
  <2>2. h \in Promised'
    BY <2>1 DEF Promised, Owners
  <2> QED
    BY <1>1, <2>2 DEF Promised
<1>5. \A k \in alive : Owners(k)' = Owners(k) /\ start'[k] = start[k]
  BY <1>1, <1>2, <1>3, HandleAssumption DEF Owners, HInv, Typed
<1>6. Promised' = Promised \cup {h}
  BY <1>2, <1>4, <1>5 DEF Promised
<1> QED
  BY <1>1, <1>3, <1>4, <1>6 DEF Sharing!Give

LEMMA SpawnThreadShares ==
  ASSUME HInv, NEW v \in Hive, NEW w \in Hive, SpawnThread(v, w)
  PROVE  Sharing!Share(v, w)
<1>1. mine[v] # Null /\ mine[w] = Null /\ mine' = [mine EXCEPT ![w] = mine[v]]
  BY HandleAssumption DEF SpawnThread, HInv, Typed, Holds
<1>2. alive' = alive /\ start' = start
  BY DEF SpawnThread, history
<1>3. \A h \in alive : Owners(h)' # {} <=> Owners(h) # {}
  <2> SUFFICES ASSUME NEW h \in alive
               PROVE  (\E u \in Hive : mine'[u] = h) <=> (\E u \in Hive : mine[u] = h)
    BY DEF Owners
  <2>1. h # Null
    BY HandleAssumption DEF HInv, Typed
  <2> QED
    BY <1>1, <2>1 DEF HInv, Typed
<1>4. Promised' = Promised
  BY <1>2, <1>3 DEF Promised
<1> QED
  BY <1>1, <1>4 DEF Sharing!Share

LEMMA StepShares ==
  ASSUME HInv, [Next]_vars, intact'
  PROVE  Sharing!SharedNext \/ UNCHANGED Sharing!sharedVars
<1>1. ASSUME NEW v \in Hive, AddThread(v) PROVE Sharing!Give(v)
  BY <1>1, AddThreadShares
<1>2. ASSUME NEW v \in Hive, NEW w \in Hive, SpawnThread(v, w)
      PROVE  Sharing!Share(v, w)
  BY <1>2, SpawnThreadShares
<1>3. ASSUME NEW v \in Hive, Destroy(v) PROVE Sharing!Drop(v)
  BY <1>3, DestroyShares
<1>4. ASSUME UNCHANGED <<alive, start, mine>> PROVE UNCHANGED Sharing!sharedVars
  BY <1>4 DEF Sharing!sharedVars, Promised, Owners
<1>5. ASSUME NEW v \in Hive, Forget(v) PROVE UNCHANGED Sharing!sharedVars
  BY <1>4, <1>5 DEF Forget, history
<1>6. CASE UNCHANGED vars
  BY <1>4, <1>6 DEF vars
<1> QED
  BY <1>1, <1>2, <1>3, <1>5, <1>6 DEF Next, Sharing!SharedNext

(* The counted, linked handles are what SharedHandles promises: a handle   *)
(* lives while a hive or a thread's functor shares it, and goes with the   *)
(* last of them if its counter started at 0 (ThreadHive.h:534).            *)
THEOREM HandlesAreShared == Spec => ImplementsSharing
<1>1. Init => Sharing!SharedInit
  BY DEF Init, Sharing!SharedInit, Promised
<1>2. (intact => HInv) /\ [Next]_vars =>
        [intact' => Sharing!SharedNext \/ UNCHANGED Sharing!sharedVars]_vars
  BY StepShares, StaysIntact
<1> QED
  BY <1>1, <1>2, HandlesInvariant, PTL DEF Spec, ImplementsSharing
=============================================================================
