------------------------- MODULE VehicleList_proofs -------------------------
(***************************************************************************)
(* Proofs about the list of respawnable vehicles, for every number of      *)
(* clients and vehicles and every size of a block: a client to whom        *)
(* nothing is under way has no vehicle in his list that was replaced.      *)
(***************************************************************************)
EXTENDS VehicleList, FiniteSetTheorems, SequenceTheorems, TLAPS

Place == 1 .. Count

(* A message speaks of places of the list only, a replacement of one.      *)
Message ==
  {m \in [kind : {"VR_UpdIndex", "VR_AddVBlck"}, index : Nat, vehicles : Seq(Nat)] :
     /\ m.index + Len(m.vehicles) <= Count
     /\ m.kind = "VR_UpdIndex" => Len(m.vehicles) = 1}

(* Replacements go to all clients.                                         *)
Sending ==
  {b \in [to : Client \cup {All}, msg : Message] :
     b.msg.kind = "VR_UpdIndex" => b.to = All}

Typed ==
  /\ list \in [Place -> Nat]
  /\ current \in 0 .. Count - 1
  /\ pending \in Nat
  /\ last \in Client \cup {All} /\ addr \in Client \cup {All}
  /\ cpq \in Seq(Sending)
  /\ state \in [Client -> {"out", "connected", "waiting", "gone"}]
  /\ hello \subseteq Client
  /\ net \in [Client -> Seq(Message)]
  /\ scripts \in [Client -> Seq({m \in Message : m.kind = "VR_UpdIndex"})]
  /\ have \in [Client -> Seq(Nat)]
  /\ \A c \in Client : Len(have[c]) <= Count

(* A client who is not connected has nothing, and gets nothing.            *)
Absent ==
  \A c \in Client : state[c] \in {"out", "gone"} =>
    net[c] = <<>> /\ scripts[c] = <<>> /\ have[c] = <<>>

(* Message m replaces the vehicle of place i, or says which it is.         *)
Replaces(m, i) == m.kind = "VR_UpdIndex" /\ m.index = i - 1
Covers(m, i) == m.index < i /\ i <= m.index + Len(m.vehicles)
Says(m, i) == m.vehicles[i - m.index]

(* No message of q replaces the vehicle of place i; and what the last one  *)
(* that does, or a block behind it, says of the place is v.                *)
Silent(q, i) == \A k \in 1 .. Len(q) : ~Replaces(q[k], i)
Tells(q, i, v) ==
  \A k \in 1 .. Len(q) :
    Covers(q[k], i) /\ (\A l \in k + 1 .. Len(q) : ~Replaces(q[l], i)) => Says(q[k], i) = v

Msgs(q) == [k \in 1 .. Len(q) |-> q[k].msg]

(* The messages in the order in which they will be read, those of the      *)
(* server first: the last ones that speak of a place know its vehicle, and *)
(* when there is no replacement in them the ones before do: the scripts    *)
(* behind the messages that have not arrived, the list behind the scripts. *)
Queued == \A i \in Place : Tells(Msgs(cpq), i, list[i])
Arriving(c) ==
  \A i \in Place : Silent(Msgs(cpq), i) => Tells(net[c], i, list[i])
Spawned(c) ==
  \A i \in Place :
    Silent(Msgs(cpq), i) /\ Silent(net[c], i) => Tells(scripts[c], i, list[i])
Known(c) ==
  \A i \in Place :
    Silent(Msgs(cpq), i) /\ Silent(net[c], i) /\ Silent(scripts[c], i)
      /\ i <= Len(have[c]) => have[c][i] = list[i]

Copies == \A c \in Client : Arriving(c) /\ Spawned(c) /\ Known(c)

VInv == Typed /\ Absent /\ Queued /\ Copies
-----------------------------------------------------------------------------
(* The places of a set can be put in order, and all of them are in it.     *)
LEMMA PlacesInOrder ==
  ASSUME NEW S \in SUBSET Nat, IsFiniteSet(S)
  PROVE  /\ Cardinality(S) \in Nat
         /\ InOrder(S) \in [1 .. Cardinality(S) -> S]
         /\ \A i \in S : \E k \in 1 .. Cardinality(S) : InOrder(S)[k] = i
<1> DEFINE n == Cardinality(S)
           below(i) == {j \in S : j < i}
           rank == [i \in S |-> Cardinality(below(i)) + 1]
           Sorted(q) == \A k, m \in DOMAIN q : k < m => q[k] < q[m]
<1>0. \A i \in S : i \in Nat
  OBVIOUS
<1>1. n \in Nat /\ IsFiniteSet(1 .. n) /\ Cardinality(1 .. n) = n
  BY FS_CardinalityType, FS_Interval
<1>2. \A i \in S : IsFiniteSet(below(i)) /\ Cardinality(below(i)) \in Nat
  BY FS_Subset, FS_CardinalityType
<1>3. ASSUME NEW i \in S, NEW j \in S, i < j
      PROVE  Cardinality(below(i)) < Cardinality(below(j))
  <2>1. i \in Nat /\ j \in Nat
    BY <1>0
  <2>2. i \in below(j) /\ i \notin below(i)
    BY <1>3, <2>1
  <2>3. ASSUME NEW l \in below(i) PROVE l \in below(j)
    <3>1. l \in S /\ l \in Nat /\ l < i
      BY <1>0
    <3> QED
      BY <1>3, <2>1, <3>1
  <2> HIDE DEF below
  <2>4. below(i) \in SUBSET below(j) /\ below(i) # below(j)
    BY <2>2, <2>3
  <2>5. Cardinality(below(i)) <= Cardinality(below(j))
          /\ Cardinality(below(j)) # Cardinality(below(i))
    BY <1>2, <2>4, FS_Subset
  <2> QED
    BY <1>2, <2>5
<1>4. ASSUME NEW i \in S
      PROVE  Cardinality(below(i)) + 1 \in 1 .. n
  <2>1. below(i) \subseteq S /\ i \notin below(i)
    BY <1>0
  <2> HIDE DEF below
  <2> QED
    BY <1>1, <1>2, <2>1, FS_Subset
<1> HIDE DEF below
<1>5. rank \in [S -> 1 .. n] /\ \A i, j \in S : i < j => rank[i] < rank[j]
  BY <1>2, <1>3, <1>4
<1> HIDE DEF n, rank
<1>6. \A i, j \in S : rank[i] = rank[j] => i = j
  BY <1>1, <1>5
<1>7. rank \in Injection(S, 1 .. n)
  BY <1>5, <1>6 DEF Injection, IsInjective
<1>8. rank \in Surjection(S, 1 .. n)
  BY <1>1, <1>7, FS_Injection DEF n
<1>9. \A k \in 1 .. n : \E i \in S : rank[i] = k
  BY <1>8 DEF Surjection
<1> DEFINE q == [k \in 1 .. n |-> CHOOSE i \in S : rank[i] = k]
<1>10. q \in [1 .. n -> S] /\ \A k \in 1 .. n : rank[q[k]] = k
  BY <1>9
<1> HIDE DEF q
<1>11. Sorted(q)
  <2>1. ASSUME NEW k \in 1 .. n, NEW m \in 1 .. n, k < m
        PROVE  q[k] < q[m]
    <3>1. q[k] \in S /\ q[m] \in S /\ rank[q[k]] < rank[q[m]]
      BY <1>10, <2>1
    <3>2. q[k] \in Nat /\ q[m] \in Nat
      BY <1>0, <3>1
    <3>3. rank[q[k]] \in Nat /\ rank[q[m]] \in Nat
      BY <1>10
    <3> QED
      BY <1>5, <3>1, <3>2, <3>3
  <2> QED
    BY <1>10, <2>1
<1>12. InOrder(S) \in [1 .. n -> S] /\ Sorted(InOrder(S))
  BY <1>10, <1>11 DEF InOrder, n
<1>13. \A k, m \in 1 .. n : InOrder(S)[k] = InOrder(S)[m] => k = m
  <2>1. \A k \in 1 .. n : InOrder(S)[k] \in Nat
    BY <1>0, <1>12
  <2>2. DOMAIN InOrder(S) = 1 .. n
    BY <1>12
  <2> QED
    BY <1>1, <1>12, <2>1, <2>2
<1>14. InOrder(S) \in Injection(1 .. n, S)
  BY <1>12, <1>13 DEF Injection, IsInjective
<1>15. InOrder(S) \in Surjection(1 .. n, S)
  BY <1>1, <1>14, FS_Injection DEF n
<1> QED
  BY <1>1, <1>12, <1>15 DEF Surjection, n
-----------------------------------------------------------------------------
(* What a queue says of a place when its first message is taken.           *)
LEMMA Dropped ==
  ASSUME NEW S, NEW q \in Seq(S), q # <<>>, NEW i, NEW v
  PROVE  /\ Silent(Tail(q), i) /\ ~Replaces(Head(q), i) => Silent(q, i)
         /\ Tells(q, i, v) => Tells(Tail(q), i, v)
         /\ Tells(q, i, v) /\ Silent(Tail(q), i) /\ Covers(Head(q), i) => Says(Head(q), i) = v
<1> DEFINE n == Len(q)
<1>1. /\ n \in Nat /\ 1 \in 1 .. n /\ Len(Tail(q)) = n - 1 /\ Head(q) = q[1]
      /\ \A k \in 1 .. n - 1 : Tail(q)[k] = q[k + 1]
  BY HeadTailProperties, LenProperties, EmptySeq
<1> HIDE DEF n
<1>2. \A k \in 2 .. n : k - 1 \in 1 .. n - 1 /\ q[k] = Tail(q)[k - 1]
  BY <1>1
<1>3. ASSUME Silent(Tail(q), i), NEW k \in 2 .. n
      PROVE  ~Replaces(q[k], i)
  BY <1>1, <1>2, <1>3 DEF Silent
<1>4. ASSUME Silent(Tail(q), i), ~Replaces(Head(q), i)
      PROVE  Silent(q, i)
  <2>1. \A k \in 1 .. n : k = 1 \/ k \in 2 .. n
    BY <1>1
  <2> QED
    BY <1>1, <1>3, <1>4, <2>1 DEF Silent, n
<1>5. ASSUME Tells(q, i, v)
      PROVE  Tells(Tail(q), i, v)
  <2> SUFFICES ASSUME NEW k \in 1 .. n - 1, Covers(Tail(q)[k], i),
                      \A l \in k + 1 .. n - 1 : ~Replaces(Tail(q)[l], i)
               PROVE  Says(Tail(q)[k], i) = v
    BY <1>1 DEF Tells
  <2>1. k + 1 \in 1 .. n /\ Tail(q)[k] = q[k + 1]
    BY <1>1
  <2>2. ASSUME NEW l \in (k + 1) + 1 .. n PROVE ~Replaces(q[l], i)
    <3>1. l - 1 \in k + 1 .. n - 1 /\ q[l] = Tail(q)[l - 1]
      BY <1>1, <1>2
    <3> QED
      BY <3>1
  <2> QED
    BY <1>5, <2>1, <2>2 DEF Tells, n
<1>6. ASSUME Tells(q, i, v), Silent(Tail(q), i), Covers(Head(q), i)
      PROVE  Says(Head(q), i) = v
  <2>1. \A l \in 1 + 1 .. n : ~Replaces(q[l], i)
    BY <1>3, <1>6
  <2> QED
    BY <1>1, <1>6, <2>1 DEF Tells, n
<1> QED
  BY <1>4, <1>5, <1>6

(* And when a message joins.                                               *)
LEMMA Added ==
  ASSUME NEW S, NEW q \in Seq(S), NEW m \in S, NEW i, NEW v
  PROVE  /\ Silent(Append(q, m), i) <=> Silent(q, i) /\ ~Replaces(m, i)
         /\ (Covers(m, i) => Says(m, i) = v) /\ (Replaces(m, i) \/ Tells(q, i, v))
              => Tells(Append(q, m), i, v)
<1> DEFINE n == Len(q)
           r == Append(q, m)
<1>1. /\ n \in Nat /\ Len(r) = n + 1 /\ r[n + 1] = m
      /\ \A k \in 1 .. n : r[k] = q[k]
  BY AppendProperties, LenProperties
<1> HIDE DEF r
<1>2. \A k \in 1 .. n + 1 : k \in 1 .. n \/ k = n + 1
  BY <1>1
<1>3. \A k \in 1 .. n : k \in 1 .. n + 1
  BY <1>1
<1>4. n + 1 \in 1 .. n + 1
  BY <1>1
<1>5. Silent(r, i) <=> Silent(q, i) /\ ~Replaces(m, i)
  BY <1>1, <1>2, <1>3, <1>4 DEF Silent
<1>6. ASSUME Covers(m, i) => Says(m, i) = v, Replaces(m, i) \/ Tells(q, i, v)
      PROVE  Tells(r, i, v)
  <2> SUFFICES ASSUME NEW k \in 1 .. n + 1, Covers(r[k], i),
                      \A l \in k + 1 .. n + 1 : ~Replaces(r[l], i)
               PROVE  Says(r[k], i) = v
    BY <1>1 DEF Tells
  <2>1. CASE k = n + 1
    BY <1>1, <1>6, <2>1
  <2>2. CASE k \in 1 .. n
    <3>1. n + 1 \in k + 1 .. n + 1 /\ \A l \in k + 1 .. n : l \in k + 1 .. n + 1 /\ l \in 1 .. n
      BY <1>1, <2>2
    <3>2. Tells(q, i, v)
      BY <1>1, <1>6, <3>1
    <3>3. \A l \in k + 1 .. n : ~Replaces(q[l], i)
      BY <1>1, <3>1
    <3>4. Covers(q[k], i) /\ r[k] = q[k]
      BY <1>1, <2>2
    <3> QED
      BY <2>2, <3>2, <3>3, <3>4 DEF Tells
  <2> QED
    BY <1>2, <2>1, <2>2
<1> QED
  BY <1>5, <1>6 DEF r

(* And when a queue is put behind it.                                      *)
LEMMA Joined ==
  ASSUME NEW S, NEW q \in Seq(S), NEW r \in Seq(S), NEW i, NEW v
  PROVE  /\ Silent(q \o r, i) <=> Silent(q, i) /\ Silent(r, i)
         /\ Tells(r, i, v) /\ (~Silent(r, i) \/ Tells(q, i, v)) => Tells(q \o r, i, v)
<1> DEFINE n == Len(q)
           p == Len(r)
           s == q \o r
<1>1. /\ n \in Nat /\ p \in Nat /\ Len(s) = n + p
      /\ \A k \in 1 .. n + p : s[k] = IF k <= n THEN q[k] ELSE r[k - n]
  BY ConcatProperties, LenProperties
<1> HIDE DEF n, p, s
<1>2. \A k \in 1 .. n : k \in 1 .. n + p /\ s[k] = q[k]
  BY <1>1
<1>3. \A k \in 1 .. p : n + k \in 1 .. n + p /\ s[n + k] = r[k]
  <2>1. ASSUME NEW k \in 1 .. p
        PROVE  n + k \in 1 .. n + p /\ ~(n + k <= n) /\ (n + k) - n = k
    BY <1>1
  <2> QED
    BY <1>1, <2>1
<1>4. \A k \in 1 .. n + p : k \in 1 .. n \/ (k - n \in 1 .. p /\ k = n + (k - n))
  BY <1>1
<1>5. Silent(s, i) <=> Silent(q, i) /\ Silent(r, i)
  <2>1. ASSUME Silent(s, i) PROVE Silent(q, i) /\ Silent(r, i)
    BY <1>1, <1>2, <1>3, <2>1 DEF Silent, n, p
  <2>2. ASSUME Silent(q, i), Silent(r, i), NEW k \in 1 .. n + p PROVE ~Replaces(s[k], i)
    BY <1>1, <1>2, <1>3, <1>4, <2>2 DEF Silent, n, p
  <2> QED
    BY <1>1, <2>1, <2>2 DEF Silent
<1>6. ASSUME Tells(r, i, v), ~Silent(r, i) \/ Tells(q, i, v)
      PROVE  Tells(s, i, v)
  <2> SUFFICES ASSUME NEW k \in 1 .. n + p, Covers(s[k], i),
                      \A l \in k + 1 .. n + p : ~Replaces(s[l], i)
               PROVE  Says(s[k], i) = v
    BY <1>1 DEF Tells
  <2>1. CASE k \in 1 .. n
    <3>1. ASSUME NEW l \in 1 .. p PROVE ~Replaces(r[l], i)
      <4>1. n + l \in k + 1 .. n + p
        BY <1>1, <2>1
      <4> QED
        BY <1>3, <4>1
    <3>2. Tells(q, i, v)
      BY <1>6, <3>1 DEF Silent, p
    <3>3. ASSUME NEW l \in k + 1 .. n PROVE ~Replaces(q[l], i)
      <4>1. l \in k + 1 .. n + p /\ l \in 1 .. n
        BY <1>1, <2>1
      <4> QED
        BY <1>2, <4>1
    <3> QED
      BY <1>2, <2>1, <3>2, <3>3 DEF Tells, n
  <2>2. CASE k - n \in 1 .. p /\ k = n + (k - n)
    <3>1. s[k] = r[k - n]
      BY <1>3, <2>2
    <3>2. ASSUME NEW l \in (k - n) + 1 .. p PROVE ~Replaces(r[l], i)
      <4>1. n + l \in k + 1 .. n + p /\ l \in 1 .. p
        BY <1>1, <2>2
      <4> QED
        BY <1>3, <4>1
    <3> QED
      BY <1>6, <2>2, <3>1, <3>2 DEF Tells, p
  <2> QED
    BY <1>4, <2>1, <2>2
<1> QED
  BY <1>5, <1>6 DEF s
-----------------------------------------------------------------------------
(* What the queue of the server says is in its messages.                   *)
LEMMA MsgsOf ==
  ASSUME NEW q \in Seq(Sending)
  PROVE  /\ Msgs(q) \in Seq(Message) /\ Len(Msgs(q)) = Len(q)
         /\ \A k \in 1 .. Len(q) : Msgs(q)[k] = q[k].msg
<1>1. Len(q) \in Nat /\ \A k \in 1 .. Len(q) : q[k] \in Sending
  BY LenProperties, ElementOfSeq
<1>2. \A k \in 1 .. Len(q) : q[k].msg \in Message
  BY <1>1 DEF Sending
<1>3. Msgs(q) \in [1 .. Len(q) -> Message]
  BY <1>2 DEF Msgs
<1>4. Msgs(q) \in Seq(Message)
  BY <1>1, <1>3, SeqDef
<1>5. Len(Msgs(q)) = Len(q)
  BY <1>1, <1>3, <1>4, LenProperties
<1> QED
  BY <1>4, <1>5 DEF Msgs

LEMMA MsgsTail ==
  ASSUME NEW q \in Seq(Sending), q # <<>>
  PROVE  /\ Tail(q) \in Seq(Sending) /\ Head(q) \in Sending
         /\ Msgs(q) # <<>> /\ Head(Msgs(q)) = Head(q).msg
         /\ Msgs(Tail(q)) = Tail(Msgs(q))
<1>1. /\ Tail(q) \in Seq(Sending) /\ Head(q) \in Sending /\ Len(Tail(q)) = Len(q) - 1
      /\ Len(q) \in Nat /\ Len(q) # 0 /\ Head(q) = q[1]
      /\ \A k \in 1 .. Len(q) - 1 : Tail(q)[k] = q[k + 1]
  BY HeadTailProperties, LenProperties, EmptySeq
<1>2. /\ Msgs(q) \in Seq(Message) /\ Len(Msgs(q)) = Len(q) /\ Msgs(q) # <<>>
      /\ \A k \in 1 .. Len(q) : Msgs(q)[k] = q[k].msg
  BY <1>1, MsgsOf, EmptySeq
<1>3. /\ Tail(Msgs(q)) \in Seq(Message) /\ Len(Tail(Msgs(q))) = Len(q) - 1
      /\ \A k \in 1 .. Len(q) - 1 : Tail(Msgs(q))[k] = Msgs(q)[k + 1]
  BY <1>2, HeadTailProperties
<1>4. /\ Msgs(Tail(q)) \in Seq(Message) /\ Len(Msgs(Tail(q))) = Len(q) - 1
      /\ \A k \in 1 .. Len(q) - 1 : Msgs(Tail(q))[k] = Tail(q)[k].msg
  BY <1>1, MsgsOf
<1>5. \A k \in 1 .. Len(q) - 1 : Msgs(Tail(q))[k] = Tail(Msgs(q))[k]
  <2> TAKE k \in 1 .. Len(q) - 1
  <2>1. k + 1 \in 1 .. Len(q)
    BY <1>1
  <2> QED
    BY <1>1, <1>2, <1>3, <1>4, <2>1
<1>6. Msgs(Tail(q)) = Tail(Msgs(q))
  BY <1>3, <1>4, <1>5, SeqEqual
<1>7. Head(Msgs(q)) = Head(q).msg
  BY <1>1, <1>2
<1> QED
  BY <1>1, <1>2, <1>6, <1>7

LEMMA MsgsAppend ==
  ASSUME NEW q \in Seq(Sending), NEW b \in Sending
  PROVE  /\ Append(q, b) \in Seq(Sending)
         /\ Msgs(Append(q, b)) = Append(Msgs(q), b.msg)
<1> DEFINE n == Len(q)
           r == Append(q, b)
           s == Append(Msgs(q), b.msg)
<1>1. /\ r \in Seq(Sending) /\ n \in Nat /\ Len(r) = n + 1
      /\ r[n + 1] = b /\ \A k \in 1 .. n : r[k] = q[k]
  BY AppendProperties, LenProperties
<1>2. /\ Msgs(q) \in Seq(Message) /\ Len(Msgs(q)) = n /\ b.msg \in Message
      /\ \A k \in 1 .. n : Msgs(q)[k] = q[k].msg
  BY MsgsOf DEF Sending
<1>3. /\ s \in Seq(Message) /\ Len(s) = n + 1
      /\ s[n + 1] = b.msg /\ \A k \in 1 .. n : s[k] = Msgs(q)[k]
  BY <1>2, AppendProperties
<1>4. /\ Msgs(r) \in Seq(Message) /\ Len(Msgs(r)) = n + 1
      /\ \A k \in 1 .. n + 1 : Msgs(r)[k] = r[k].msg
  BY <1>1, MsgsOf
<1> HIDE DEF n, r, s
<1>5. \A k \in 1 .. n + 1 : k \in 1 .. n \/ k = n + 1
  BY <1>1
<1>6. \A k \in 1 .. n + 1 : Msgs(r)[k] = s[k]
  BY <1>1, <1>2, <1>3, <1>4, <1>5
<1>7. Msgs(r) = s
  BY <1>3, <1>4, <1>6, SeqEqual
<1> QED
  BY <1>1, <1>7 DEF r, s

LEMMA MsgsConcat ==
  ASSUME NEW q \in Seq(Sending), NEW r \in Seq(Sending)
  PROVE  /\ q \o r \in Seq(Sending)
         /\ Msgs(q \o r) = Msgs(q) \o Msgs(r)
<1> DEFINE n == Len(q)
           p == Len(r)
           s == q \o r
           t == Msgs(q) \o Msgs(r)
<1>1. /\ s \in Seq(Sending) /\ n \in Nat /\ p \in Nat /\ Len(s) = n + p
      /\ \A k \in 1 .. n + p : s[k] = IF k <= n THEN q[k] ELSE r[k - n]
  BY ConcatProperties, LenProperties
<1>2. /\ Msgs(q) \in Seq(Message) /\ Len(Msgs(q)) = n
      /\ \A k \in 1 .. n : Msgs(q)[k] = q[k].msg
  BY MsgsOf
<1>3. /\ Msgs(r) \in Seq(Message) /\ Len(Msgs(r)) = p
      /\ \A k \in 1 .. p : Msgs(r)[k] = r[k].msg
  BY MsgsOf
<1>4. /\ t \in Seq(Message) /\ Len(t) = n + p
      /\ \A k \in 1 .. n + p : t[k] = IF k <= n THEN Msgs(q)[k] ELSE Msgs(r)[k - n]
  <2>1. /\ t \in Seq(Message) /\ Len(t) = Len(Msgs(q)) + Len(Msgs(r))
        /\ \A k \in 1 .. Len(Msgs(q)) + Len(Msgs(r)) :
             t[k] = IF k <= Len(Msgs(q)) THEN Msgs(q)[k] ELSE Msgs(r)[k - Len(Msgs(q))]
    <3>1. Msgs(q) \in Seq(Message) /\ Msgs(r) \in Seq(Message)
      BY <1>2, <1>3
    <3> QED
      BY <3>1, ConcatProperties, Zenon
  <2> QED
    BY <1>2, <1>3, <2>1
<1>5. /\ Msgs(s) \in Seq(Message) /\ Len(Msgs(s)) = n + p
      /\ \A k \in 1 .. n + p : Msgs(s)[k] = s[k].msg
  BY <1>1, MsgsOf
<1> HIDE DEF n, p, s, t
<1>6. \A k \in 1 .. n + p : Msgs(s)[k] = t[k]
  <2> TAKE k \in 1 .. n + p
  <2>1. CASE k <= n
    <3>1. k \in 1 .. n
      BY <1>1, <2>1
    <3> QED
      BY <1>1, <1>2, <1>4, <1>5, <2>1, <3>1
  <2>2. CASE ~(k <= n)
    <3>1. k - n \in 1 .. p
      BY <1>1, <2>2
    <3> QED
      BY <1>1, <1>3, <1>4, <1>5, <2>2, <3>1
  <2> QED
    BY <2>1, <2>2
<1>7. Msgs(s) = t
  BY <1>4, <1>5, <1>6, SeqEqual
<1> QED
  BY <1>1, <1>7 DEF s, t
-----------------------------------------------------------------------------
(* A client who has nothing misses nothing.                                *)
LEMMA NothingTold == \A i, v : Tells(<<>>, i, v)
  BY EmptySeq DEF Tells

LEMMA NothingWrong ==
  ASSUME NEW c \in Client, net[c] = <<>>, scripts[c] = <<>>, have[c] = <<>>
  PROVE  Arriving(c) /\ Spawned(c) /\ Known(c)
<1>1. Arriving(c) /\ Spawned(c)
  BY NothingTold DEF Arriving, Spawned
<1>2. \A i \in Place : ~(i <= Len(have[c]))
  BY EmptySeq DEF Place
<1> QED
  BY <1>1, <1>2 DEF Known

LEMMA NothingWrongNext ==
  ASSUME NEW c \in Client, net'[c] = <<>>, scripts'[c] = <<>>, have'[c] = <<>>
  PROVE  (Arriving(c) /\ Spawned(c) /\ Known(c))'
<1>1. Arriving(c)' /\ Spawned(c)'
  BY NothingTold DEF Arriving, Spawned
<1>2. \A i \in Place : ~(i <= Len(have'[c]))
  BY EmptySeq DEF Place
<1> QED
  BY <1>1, <1>2 DEF Known

LEMMA StartsVehicles == Init => VInv
<1> SUFFICES ASSUME Init PROVE VInv
  OBVIOUS
<1>1. Typed
  BY VehicleAssumption, EmptySeq DEF Init, Typed, Place
<1>2. Absent
  BY DEF Init, Absent
<1>3. Msgs(cpq) \in Seq(Message) /\ Len(Msgs(cpq)) = 0
  BY <1>1, EmptySeq, MsgsOf DEF Init, Typed
<1>4. Queued
  BY <1>3 DEF Queued, Tells
<1>5. Copies
  BY NothingWrong DEF Init, Copies
<1> QED
  BY <1>1, <1>2, <1>4, <1>5 DEF VInv

(* A step that neither replaces a vehicle nor moves a message.             *)
LEMMA CopiesStand ==
  ASSUME VInv, UNCHANGED <<list, cpq, net, scripts, have>>
  PROVE  Queued' /\ Copies'
  BY DEF VInv, Queued, Copies, Arriving, Spawned, Known

LEMMA ConnectStep == ASSUME VInv, NEW c \in Client, Connect(c) PROVE VInv'
<1>1. UNCHANGED <<server, cpq, hello, net, scripts, have>>
  BY DEF Connect, clients
<1>2. Typed'
  BY <1>1 DEF VInv, Typed, Connect, server
<1>3. Absent'
  BY <1>1 DEF VInv, Absent, Connect, Typed
<1> QED
  BY <1>1, <1>2, <1>3, CopiesStand DEF VInv, server

LEMMA GreetStep == ASSUME VInv, NEW c \in Client, Greet(c) PROVE VInv'
<1>1. UNCHANGED <<server, cpq, net, scripts, have>>
  BY DEF Greet, clients
<1>2. Typed'
  BY <1>1 DEF VInv, Typed, Greet, server
<1>3. Absent'
  BY <1>1 DEF VInv, Absent, Greet, Typed
<1> QED
  BY <1>1, <1>2, <1>3, CopiesStand DEF VInv, server

LEMMA ConnectUIDStep == ASSUME VInv, NEW c \in Client, ConnectUID(c) PROVE VInv'
<1>1. UNCHANGED <<list, current, addr, cpq, state, net, scripts, have>>
  BY DEF ConnectUID, clients
<1>2. Typed'
  BY <1>1 DEF VInv, Typed, ConnectUID
<1>3. Absent'
  BY <1>1 DEF VInv, Absent
<1> QED
  BY <1>1, <1>2, <1>3, CopiesStand DEF VInv

LEMMA LeaveStep == ASSUME VInv, NEW c \in Client, Leave(c) PROVE VInv'
<1>1. /\ UNCHANGED <<server, cpq>>
      /\ state' = [state EXCEPT ![c] = "gone"]
      /\ net' = [net EXCEPT ![c] = <<>>]
      /\ scripts' = [scripts EXCEPT ![c] = <<>>]
      /\ have' = [have EXCEPT ![c] = <<>>]
      /\ hello' \subseteq hello
  BY DEF Leave
<1>2. Typed'
  BY <1>1, EmptySeq, VehicleAssumption DEF VInv, Typed, server
<1>3. /\ net'[c] = <<>> /\ scripts'[c] = <<>> /\ have'[c] = <<>>
      /\ \A d \in Client \ {c} : /\ net'[d] = net[d] /\ scripts'[d] = scripts[d]
                                 /\ have'[d] = have[d] /\ state'[d] = state[d]
  BY <1>1 DEF VInv, Typed
<1>4. Absent'
  BY <1>3 DEF VInv, Absent
<1>5. Queued' /\ UNCHANGED <<list, cpq>>
  BY <1>1 DEF VInv, Queued, server
<1>6. ASSUME NEW d \in Client
      PROVE  (Arriving(d) /\ Spawned(d) /\ Known(d))'
  <2>1. CASE d = c
    BY <1>3, <2>1, NothingWrongNext
  <2>2. CASE d # c
    BY <1>3, <1>5, <2>2 DEF VInv, Copies, Arriving, Spawned, Known
  <2> QED
    BY <2>1, <2>2
<1> QED
  BY <1>2, <1>4, <1>5, <1>6 DEF VInv, Copies
-----------------------------------------------------------------------------
(* The first message of the queue is delivered to those who are connected: *)
(* if it is a replacement, to all of them.                                 *)
LEMMA CriticalProcessorStep ==
  ASSUME VInv, CriticalProcessor
  PROVE  VInv'
<1> DEFINE b == Head(cpq)
           m == Head(cpq).msg
           M == Msgs(cpq)
<1>1. /\ cpq \in Seq(Sending) /\ cpq # <<>> /\ cpq' = Tail(cpq)
      /\ UNCHANGED <<list, pending, last, current, addr, state, hello, scripts, have>>
      /\ net' = [c \in Client |->
           IF state[c] \in {"connected", "waiting"} /\ b.to \in {c, All}
             THEN Append(net[c], m) ELSE net[c]]
  BY DEF CriticalProcessor, VInv, Typed, server, clients
<1>2. /\ cpq' \in Seq(Sending) /\ b \in Sending /\ M # <<>> /\ Head(M) = m
      /\ Msgs(cpq') = Tail(M) /\ M \in Seq(Message)
  BY <1>1, MsgsTail, MsgsOf
<1>3. m \in Message /\ (m.kind = "VR_UpdIndex" => b.to = All)
  BY <1>2 DEF Sending
<1>4. \A c \in Client : net[c] \in Seq(Message)
  BY DEF VInv, Typed
<1> HIDE DEF b, m, M
<1>5. \A c \in Client : net'[c] \in Seq(Message)
  <2> TAKE c \in Client
  <2>1. Append(net[c], m) \in Seq(Message)
    BY <1>3, <1>4, AppendProperties
  <2> QED
    BY <1>1, <1>4, <2>1
<1>6. Typed'
  BY <1>1, <1>2, <1>5 DEF VInv, Typed
<1>7. Absent'
  BY <1>1 DEF VInv, Absent
<1>8. ASSUME NEW i \in Place
      PROVE  /\ Silent(Tail(M), i) /\ ~Replaces(m, i) => Silent(M, i)
             /\ Tells(Tail(M), i, list[i])
             /\ Silent(Tail(M), i) /\ Covers(m, i) => Says(m, i) = list[i]
  <2>1. Tells(M, i, list[i])
    BY DEF VInv, Queued, M
  <2> QED
    BY <1>2, <2>1, Dropped
<1>9. Queued'
  BY <1>1, <1>2, <1>8 DEF Queued
<1>10. ASSUME NEW c \in Client
       PROVE  (Arriving(c) /\ Spawned(c) /\ Known(c))'
  <2>0. Arriving(c) /\ Spawned(c) /\ Known(c)
    BY DEF VInv, Copies
  <2>1. CASE state[c] \in {"connected", "waiting"} /\ b.to \in {c, All}
    <3>1. net'[c] = Append(net[c], m)
      BY <1>1, <2>1
    <3>2. ASSUME NEW i \in Place
          PROVE  /\ Silent(net'[c], i) <=> Silent(net[c], i) /\ ~Replaces(m, i)
                 /\ (Covers(m, i) => Says(m, i) = list[i])
                      /\ (Replaces(m, i) \/ Tells(net[c], i, list[i]))
                    => Tells(net'[c], i, list[i])
      BY <1>3, <1>4, <3>1, Added
    <3>3. Arriving(c)'
      <4>1. ASSUME NEW i \in Place, Silent(Tail(M), i) PROVE Tells(net'[c], i, list[i])
        BY <1>8, <2>0, <3>2, <4>1 DEF Arriving, M
      <4> QED
        BY <1>1, <1>2, <4>1 DEF Arriving
    <3>4. Spawned(c)'
      <4>1. ASSUME NEW i \in Place, Silent(Tail(M), i), Silent(net'[c], i)
            PROVE  Tells(scripts[c], i, list[i])
        BY <1>8, <2>0, <3>2, <4>1 DEF Spawned, M
      <4> QED
        BY <1>1, <1>2, <4>1 DEF Spawned
    <3>5. Known(c)'
      <4>1. ASSUME NEW i \in Place, Silent(Tail(M), i), Silent(net'[c], i),
                   Silent(scripts[c], i), i <= Len(have[c])
            PROVE  have[c][i] = list[i]
        BY <1>8, <2>0, <3>2, <4>1 DEF Known, M
      <4> QED
        BY <1>1, <1>2, <4>1 DEF Known
    <3> QED
      BY <3>3, <3>4, <3>5
  <2>2. CASE state[c] \in {"out", "gone"}
    BY <1>1, <2>2, NothingWrongNext DEF VInv, Absent
  <2>3. CASE b.to \notin {c, All}
    <3>1. net'[c] = net[c] /\ \A i \in Place : ~Replaces(m, i)
      BY <1>1, <1>3, <2>3 DEF Replaces
    <3>2. \A i \in Place : Silent(Tail(M), i) => Silent(M, i)
      BY <1>8, <3>1
    <3> QED
      BY <1>1, <1>2, <2>0, <3>1, <3>2 DEF Arriving, Spawned, Known, M
  <2> QED
    BY <2>1, <2>2, <2>3 DEF VInv, Typed
<1> QED
  BY <1>6, <1>7, <1>9, <1>10 DEF VInv, Copies

(* A client takes a block in, or starts the script of a replacement: what  *)
(* the others have does not change.                                        *)
LEMMA OtherCopies ==
  ASSUME VInv, NEW c \in Client, UNCHANGED <<list, cpq, state>>,
         \A d \in Client \ {c} :
           net'[d] = net[d] /\ scripts'[d] = scripts[d] /\ have'[d] = have[d],
         state[c] \notin {"out", "gone"},
         (Arriving(c) /\ Spawned(c) /\ Known(c))'
  PROVE  Absent' /\ Queued' /\ Copies'
<1>1. Absent'
  BY DEF VInv, Absent
<1>2. Queued'
  BY DEF VInv, Queued
<1>3. ASSUME NEW d \in Client \ {c}
      PROVE  (Arriving(d) /\ Spawned(d) /\ Known(d))'
  BY DEF VInv, Copies, Arriving, Spawned, Known
<1> QED
  BY <1>1, <1>2, <1>3 DEF Copies

LEMMA ReceiveStep ==
  ASSUME VInv, NEW c \in Client, Receive(c)
  PROVE  VInv'
<1> DEFINE q == net[c]
           m == Head(net[c])
           M == Msgs(cpq)
           old == have[c]
           Upds == {n \in Message : n.kind = "VR_UpdIndex"}
<1>1. /\ q \in Seq(Message) /\ q # <<>> /\ Tail(q) \in Seq(Message) /\ m \in Message
      /\ old \in Seq(Nat) /\ Len(old) \in Nat
      /\ scripts[c] \in Seq(Upds)
  BY HeadTailProperties, LenProperties DEF Receive, VInv, Typed
<1>2. /\ net' = [net EXCEPT ![c] = Tail(q)]
      /\ UNCHANGED <<list, pending, last, current, addr, cpq, state, hello>>
  BY DEF Receive, server
<1>3. /\ net'[c] = Tail(q) /\ net' \in [Client -> Seq(Message)]
      /\ \A d \in Client \ {c} : net'[d] = net[d]
  BY <1>1, <1>2 DEF VInv, Typed
<1>4. state[c] \notin {"out", "gone"}
  BY <1>1 DEF VInv, Absent
<1>5. m.vehicles \in Seq(Nat) /\ Len(m.vehicles) \in Nat /\ m.index \in Nat
      /\ m.index + Len(m.vehicles) <= Count
      /\ m.kind \in {"VR_UpdIndex", "VR_AddVBlck"}
  BY <1>1, LenProperties DEF Message
<1> HIDE DEF q, m, M, old, Upds
<1>6. ASSUME NEW i \in Place, Silent(M, i)
      PROVE  /\ Tells(Tail(q), i, list[i])
             /\ Silent(Tail(q), i) /\ ~Replaces(m, i) => Silent(q, i)
             /\ Silent(Tail(q), i) /\ Covers(m, i) => Says(m, i) = list[i]
  <2>1. Tells(q, i, list[i])
    BY <1>6 DEF VInv, Copies, Arriving, q, M
  <2> QED
    BY <1>1, <2>1, Dropped DEF m, q
<1>7. Arriving(c)'
  BY <1>2, <1>3, <1>6 DEF Arriving, M
<1>8. Spawned(c) /\ Known(c)
  BY DEF VInv, Copies
<1>9. CASE m.kind = "VR_AddVBlck"
  <2>1. \A i \in Place : ~Replaces(m, i)
    BY <1>9 DEF Replaces
  <2>2. UNCHANGED scripts
    BY <1>9 DEF Receive, m
  <2>3. ASSUME NEW i \in Place, Silent(M, i), Silent(Tail(q), i)
        PROVE  /\ Tells(scripts[c], i, list[i])
               /\ Covers(m, i) => Says(m, i) = list[i]
               /\ Silent(scripts[c], i) /\ i <= Len(old) => old[i] = list[i]
    BY <1>6, <1>8, <2>1, <2>3 DEF Spawned, Known, M, q, old
  <2>4. Spawned(c)'
    BY <1>2, <1>3, <2>2, <2>3 DEF Spawned, M
  <2>5. CASE m.index # Len(old)
    <3>1. UNCHANGED have
      BY <1>9, <2>5 DEF Receive, AddVBlck, m, old
    <3>2. Known(c)'
      BY <1>2, <1>3, <2>2, <2>3, <3>1 DEF Known, M, old
    <3>3. Typed'
      BY <1>2, <1>3, <2>2, <3>1 DEF VInv, Typed
    <3> QED
      BY <1>2, <1>3, <1>4, <1>7, <2>2, <2>4, <3>1, <3>2, <3>3, OtherCopies DEF VInv
  <2>6. CASE m.index = Len(old)
    <3> DEFINE new == old \o m.vehicles
    <3>1. have' = [have EXCEPT ![c] = new]
      BY <1>9, <2>6 DEF Receive, AddVBlck, m, old
    <3>2. /\ new \in Seq(Nat) /\ Len(new) = Len(old) + Len(m.vehicles)
          /\ \A i \in 1 .. Len(old) + Len(m.vehicles) :
               new[i] = IF i <= Len(old) THEN old[i] ELSE m.vehicles[i - Len(old)]
      BY <1>1, <1>5, ConcatProperties
    <3> HIDE DEF new
    <3>3. /\ have'[c] = new /\ have' \in [Client -> Seq(Nat)]
          /\ \A d \in Client \ {c} : have'[d] = have[d]
      BY <3>1, <3>2 DEF VInv, Typed
    <3>4. ASSUME NEW i \in Place, Silent(M, i), Silent(Tail(q), i), Silent(scripts[c], i),
                 i <= Len(new)
          PROVE  new[i] = list[i]
      <4>1. i \in Nat /\ i \in 1 .. Len(old) + Len(m.vehicles)
        BY <1>1, <1>5, <3>2, <3>4, VehicleAssumption DEF Place
      <4>2. CASE i <= Len(old)
        BY <2>3, <3>2, <3>4, <4>1, <4>2
      <4>3. CASE ~(i <= Len(old))
        <5>1. Covers(m, i) /\ Says(m, i) = m.vehicles[i - Len(old)]
          BY <1>1, <1>5, <2>6, <4>1, <4>3 DEF Covers, Says
        <5> QED
          BY <2>3, <3>2, <3>4, <4>1, <4>3, <5>1
      <4> QED
        BY <4>2, <4>3
    <3>5. Known(c)'
      BY <1>2, <1>3, <2>2, <3>3, <3>4 DEF Known, M
    <3>6. Len(new) <= Count
      BY <1>5, <2>6, <3>2
    <3>7. Typed'
      BY <1>2, <1>3, <2>2, <3>3, <3>6 DEF VInv, Typed
    <3> QED
      BY <1>2, <1>3, <1>4, <1>7, <2>2, <2>4, <3>3, <3>5, <3>7, OtherCopies DEF VInv
  <2> QED
    BY <2>5, <2>6
<1>10. CASE m.kind = "VR_UpdIndex"
  <2>1. scripts' = [scripts EXCEPT ![c] = Append(@, m)] /\ UNCHANGED have
    BY <1>10 DEF Receive, m
  <2>2. m \in Upds /\ Append(scripts[c], m) \in Seq(Upds)
    BY <1>1, <1>10, AppendProperties DEF Upds
  <2>3. /\ scripts'[c] = Append(scripts[c], m) /\ scripts' \in [Client -> Seq(Upds)]
        /\ \A d \in Client \ {c} : scripts'[d] = scripts[d]
    BY <2>1, <2>2 DEF VInv, Typed, Upds
  <2>4. ASSUME NEW i \in Place
        PROVE  /\ Silent(scripts'[c], i) => Silent(scripts[c], i) /\ ~Replaces(m, i)
               /\ (Covers(m, i) => Says(m, i) = list[i])
                    /\ (Replaces(m, i) \/ Tells(scripts[c], i, list[i]))
                  => Tells(scripts'[c], i, list[i])
    BY <1>1, <2>2, <2>3, Added
  <2>5. Spawned(c)'
    <3>1. ASSUME NEW i \in Place, Silent(M, i), Silent(Tail(q), i)
          PROVE  Tells(scripts'[c], i, list[i])
      BY <1>6, <1>8, <2>4, <3>1 DEF Spawned, M, q
    <3> QED
      BY <1>2, <1>3, <3>1 DEF Spawned, M
  <2>6. Known(c)'
    <3>1. ASSUME NEW i \in Place, Silent(M, i), Silent(Tail(q), i),
                 Silent(scripts'[c], i), i <= Len(have[c])
          PROVE  have[c][i] = list[i]
      BY <1>6, <1>8, <2>4, <3>1 DEF Known, M, q
    <3> QED
      BY <1>2, <1>3, <2>1, <3>1 DEF Known, M
  <2>7. Typed'
    BY <1>2, <1>3, <2>1, <2>3 DEF VInv, Typed, Upds
  <2> QED
    BY <1>2, <1>3, <1>4, <1>7, <2>1, <2>3, <2>5, <2>6, <2>7, OtherCopies DEF VInv
<1> QED
  BY <1>5, <1>9, <1>10

(* The script of a replacement is run.                                     *)
LEMMA UpdIndexStep ==
  ASSUME VInv, NEW c \in Client, UpdIndex(c)
  PROVE  VInv'
<1> DEFINE Upds == {n \in Message : n.kind = "VR_UpdIndex"}
           q == scripts[c]
           m == Head(scripts[c])
           M == Msgs(cpq)
           old == have[c]
           new == have'[c]
<1>1. /\ q \in Seq(Upds) /\ q # <<>> /\ Tail(q) \in Seq(Upds) /\ m \in Upds
      /\ old \in Seq(Nat) /\ Len(old) \in Nat /\ Len(old) <= Count
  BY HeadTailProperties, LenProperties DEF UpdIndex, VInv, Typed
<1>2. /\ scripts' = [scripts EXCEPT ![c] = Tail(q)]
      /\ UNCHANGED <<list, pending, last, current, addr, cpq, state, hello, net>>
      /\ have' = IF m.index >= Len(old) THEN have
                 ELSE [have EXCEPT ![c] = [old EXCEPT ![m.index + 1] = m.vehicles[1]]]
  BY DEF UpdIndex, server
<1>3. /\ scripts'[c] = Tail(q) /\ scripts' \in [Client -> Seq(Upds)]
      /\ \A d \in Client \ {c} : scripts'[d] = scripts[d]
  BY <1>1, <1>2 DEF VInv, Typed
<1>4. state[c] \notin {"out", "gone"}
  BY <1>1 DEF VInv, Absent
<1>5. /\ m.kind = "VR_UpdIndex" /\ m.vehicles[1] \in Nat /\ m.index \in Nat
      /\ Len(m.vehicles) = 1
  <2>1. m.kind = "VR_UpdIndex" /\ m.vehicles \in Seq(Nat) /\ m.index \in Nat
        /\ Len(m.vehicles) = 1
    BY <1>1 DEF Message
  <2> QED
    BY <2>1, ElementOfSeq
<1> HIDE DEF q, m, M, old, new, Upds
<1>6. /\ new \in Seq(Nat) /\ Len(new) = Len(old) /\ have' \in [Client -> Seq(Nat)]
      /\ \A i \in 1 .. Len(old) :
           new[i] = IF i = m.index + 1 THEN m.vehicles[1] ELSE old[i]
      /\ \A d \in Client \ {c} : have'[d] = have[d]
  <2>1. CASE m.index >= Len(old)
    <3>1. have' = have
      BY <1>2, <2>1
    <3>2. \A i \in 1 .. Len(old) : i # m.index + 1
      BY <1>1, <1>5, <2>1
    <3> QED
      BY <1>1, <3>1, <3>2 DEF VInv, Typed, new, old
  <2>2. CASE ~(m.index >= Len(old))
    <3> DEFINE e == [old EXCEPT ![m.index + 1] = m.vehicles[1]]
    <3>1. m.index + 1 \in 1 .. Len(old)
      BY <1>1, <1>5, <2>2
    <3>2. /\ e \in Seq(Nat) /\ Len(e) = Len(old)
          /\ \A i \in 1 .. Len(old) :
               e[i] = IF i = m.index + 1 THEN m.vehicles[1] ELSE old[i]
      BY <1>1, <1>5, <3>1, ExceptSeq
    <3>3. have' = [have EXCEPT ![c] = e]
      BY <1>2, <2>2
    <3> HIDE DEF e
    <3>4. new = e
      BY <3>3 DEF VInv, Typed, new
    <3> QED
      BY <3>2, <3>3, <3>4 DEF VInv, Typed
  <2> QED
    BY <2>1, <2>2
<1>7. Arriving(c) /\ Spawned(c) /\ Known(c)
  BY DEF VInv, Copies
<1>8. ASSUME NEW i \in Place, Silent(M, i), Silent(net[c], i)
      PROVE  /\ Tells(Tail(q), i, list[i])
             /\ Silent(Tail(q), i) /\ ~Replaces(m, i) => Silent(q, i)
             /\ Silent(Tail(q), i) /\ Covers(m, i) => Says(m, i) = list[i]
  <2>1. Tells(q, i, list[i])
    BY <1>7, <1>8 DEF Spawned, q, M
  <2> QED
    BY <1>1, <2>1, Dropped DEF m, q
<1>9. Arriving(c)' /\ Spawned(c)'
  BY <1>2, <1>3, <1>7, <1>8 DEF Arriving, Spawned, M
<1>10. Known(c)'
  <2>1. ASSUME NEW i \in Place, Silent(M, i), Silent(net[c], i), Silent(Tail(q), i),
               i <= Len(new)
        PROVE  new[i] = list[i]
    <3>1. i \in Nat /\ i \in 1 .. Len(old) /\ i <= Len(old)
      BY <1>1, <1>6, <2>1, VehicleAssumption DEF Place
    <3>2. CASE i = m.index + 1
      <4>1. Covers(m, i) /\ Says(m, i) = m.vehicles[1]
        BY <1>5, <3>1, <3>2 DEF Covers, Says
      <4> QED
        BY <1>6, <1>8, <2>1, <3>1, <3>2, <4>1
    <3>3. CASE i # m.index + 1
      <4>1. ~Replaces(m, i)
        BY <1>5, <3>1, <3>3 DEF Replaces
      <4>2. old[i] = list[i]
        BY <1>7, <1>8, <2>1, <3>1, <4>1 DEF Known, M, q, old
      <4> QED
        BY <1>6, <3>1, <3>3, <4>2
    <3> QED
      BY <3>2, <3>3
  <2> QED
    BY <1>2, <1>3, <2>1 DEF Known, M, new
<1>11. Typed'
  <2>1. \A d \in Client : Len(have'[d]) <= Count
    BY <1>1, <1>6 DEF VInv, Typed, new
  <2> QED
    BY <1>2, <1>3, <1>6, <2>1 DEF VInv, Typed, Upds
<1> QED
  BY <1>2, <1>3, <1>4, <1>6, <1>9, <1>10, <1>11, OtherCopies DEF VInv
-----------------------------------------------------------------------------
(* The broadcasts of the vehicles that were replaced say of each of their  *)
(* places which vehicle it is now, and of the others nothing.              *)
LEMMA Told ==
  ASSUME Typed, NEW dead \in SUBSET Place
  PROVE  /\ Respawned(dead) \in [Place -> Nat]
         /\ Tell(dead) \in Seq(Sending)
         /\ \A i \in Place : Tells(Msgs(Tell(dead)), i, Respawned(dead)[i])
         /\ \A i \in dead : ~Silent(Msgs(Tell(dead)), i)
         /\ \A i \in Place \ dead : Respawned(dead)[i] = list[i]
<1> DEFINE n == Cardinality(dead)
           q == InOrder(dead)
           new == Respawned(dead)
           t == Tell(dead)
           T == Msgs(Tell(dead))
<1>0. Place \subseteq Nat /\ IsFiniteSet(Place) /\ \A i \in Place : i >= 1 /\ i <= Count
  BY FS_Interval, VehicleAssumption DEF Place
<1>1. /\ new \in [Place -> Nat]
      /\ \A i \in Place \ dead : new[i] = list[i]
  <2>1. ASSUME NEW i \in Place
        PROVE  list[i] + (IF i \in dead THEN 1 ELSE 0) \in Nat
    BY DEF Typed
  <2>2. new = [i \in Place |-> list[i] + (IF i \in dead THEN 1 ELSE 0)]
    BY DEF Respawned, Place
  <2>3. \A i \in Place \ dead : new[i] = list[i] + 0
    BY <2>2
  <2> QED
    BY <2>1, <2>2, <2>3 DEF Typed
<1>2. /\ n \in Nat /\ q \in [1 .. n -> dead]
      /\ \A i \in dead : \E k \in 1 .. n : q[k] = i
  BY <1>0, FS_Subset, PlacesInOrder
<1>3. t = [k \in 1 .. n |-> Broadcast(All, UpdMsg(q[k] - 1, new[q[k]]))]
  BY <1>2 DEF Tell
<1> HIDE DEF n, q, new, t
<1>4. ASSUME NEW k \in 1 .. n
      PROVE  Broadcast(All, UpdMsg(q[k] - 1, new[q[k]])) \in Sending
  <2>1. q[k] \in Place /\ q[k] - 1 \in Nat /\ (q[k] - 1) + 1 <= Count /\ new[q[k]] \in Nat
    <3>1. q[k] \in Place /\ q[k] \in Nat
      BY <1>0, <1>2
    <3> QED
      BY <1>0, <1>1, <3>1
  <2>2. <<new[q[k]]>> \in Seq(Nat) /\ Len(<<new[q[k]]>>) = 1
    BY <2>1
  <2>3. UpdMsg(q[k] - 1, new[q[k]]) \in Message
    BY <2>1, <2>2 DEF UpdMsg, Message
  <2> QED
    BY <2>3 DEF Broadcast, Sending
<1>5. t \in [1 .. n -> Sending]
  BY <1>3, <1>4
<1>6. t \in Seq(Sending) /\ Len(t) = n
  BY <1>2, <1>5, SeqDef, LenProperties
<1>7. Len(T) = n /\ \A k \in 1 .. n : T[k] = UpdMsg(q[k] - 1, new[q[k]])
  <2>1. Len(T) = Len(t) /\ \A k \in 1 .. Len(t) : T[k] = t[k].msg
    BY <1>6, MsgsOf DEF t
  <2>2. \A k \in 1 .. n : t[k].msg = UpdMsg(q[k] - 1, new[q[k]])
    BY <1>3 DEF Broadcast
  <2> QED
    BY <1>6, <2>1, <2>2
<1> HIDE DEF T
<1>8. ASSUME NEW i \in Place
      PROVE  Tells(T, i, new[i])
  <2> SUFFICES ASSUME NEW k \in 1 .. n, Covers(T[k], i)
               PROVE  Says(T[k], i) = new[i]
    BY <1>7 DEF Tells
  <2>1. /\ T[k].index = q[k] - 1 /\ T[k].vehicles = <<new[q[k]]>>
        /\ Len(T[k].vehicles) = 1
    BY <1>7 DEF UpdMsg
  <2>2. i \in Nat /\ q[k] \in Nat
    BY <1>0, <1>2
  <2>3. i = q[k] /\ i - T[k].index = 1
    BY <2>1, <2>2 DEF Covers
  <2> QED
    BY <2>1, <2>3 DEF Says
<1>9. ASSUME NEW i \in dead
      PROVE  ~Silent(T, i)
  <2>1. PICK k \in 1 .. n : q[k] = i
    BY <1>2
  <2>2. Replaces(T[k], i)
    BY <1>7, <2>1 DEF Replaces, UpdMsg
  <2> QED
    BY <1>7, <2>1, <2>2 DEF Silent
<1> QED
  BY <1>1, <1>6, <1>8, <1>9 DEF new, t, T

(* The next block says which vehicles the list has now.                    *)
LEMMA BlockTells ==
  ASSUME Typed, NEW vehicles \in [Place -> Nat], NEW to \in Client \cup {All}
  PROVE  LET block == BlockMsg(current, SubSeq(vehicles, current + 1, BlockEnd)) IN
           /\ Broadcast(to, block) \in Sending
           /\ Broadcast(to, block).msg = block
           /\ \A i \in Place : ~Replaces(block, i) /\ (Covers(block, i) => Says(block, i) = vehicles[i])
           /\ BlockEnd \in current + 1 .. Count
<1> DEFINE vs == SubSeq(vehicles, current + 1, BlockEnd)
           block == BlockMsg(current, vs)
<1>1. current \in Nat /\ BlockEnd \in current + 1 .. Count /\ BlockEnd \in Nat /\ Count \in Nat
  BY VehicleAssumption DEF Typed, BlockEnd
<1> HIDE DEF BlockEnd
<1>2. \A i \in current + 1 .. BlockEnd : vehicles[i] \in Nat
  BY <1>1 DEF Place
<1>3. /\ vs \in Seq(Nat) /\ Len(vs) = BlockEnd - current
      /\ \A i \in 1 .. BlockEnd - current : vs[i] = vehicles[current + i]
  <2>1. /\ vs \in Seq(Nat)
        /\ Len(vs) = IF current + 1 <= BlockEnd THEN BlockEnd - (current + 1) + 1 ELSE 0
        /\ \A i \in 1 .. BlockEnd - (current + 1) + 1 : vs[i] = vehicles[(current + 1) + i - 1]
    BY <1>1, <1>2, SubSeqProperties
  <2>2. BlockEnd - (current + 1) + 1 = BlockEnd - current /\ current + 1 <= BlockEnd
        /\ \A i \in 1 .. BlockEnd - current : (current + 1) + i - 1 = current + i
    BY <1>1
  <2> QED
    BY <2>1, <2>2
<1> HIDE DEF vs
<1>4. block.kind = "VR_AddVBlck" /\ block.index = current /\ block.vehicles = vs
  BY DEF BlockMsg
<1>5. block \in Message
  BY <1>1, <1>3 DEF BlockMsg, Message
<1>6. Broadcast(to, block) \in Sending /\ Broadcast(to, block).msg = block
  BY <1>4, <1>5 DEF Broadcast, Sending
<1> HIDE DEF block
<1>7. ASSUME NEW i \in Place
      PROVE  ~Replaces(block, i) /\ (Covers(block, i) => Says(block, i) = vehicles[i])
  <2>1. ~Replaces(block, i)
    BY <1>4 DEF Replaces
  <2>2. ASSUME Covers(block, i) PROVE Says(block, i) = vehicles[i]
    <3>1. i \in Nat /\ i - current \in 1 .. BlockEnd - current /\ current + (i - current) = i
      BY <1>1, <1>3, <1>4, <2>2 DEF Covers, Place
    <3> QED
      BY <1>3, <1>4, <3>1 DEF Says
  <2> QED
    BY <2>1, <2>2
<1> QED
  BY <1>1, <1>6, <1>7 DEF block, vs

(* Vehicles are replaced and told of before a block is sent in the frame.  *)
LEMMA MainThreadStep ==
  ASSUME VInv, NEW dead \in SUBSET Place, NEW due \in BOOLEAN, MainThread(dead, due)
  PROVE  VInv'
<1> DEFINE new == Respawned(dead)
           t == Tell(dead)
           r == cpq \o Tell(dead)
           M == Msgs(cpq)
<1>1. Typed /\ cpq \in Seq(Sending) /\ M \in Seq(Message)
  BY MsgsOf DEF VInv, Typed
<1>2. /\ new \in [Place -> Nat] /\ t \in Seq(Sending) /\ Msgs(t) \in Seq(Message)
      /\ \A i \in Place : Tells(Msgs(t), i, new[i])
      /\ \A i \in dead : ~Silent(Msgs(t), i)
      /\ \A i \in Place \ dead : new[i] = list[i]
  BY <1>1, Told, MsgsOf
<1>3. /\ list' = new
      /\ UNCHANGED <<last, state, hello, net, scripts, have>>
  BY DEF MainThread, clients
<1>4. r \in Seq(Sending) /\ Msgs(r) = M \o Msgs(t) /\ Msgs(r) \in Seq(Message)
  BY <1>1, <1>2, MsgsConcat, MsgsOf
<1> HIDE DEF new, t, r, M
<1>5. ASSUME NEW i \in Place
      PROVE  /\ Silent(Msgs(r), i) => Silent(M, i) /\ new[i] = list[i]
             /\ Tells(Msgs(r), i, new[i])
  <2>1. Tells(M, i, list[i])
    BY DEF VInv, Queued, M
  <2>2. /\ Silent(Msgs(r), i) <=> Silent(M, i) /\ Silent(Msgs(t), i)
        /\ Tells(Msgs(t), i, new[i]) /\ (~Silent(Msgs(t), i) \/ Tells(M, i, new[i]))
             => Tells(Msgs(r), i, new[i])
    BY <1>1, <1>2, <1>4, Joined
  <2>3. CASE i \in dead
    BY <1>2, <2>2, <2>3
  <2>4. CASE i \notin dead
    BY <1>2, <2>1, <2>2, <2>4
  <2> QED
    BY <2>3, <2>4
<1>6. /\ cpq' \in Seq(Sending)
      /\ current' \in 0 .. Count - 1 /\ pending' \in Nat /\ addr' \in Client \cup {All}
      /\ \A i \in Place : /\ Tells(Msgs(cpq'), i, new[i])
                          /\ Silent(Msgs(cpq'), i) => Silent(Msgs(r), i)
  <2>1. CASE due
    <3> DEFINE to == IF current > 0 THEN addr ELSE IF pending = 1 THEN last ELSE All
               block == BlockMsg(current, SubSeq(new, current + 1, BlockEnd))
               b == Broadcast(to, block)
    <3>1. /\ cpq' = Append(r, b) /\ addr' = to /\ pending' = PendingAfter
          /\ current' = IF BlockEnd = Count THEN 0 ELSE BlockEnd
      BY <2>1 DEF MainThread, SendBlock, new, r
    <3>2. to \in Client \cup {All}
      BY <1>1 DEF Typed
    <3> HIDE DEF to
    <3>3. /\ b \in Sending /\ b.msg = block /\ BlockEnd \in current + 1 .. Count
          /\ \A i \in Place :
               ~Replaces(block, i) /\ (Covers(block, i) => Says(block, i) = new[i])
      BY <1>1, <1>2, <3>2, BlockTells
    <3> HIDE DEF block, b
    <3>4. /\ cpq' \in Seq(Sending) /\ Msgs(cpq') = Append(Msgs(r), block)
          /\ block \in Message
      BY <1>4, <3>1, <3>3, MsgsAppend DEF Sending
    <3>5. ASSUME NEW i \in Place
          PROVE  /\ Tells(Msgs(cpq'), i, new[i])
                 /\ Silent(Msgs(cpq'), i) => Silent(Msgs(r), i)
      BY <1>4, <1>5, <3>3, <3>4, Added
    <3>6. current' \in 0 .. Count - 1
      BY <1>1, <3>1, <3>3, VehicleAssumption DEF Typed
    <3>7. pending' \in Nat
      BY <1>1, <3>1 DEF Typed, PendingAfter
    <3> QED
      BY <3>1, <3>2, <3>4, <3>5, <3>6, <3>7
  <2>2. CASE ~due
    <3>1. cpq' = r /\ UNCHANGED <<pending, current, addr>>
      BY <2>2 DEF MainThread, r, t
    <3> QED
      BY <1>1, <1>4, <1>5, <3>1 DEF Typed
  <2> QED
    BY <2>1, <2>2
<1>7. Typed'
  BY <1>1, <1>2, <1>3, <1>6 DEF Typed
<1>8. Absent'
  BY <1>3 DEF VInv, Absent
<1>9. Queued'
  BY <1>3, <1>6 DEF Queued
<1>10. Copies'
  <2>1. ASSUME NEW i \in Place, Silent(Msgs(cpq'), i)
        PROVE  Silent(M, i) /\ list'[i] = list[i]
    BY <1>3, <1>5, <1>6, <2>1
  <2>2. ASSUME NEW c \in Client
        PROVE  (Arriving(c) /\ Spawned(c) /\ Known(c))'
    BY <1>3, <2>1 DEF VInv, Copies, Arriving, Spawned, Known, M
  <2> QED
    BY <2>2 DEF Copies
<1> QED
  BY <1>7, <1>8, <1>9, <1>10 DEF VInv
-----------------------------------------------------------------------------
LEMMA VehicleStep == VInv /\ [Next]_vars => VInv'
<1> SUFFICES ASSUME VInv, [Next]_vars PROVE VInv'
  OBVIOUS
<1>1. ASSUME NEW c \in Client, Connect(c) \/ Greet(c) \/ Leave(c) PROVE VInv'
  BY <1>1, ConnectStep, GreetStep, LeaveStep
<1>2. ASSUME NEW dead \in SUBSET (1 .. Count), NEW due \in BOOLEAN, MainThread(dead, due)
      PROVE  VInv'
  BY <1>2, MainThreadStep DEF Place
<1>3. CASE CriticalProcessor
  BY <1>3, CriticalProcessorStep
<1>4. ASSUME NEW c \in Client, ConnectUID(c) \/ Receive(c) \/ UpdIndex(c) PROVE VInv'
  BY <1>4, ConnectUIDStep, ReceiveStep, UpdIndexStep
<1>5. CASE UNCHANGED vars
  <2>1. Typed' /\ Absent' /\ UNCHANGED <<list, cpq, net, scripts, have>>
    BY <1>5 DEF vars, server, clients, VInv, Typed, Absent
  <2> QED
    BY <2>1, CopiesStand DEF VInv
<1> QED
  BY <1>1, <1>2, <1>3, <1>4, <1>5 DEF Next, System

(* What a client has not been told yet is in the queue of the server, on   *)
(* its way to him or in a script of his, behind all that contradicts it.   *)
THEOREM VehicleInvariant == Spec => []VInv
  BY StartsVehicles, VehicleStep, PTL DEF Spec

LEMMA CopiesCurrent == VInv => EntriesCurrent
<1> SUFFICES ASSUME VInv, NEW c \in Client,
                    cpq = <<>>, net[c] = <<>>, scripts[c] = <<>>
             PROVE  IsPrefix(have[c], list)
  BY DEF EntriesCurrent
<1> DEFINE h == have[c]
<1>1. h \in Seq(Nat) /\ Len(h) \in Nat /\ Len(h) <= Count
  BY LenProperties DEF VInv, Typed
<1>2. list \in Seq(Nat) /\ Len(list) = Count /\ Count \in Nat
  <2>1. Count \in Nat
    BY VehicleAssumption
  <2>2. list \in [1 .. Count -> Nat]
    BY DEF VInv, Typed, Place
  <2> QED
    BY <2>1, <2>2
<1>3. ASSUME NEW i \in 1 .. Len(h)
      PROVE  h[i] = list[i]
  <2>1. i \in Place /\ i <= Len(h)
    BY <1>1, <1>2 DEF Place
  <2>2. Silent(<<>>, i)
    BY EmptySeq DEF Silent
  <2>3. Msgs(<<>>) = <<>>
    BY MsgsOf, EmptySeq
  <2> QED
    BY <2>1, <2>2, <2>3 DEF VInv, Copies, Known
<1>4. SubSeq(h, 1, Len(h)) = h
  BY <1>1, SubSeqFull
<1>5. \A i \in 1 .. Len(h) : list[i] \in Nat
  BY <1>1, <1>3, ElementOfSeq
<1>6. /\ SubSeq(list, 1, Len(h)) \in Seq(Nat)
      /\ Len(SubSeq(list, 1, Len(h))) = Len(h)
      /\ \A i \in 1 .. Len(h) : SubSeq(list, 1, Len(h))[i] = list[i]
  <2> DEFINE l == Len(h)
             p == SubSeq(list, 1, l)
  <2>1. /\ p \in Seq(Nat) /\ Len(p) = IF 1 <= l THEN l - 1 + 1 ELSE 0
        /\ \A i \in 1 .. l - 1 + 1 : p[i] = list[1 + i - 1]
    BY <1>1, <1>5, SubSeqProperties
  <2> HIDE DEF l, p
  <2>2. l \in Nat
    BY <1>1 DEF l
  <2>3. Len(p) = l /\ \A i \in 1 .. l : p[i] = list[i]
    BY <2>1, <2>2
  <2> QED
    BY <2>1, <2>3 DEF l, p
<1>7. SubSeq(list, 1, Len(h)) = h
  BY <1>1, <1>3, <1>6, SeqEqual
<1> QED
  BY <1>1, <1>2, <1>4, <1>7 DEF IsPrefix

(* A client who has read what came to him has no vehicle in his list that  *)
(* the server has replaced (UpdIndex.sqf, AddVBlck.sqf), for every number  *)
(* of clients, vehicles and replacements and every size of a block.        *)
THEOREM VehiclesCurrent == Spec => []EntriesCurrent
  BY VehicleInvariant, CopiesCurrent, PTL
=============================================================================
