-------------------------- MODULE HiveQueueC_proofs --------------------------
(***************************************************************************)
(* Proofs about the circular message queue, for every block size, every    *)
(* width of the counters and every set of messages.                        *)
(***************************************************************************)
EXTENDS HiveQueueC, SequenceTheorems, TLAPS

(* The constructor: Block empty slots.                                     *)
LEMMA InitInv == Init => IndInv
<1> SUFFICES ASSUME Init PROVE IndInv
  OBVIOUS
<1> USE QueueAssumption DEF Init
<1>1. TypeOK
  BY DEF TypeOK, Result
<1>2. TailFollows /\ NoGarbageLive
  BY DEF TailFollows, NoGarbageLive
<1> QED
  BY <1>1, <1>2 DEF IndInv

(* A push into an empty queue.                                             *)
LEMMA PushEmptyInv ==
  ASSUME IndInv, NEW m \in Msg, PushEmpty(m)
  PROVE  IndInv'
<1> USE QueueAssumption DEF IndInv, PushEmpty
<1>0. aSize > 1 
  BY DEF TypeOK
<1>1. TypeOK'
  BY DEF TypeOK, Result
<1>2. TailFollows'
  BY DEF TypeOK, TailFollows, Slot
<1>3. NoGarbageLive'
  BY DEF TypeOK, NoGarbageLive, Slot
<1> QED
  BY <1>1, <1>2, <1>3

(* A push that finds room.                                                 *)
LEMMA PushRoomInv ==
  ASSUME IndInv, NEW m \in Msg, PushRoom(m)
  PROVE  IndInv'
<1> USE QueueAssumption DEF IndInv, PushRoom
<1>1. TypeOK'
  BY DEF TypeOK, Result, Advance
<1>2. TailFollows'
  BY DEF TypeOK, TailFollows, Slot, Advance
<1>3. NoGarbageLive'
  <2> SUFFICES ASSUME NEW i \in 0 .. aSize - 1, i < count'
               PROVE  queue'[Slot(i)] \in Msg
    BY DEF NoGarbageLive, Slot
  <2>1. CASE i = count
    BY <2>1 DEF TypeOK, TailFollows, Slot
  <2>2. CASE i < count
    <3>1. Slot(i) # tail
      BY <2>2 DEF TypeOK, TailFollows, Slot
    <3> QED
      BY <2>2, <3>1 DEF TypeOK, NoGarbageLive, Slot
  <2> QED
    BY <2>1, <2>2 DEF TypeOK
<1> QED
  BY <1>1, <1>2, <1>3

(* When the buffer is full the live messages are all the slots, tail has   *)
(* come round to head, and grow() copies exactly count of them, in order.  *)
LEMMA GrownContents ==
  ASSUME IndInv, count >= aSize, NewSize > aSize
  PROVE  /\ tail = head
         /\ Copied = count
         /\ NewSize \in Nat /\ NewSize < UIntMod /\ NewSize = aSize + Block
         /\ Grown \in [0 .. NewSize - 1 -> Msg \cup {Garbage}]
         /\ \A i \in 0 .. count - 1 : Grown[i] = queue[Slot(i)]
<1> USE QueueAssumption DEF IndInv
<1>1. /\ aSize \in Nat /\ Block <= aSize /\ aSize < UIntMod
      /\ head \in 0 .. aSize - 1
      /\ tail \in 0 .. aSize - 1
      /\ count = aSize
  BY DEF TypeOK
<1>2. tail = head
  BY <1>1 DEF TailFollows, Slot
<1>3. Copied = count
  BY <1>1, <1>2 DEF Copied, UpperPart
<1>4. NewSize \in Nat /\ NewSize < UIntMod /\ NewSize = aSize + Block
  BY <1>1 DEF NewSize
<1>5. ASSUME NEW i \in 0 .. NewSize - 1
      PROVE  Grown[i] \in Msg \cup {Garbage}
  BY <1>1, <1>2, <1>3, <1>4 DEF Grown, TypeOK, UpperPart
<1>6. ASSUME NEW i \in 0 .. count - 1
      PROVE  Grown[i] = queue[Slot(i)]
  BY <1>1, <1>2, <1>3, <1>4 DEF Grown, Slot, UpperPart
<1> QED
  BY <1>2, <1>3, <1>4, <1>5, <1>6 DEF Grown

(* A push that enlarges the buffer.                                        *)
LEMMA PushGrowInv ==
  ASSUME IndInv, NEW m \in Msg, PushGrow(m)
  PROVE  IndInv'
<1> USE QueueAssumption DEF IndInv, PushGrow
<1>1. /\ aSize \in Nat /\ Block <= aSize /\ count = aSize
      /\ NewSize \in Nat /\ NewSize < UIntMod /\ NewSize = aSize + Block
      /\ Copied = count
      /\ Grown \in [0 .. NewSize - 1 -> Msg \cup {Garbage}]
  BY GrownContents DEF TypeOK
<1>2. TypeOK'
  BY <1>1 DEF TypeOK, Result, Advance
<1>3. TailFollows'
  BY <1>1 DEF TailFollows, Slot, Advance
<1>4. NoGarbageLive'
  <2> SUFFICES ASSUME NEW i \in 0 .. NewSize - 1, i < count + 1
               PROVE  queue'[i] \in Msg
    BY <1>1 DEF NoGarbageLive, Slot
  <2>1. CASE i = count
    BY <1>1, <2>1
  <2>2. CASE i < count
    <3>1. queue'[i] = queue[Slot(i)]
      BY <1>1, <2>2, GrownContents
    <3> QED
      BY <1>1, <2>2, <3>1 DEF NoGarbageLive
  <2> QED
    BY <1>1, <2>1, <2>2
<1> QED
  BY <1>2, <1>3, <1>4

(* pop() steps over the slot at head, wrapping at the end of the array.    *)
LEMMA PopInv ==
  ASSUME IndInv, Pop
  PROVE  IndInv'
<1> USE QueueAssumption DEF IndInv, Pop
<1>1. TypeOK'
  BY DEF TypeOK, Result
<1>2. TailFollows'
  BY DEF TypeOK, TailFollows, Slot
<1>3. NoGarbageLive'
  <2> SUFFICES ASSUME NEW i \in 0 .. aSize - 1, i < count - 1
               PROVE  queue[Slot(i)'] \in Msg
    BY DEF NoGarbageLive
  <2>1. Slot(i)' = Slot(i + 1)
    BY DEF TypeOK, Slot
  <2> QED
    BY <2>1 DEF TypeOK, NoGarbageLive
<1> QED
  BY <1>1, <1>2, <1>3

(* Every call keeps the three counters and the slots in agreement.         *)
LEMMA StepInv == IndInv /\ [Next]_vars => IndInv'
<1> SUFFICES ASSUME IndInv, [Next]_vars PROVE IndInv'
  OBVIOUS
<1>1. ASSUME NEW m \in Msg, Push(m) PROVE IndInv'
  <2>1. CASE PushRefused(m)
    BY <2>1 DEF PushRefused, IndInv, TypeOK, TailFollows, NoGarbageLive, Slot, Result
  <2> QED
    BY <1>1, <2>1, PushEmptyInv, PushRoomInv, PushGrowInv DEF Push
<1>2. CASE Pop
  BY <1>2, PopInv
<1>3. CASE PopEmpty
  BY <1>3 DEF PopEmpty, IndInv, TypeOK, TailFollows, NoGarbageLive, Slot, Result
<1>4. CASE UNCHANGED vars
  BY <1>4 DEF vars, IndInv, TypeOK, TailFollows, NoGarbageLive, Slot
<1> QED
  BY <1>1, <1>2, <1>3, <1>4 DEF Next

(* The indices stay inside the allocation, tail follows head by count, and *)
(* every message a pop can reach is one that a push wrote.                 *)
THEOREM QueueInvariant == Spec => [](TypeOK /\ TailFollows /\ NoGarbageLive)
  BY InitInv, StepInv, PTL DEF Spec, IndInv

(* In particular head, tail and count describe one run of messages, after  *)
(* every wrap, reset and growth (push and pop of HiveQueueC).              *)
COROLLARY QueueTailFollows == Spec => []TailFollows
  BY QueueInvariant, PTL
-----------------------------------------------------------------------------
(* The refinement.  Contents is a sequence, and the two shapes in which a  *)
(* call changes it are the ones Append and Tail describe.                  *)
LEMMA ContentsSeq == IndInv => Contents \in Seq(Msg) /\ Len(Contents) = count
<1> SUFFICES ASSUME IndInv PROVE Contents \in Seq(Msg) /\ Len(Contents) = count
  OBVIOUS
<1>1. \A i \in 1 .. count : Contents[i] \in Msg
  BY QueueAssumption DEF IndInv, TypeOK, NoGarbageLive, Contents
<1> QED
  BY <1>1 DEF IndInv, TypeOK, Contents

(* A sequence that is one message longer is an Append.                     *)
LEMMA AppendShape ==
  ASSUME NEW s \in Seq(Msg), NEW t \in Seq(Msg), NEW m \in Msg,
         Len(t) = Len(s) + 1,
         \A i \in 1 .. Len(s) : t[i] = s[i],
         t[Len(s) + 1] = m
  PROVE  t = Append(s, m)
<1>1. /\ Append(s, m) \in Seq(Msg)
      /\ Len(Append(s, m)) = Len(t)
      /\ \A i \in 1 .. Len(t) : Append(s, m)[i] = t[i]
  BY AppendProperties, LenProperties
<1> QED
  BY <1>1, SeqEqual

(* A sequence without its first message is a Tail.                         *)
LEMMA TailShape ==
  ASSUME NEW s \in Seq(Msg), NEW t \in Seq(Msg), s # <<>>,
         Len(t) = Len(s) - 1,
         \A i \in 1 .. Len(t) : t[i] = s[i + 1]
  PROVE  t = Tail(s)
<1>1. /\ Tail(s) \in Seq(Msg)
      /\ Len(Tail(s)) = Len(t)
      /\ \A i \in 1 .. Len(t) : Tail(s)[i] = t[i]
  BY HeadTailProperties
<1> QED
  BY <1>1, SeqEqual

(* push() appends, or refuses when the size would overflow: the slots are  *)
(* read in the same order before and after wrap, reset and growth.         *)
LEMMA PushRefines ==
  ASSUME IndInv, NEW m \in Msg, Push(m)
  PROVE  Fifo!FifoPush(m) \/ Fifo!FifoRefuse(m)
<1> USE QueueAssumption
<1>0. IndInv'
  BY StepInv DEF Next
<1>1. /\ Contents \in Seq(Msg) /\ Len(Contents) = count
      /\ Contents' \in Seq(Msg) /\ Len(Contents') = count'
      /\ aSize \in Nat /\ count \in 0 .. aSize /\ aSize < UIntMod
  <2>1. (IndInv => Contents \in Seq(Msg) /\ Len(Contents) = count)'
    BY ContentsSeq, PTL
  <2> QED
    BY <1>0, <2>1, ContentsSeq DEF IndInv, TypeOK
<1>2. CASE PushRefused(m)
  <2>1. Len(Contents) + Block >= UIntMod
    BY <1>1, <1>2 DEF PushRefused, NewSize
  <2>2. Contents' = Contents
    BY <1>2 DEF PushRefused, Contents, Slot
  <2> QED
    BY <1>2, <2>1, <2>2 DEF PushRefused, Fifo!FifoRefuse, Fifo!Result, Result
<1>3. ASSUME count' = count + 1,
             result' = Result(TRUE, NoMsg),
             \A i \in 1 .. count : Contents'[i] = Contents[i],
             Contents'[count + 1] = m
      PROVE  Fifo!FifoPush(m)
  <2>1. Contents' = Append(Contents, m)
    BY <1>1, <1>3, AppendShape
  <2> QED
    BY <1>3, <2>1 DEF Fifo!FifoPush, Fifo!Result, Result
<1>4. CASE PushEmpty(m)
  BY <1>1, <1>3, <1>4 DEF PushEmpty, Contents, Slot, IndInv, TypeOK
<1>5. CASE PushRoom(m)
  <2>1. /\ tail = Slot(count) /\ tail \in 0 .. aSize - 1
        /\ aSize' = aSize /\ head' = head /\ head \in 0 .. aSize - 1
    BY <1>5 DEF PushRoom, IndInv, TypeOK, TailFollows
  <2>2. Contents'[count + 1] = m
    BY <1>1, <1>5, <2>1 DEF PushRoom, Contents, Slot, IndInv, TypeOK
  <2>3. ASSUME NEW i \in 1 .. count
        PROVE  Contents'[i] = Contents[i]
    <3>1. Slot(i - 1) # tail
      BY <1>1, <1>5, <2>1 DEF PushRoom, Slot
    <3> QED
      BY <1>1, <1>5, <2>1, <3>1 DEF PushRoom, Contents, Slot, IndInv, TypeOK
  <2> QED
    BY <1>3, <1>5, <2>2, <2>3 DEF PushRoom
<1>6. CASE PushGrow(m)
  <2>1. /\ Copied = count /\ NewSize \in Nat /\ NewSize = aSize + Block
        /\ Grown \in [0 .. NewSize - 1 -> Msg \cup {Garbage}]
        /\ \A i \in 0 .. count - 1 : Grown[i] = queue[Slot(i)]
    BY <1>6, GrownContents DEF PushGrow
  <2>2. ASSUME NEW i \in 1 .. count + 1
        PROVE  Contents'[i] = queue'[i - 1]
    BY <1>1, <1>6, <2>1 DEF PushGrow, Contents, Slot
  <2>3. Contents'[count + 1] = m
    <3>1. queue' = [Grown EXCEPT ![count] = m]
      BY <1>6, <2>1 DEF PushGrow
    <3>2. queue'[count] = m
      BY <1>1, <2>1, <3>1
    <3>3. Contents'[count + 1] = queue'[(count + 1) - 1]
      BY <1>1, <2>2
    <3> QED
      BY <1>1, <3>2, <3>3
  <2>4. ASSUME NEW i \in 1 .. count
        PROVE  Contents'[i] = Contents[i]
    BY <1>1, <1>6, <2>1, <2>2 DEF PushGrow, Contents
  <2> QED
    BY <1>3, <1>6, <2>3, <2>4 DEF PushGrow
<1> QED
  BY <1>2, <1>4, <1>5, <1>6 DEF Push

(* pop() delivers the oldest message and keeps the others in order.        *)
LEMMA PopRefines ==
  ASSUME IndInv, Pop
  PROVE  Fifo!FifoPop
<1> USE QueueAssumption
<1>0. IndInv'
  BY StepInv DEF Next
<1>1. /\ Contents \in Seq(Msg) /\ Len(Contents) = count
      /\ aSize \in Nat /\ count \in 1 .. aSize
      /\ head \in 0 .. aSize - 1
  BY ContentsSeq DEF IndInv, TypeOK, Pop
<1>2. Contents # <<>>
  BY <1>1
<1>3. Head(Contents) = queue[head]
  BY <1>1 DEF Contents, Slot
<1>4. ASSUME NEW i \in 1 .. count - 1
      PROVE  Contents'[i] = Contents[i + 1]
  BY <1>1 DEF Pop, Contents, Slot
<1>5. Contents' \in Seq(Msg) /\ Len(Contents') = count - 1
  <2>1. (IndInv => Contents \in Seq(Msg) /\ Len(Contents) = count)'
    BY ContentsSeq, PTL
  <2> QED
    BY <1>0, <2>1 DEF Pop
<1>6. Contents' = Tail(Contents)
  BY <1>1, <1>2, <1>4, <1>5, TailShape
<1> QED
  BY <1>2, <1>3, <1>6 DEF Pop, Fifo!FifoPop, Fifo!Result, Result

(* HiveQueueC is a FIFO queue: no message is lost, duplicated or overtaken *)
(* by the wrap-around, the restart at slot 0 or a reallocation.            *)
THEOREM QueueIsFifo == Spec => ImplementsFifo
<1>1. Init => Fifo!FifoInit
  BY DEF Init, Fifo!FifoInit, Fifo!Result, Result, Contents
<1>2. IndInv /\ [Next]_vars => [Fifo!FifoNext]_(Fifo!fifoVars)
  <2> SUFFICES ASSUME IndInv, [Next]_vars
               PROVE  [Fifo!FifoNext]_(Fifo!fifoVars)
    OBVIOUS
  <2>1. ASSUME NEW m \in Msg, Push(m) PROVE Fifo!FifoNext
    BY <2>1, PushRefines DEF Fifo!FifoNext
  <2>2. CASE Pop
    BY <2>2, PopRefines DEF Fifo!FifoNext
  <2>3. CASE PopEmpty
    BY <2>3 DEF PopEmpty, Fifo!FifoNext, Fifo!FifoPopEmpty, Fifo!Result, Result,
                Contents, Slot, IndInv, TypeOK
  <2>4. CASE UNCHANGED vars
    BY <2>4 DEF vars, Fifo!fifoVars, Contents, Slot
  <2> QED
    BY <2>1, <2>2, <2>3, <2>4 DEF Next
<1> QED
  BY <1>1, <1>2, InitInv, StepInv, PTL DEF Spec, ImplementsFifo, Fifo!FifoSpec
=============================================================================
