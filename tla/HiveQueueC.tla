----------------------------- MODULE HiveQueueC -----------------------------
(***************************************************************************)
(* The queue of a thread handle, class HiveQueueC of ThreadHive.h: a       *)
(* circular buffer of aSize slots that is reallocated Block slots larger   *)
(* (HQ_INIT_SIZE in the code, 50) when a push finds it full.  The callers  *)
(* hold the mutex of the handle, so a call is one step.                    *)
(*                                                                         *)
(* head, tail, count and aSize are unsigned ints: UIntMod is the number of *)
(* their values.  It matters only to aSize + HQ_INIT_SIZE, whose overflow  *)
(* grow() detects, and which makes push() refuse the message.              *)
(***************************************************************************)
EXTENDS Naturals, Sequences

CONSTANTS
  Msg,      (* the messages                                                *)
  Block,    (* HQ_INIT_SIZE                                                *)
  UIntMod,  (* 2^32 in the build                                           *)
  NoMsg,    (* no message was delivered                                    *)
  Garbage   (* what new T[] leaves in a slot nothing was written to        *)

ASSUME QueueAssumption ==
  /\ Block \in Nat /\ Block > 1
  /\ UIntMod \in Nat /\ Block < UIntMod
  /\ NoMsg \notin Msg
  /\ Garbage \notin Msg

VARIABLES
  queue,    (* the slots, a function on 0 .. aSize - 1                     *)
  head,     (* the slot of the oldest message                              *)
  tail,     (* the slot the next push writes                               *)
  count,    (* how many messages the queue holds                           *)
  aSize,    (* how many slots are allocated                                *)
  result    (* what the last call gave back                                *)

vars == <<queue, head, tail, count, aSize, result>>

Result(ok, m) == [ok |-> ok, msg |-> m]

Init ==
  /\ queue = [i \in 0 .. Block - 1 |-> Garbage]
  /\ head = 0
  /\ tail = 0
  /\ count = 0
  /\ aSize = Block
  /\ result = Result(FALSE, NoMsg)

(* Mutant: head stays where the last pop left it.                          *)
PushEmptyAtTail(m) ==
  /\ count < 1
  /\ queue' = [queue EXCEPT ![0] = m]
  /\ tail' = 1
  /\ count' = 1
  /\ result' = Result(TRUE, NoMsg)
  /\ UNCHANGED <<head, aSize>>

(* push() into an empty queue starts over at slot 0. *)
PushEmpty(m) ==
  /\ count < 1
  /\ queue' = [queue EXCEPT ![0] = m]
  /\ head' = 0
  /\ tail' = 1
  /\ count' = 1
  /\ result' = Result(TRUE, NoMsg)
  /\ UNCHANGED aSize

Advance(i, size) == IF i + 1 >= size THEN 0 ELSE i + 1

PushRoom(m) ==
  /\ count >= 1
  /\ count < aSize
  /\ queue' = [queue EXCEPT ![tail] = m]
  /\ tail' = Advance(tail, aSize)
  /\ count' = count + 1
  /\ result' = Result(TRUE, NoMsg)
  /\ UNCHANGED <<head, aSize>>

(* grow(): the slots from head to the end of the array are copied first,   *)
(* then, if the messages wrap around, those from slot 0 up to tail.        *)
NewSize == (aSize + Block) % UIntMod

UpperPart == aSize - head

(* Mutant: the messages that wrapped around are not copied.                *)
CopiedUpper == UpperPart

Copied == UpperPart + (IF head >= tail THEN tail ELSE 0)

(* Mutant: the slots are copied where they are, and head is reset.         *)
GrownInPlace == [i \in 0 .. NewSize - 1 |-> IF i < aSize THEN queue[i] ELSE Garbage]

Grown ==
  [i \in 0 .. NewSize - 1 |->
     IF i < UpperPart THEN queue[head + i]
     ELSE IF i < Copied THEN queue[i - UpperPart]
     ELSE Garbage]

(* push() into a full queue: grow(), then push() again, which finds room.  *)
PushGrow(m) ==
  /\ count >= 1
  /\ count >= aSize
  /\ NewSize > aSize
  /\ queue' = [Grown EXCEPT ![Copied] = m]
  /\ head' = 0
  /\ tail' = Advance(Copied, NewSize)
  /\ count' = count + 1
  /\ aSize' = NewSize
  /\ result' = Result(TRUE, NoMsg)

(* The sum wrapped around: grow() frees the new array and returns false.   *)
PushRefused(m) ==
  /\ count >= 1
  /\ count >= aSize
  /\ NewSize <= aSize
  /\ result' = Result(FALSE, NoMsg)
  /\ UNCHANGED <<queue, head, tail, count, aSize>>

Push(m) == PushEmpty(m) \/ PushRoom(m) \/ PushGrow(m) \/ PushRefused(m)

(* pop(): peek() reads the slot at head, remove() steps over it.           *)
Pop ==
  /\ count > 0
  /\ result' = Result(TRUE, queue[head])
  /\ head' = (IF head < aSize - 1 THEN head + 1 ELSE 0)
  /\ count' = count - 1
  /\ UNCHANGED <<queue, tail, aSize>>

PopEmpty ==
  /\ count < 1
  /\ result' = Result(FALSE, NoMsg)
  /\ UNCHANGED <<queue, head, tail, count, aSize>>

Next ==
  \/ \E m \in Msg : Push(m)
  \/ Pop
  \/ PopEmpty

Spec == Init /\ [][Next]_vars
-----------------------------------------------------------------------------
(* Type invariant: the indices stay inside the array that is allocated.    *)
TypeOK ==
  /\ aSize \in Nat /\ Block <= aSize /\ aSize < UIntMod
  /\ queue \in [0 .. aSize - 1 -> Msg \cup {Garbage}]
  /\ head \in 0 .. aSize - 1
  /\ tail \in 0 .. aSize - 1
  /\ count \in 0 .. aSize
  /\ result \in [ok : BOOLEAN, msg : Msg \cup {NoMsg, Garbage}]

(* The slot of the i-th message, counted from 0 at head.                   *)
Slot(i) == IF head + i < aSize THEN head + i ELSE head + i - aSize

(* The three counters agree: tail is count slots past head.  The reset in  *)
(* push(), the wrap in remove() and the copy in grow() each maintain this  *)
(* in a way of their own; nothing in the class checks it.                  *)
TailFollows == count > 0 => tail = Slot(count)

(* No slot between head and tail is one that nobody wrote: pop() never     *)
(* hands out an uninitialised pointer, in particular not after a grow().   *)
NoGarbageLive == \A i \in 0 .. aSize - 1 : i < count => queue[Slot(i)] \in Msg

IndInv == TypeOK /\ TailFollows /\ NoGarbageLive

(* The messages in the order a reader will see them.                       *)
Contents == [i \in 1 .. count |-> queue[Slot(i - 1)]]

(* The class implements the FIFO queue its users believe they have:        *)
(* whatever wraps, resets and reallocations come between, messages leave   *)
(* in the order in which they came, none lost and none twice.              *)
Fifo == INSTANCE HiveFifo WITH fifo <- Contents
ImplementsFifo == Fifo!FifoSpec
=============================================================================
