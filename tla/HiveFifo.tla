------------------------------ MODULE HiveFifo ------------------------------
(***************************************************************************)
(* What a message queue of a thread handle promises to ThreadHive          *)
(* (ThreadHive.h): an unbounded FIFO queue with a non-blocking pop.  push  *)
(* may refuse a message, and only when it already holds so many that its   *)
(* size counter, an unsigned int, has no room for another block.           *)
(***************************************************************************)
EXTENDS Naturals, Sequences

CONSTANTS
  Msg,      (* the messages: pointers to ArmaElement, or strings           *)
  Block,    (* the number of slots by which the queue is enlarged          *)
  UIntMod,  (* the number of values of an unsigned int                     *)
  NoMsg     (* what the caller's variable holds when nothing was delivered *)

VARIABLES
  fifo,     (* the messages pushed and not yet popped, oldest first        *)
  result    (* what the last call gave back: its bool and its message      *)

fifoVars == <<fifo, result>>

Result(ok, m) == [ok |-> ok, msg |-> m]

FifoInit ==
  /\ fifo = <<>>
  /\ result = Result(FALSE, NoMsg)

FifoPush(m) ==
  /\ fifo' = Append(fifo, m)
  /\ result' = Result(TRUE, NoMsg)

FifoRefuse(m) ==
  /\ Len(fifo) + Block >= UIntMod
  /\ result' = Result(FALSE, NoMsg)
  /\ UNCHANGED fifo

FifoPop ==
  /\ fifo # <<>>
  /\ fifo' = Tail(fifo)
  /\ result' = Result(TRUE, Head(fifo))

FifoPopEmpty ==
  /\ fifo = <<>>
  /\ result' = Result(FALSE, NoMsg)
  /\ UNCHANGED fifo

FifoNext ==
  \/ \E m \in Msg : FifoPush(m) \/ FifoRefuse(m)
  \/ FifoPop
  \/ FifoPopEmpty

FifoSpec == FifoInit /\ [][FifoNext]_fifoVars
=============================================================================
