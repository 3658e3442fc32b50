-------------------------- MODULE MCAccountSession --------------------------
(***************************************************************************)
(* Two sessions, one after the other, of the same player.  Connections are *)
(* interchangeable: the runs start from one order of the pool.             *)
(***************************************************************************)
EXTENDS AccountSession

TwoSessions == (1 .. Sessions) \X {"opflcon", "opflcon2"}
SamePlayer == [s \in 1 .. Sessions |-> "p1"]

SomeOrder ==
  CHOOSE q \in [1 .. PoolSize -> Conn] :
    \A i, j \in 1 .. PoolSize : q[i] = q[j] => i = j

OrderedInit == pool = SomeOrder /\ Init

OrderedSpec == OrderedInit /\ [][Next]_vars
OrderedFairSpec == OrderedSpec /\ \A s \in Session : WF_vars(Worker(s))
=============================================================================
