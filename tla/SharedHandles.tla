--------------------------- MODULE SharedHandles ---------------------------
(***************************************************************************)
(* What ThreadHive (ThreadHive.h) promises to the extension about its      *)
(* thread handles: an object that has none may be given a new one, or      *)
(* share that of another object, and a handle exists as long as an object  *)
(* shares it, whoever is destroyed first.  Nothing is said of counters,    *)
(* pointers or the order of the handles.                                   *)
(***************************************************************************)
CONSTANTS
  Handle,  (* addresses of handles                                         *)
  Hive,    (* ThreadHive objects, thread functors included                 *)
  Null     (* no handle                                                    *)

VARIABLES
  live,    (* the handles that exist                                       *)
  held     (* the handle of each hive                                      *)

sharedVars == <<live, held>>

SharedInit ==
  /\ live = {}
  /\ held = [v \in Hive |-> Null]

Give(v) ==
  /\ held[v] = Null
  /\ \E h \in Handle \ live :
       /\ live' = live \cup {h}
       /\ held' = [held EXCEPT ![v] = h]

Share(v, w) ==
  /\ held[v] # Null
  /\ held[w] = Null
  /\ held' = [held EXCEPT ![w] = held[v]]
  /\ UNCHANGED live

Drop(v) ==
  /\ held[v] # Null
  /\ held' = [held EXCEPT ![v] = Null]
  /\ live' = {h \in live : \E w \in Hive : held'[w] = h}

SharedNext ==
  \/ \E v \in Hive : Give(v) \/ Drop(v)
  \/ \E v, w \in Hive : Share(v, w)

SharedSpec == SharedInit /\ [][SharedNext]_sharedVars
=============================================================================
