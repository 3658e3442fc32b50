--------------------------- MODULE ThreadHandles ---------------------------
(***************************************************************************)
(* The thread handles of one instantiation of ThreadHive<T>, ThreadHive.h: *)
(* the list all of them hang on, which is static and guarded by            *)
(* hiveAccess, and the counter of each handle that says how many           *)
(* ThreadHive objects share it.                                            *)
(*                                                                         *)
(* A Hive is a ThreadHive object.  addThread() gives it a handle, and      *)
(* spawnThread() starts a thread on a copy of it, which shares the handle  *)
(* ("functor tricks", ThreadHive.h:651).  Both objects are destroyed in    *)
(* the end, by different threads, and the destructor that finds the        *)
(* counter at zero unlinks and deletes the handle.                         *)
(*                                                                         *)
(* The constructor of a handle does not initialise shares: it starts at    *)
(* whatever the allocation holds, any member of Garbage.  Started anywhere *)
(* but at 0, it does not come back to 0 and the handle is left behind;     *)
(* started at its greatest value, it reaches 0 too early.  What the code   *)
(* does with the pointers that are then dangling is undefined, and intact  *)
(* says that nothing of the kind has been possible yet.                    *)
(***************************************************************************)
EXTENDS Integers, Sequences, FiniteSets

CONSTANTS
  Handle,   (* addresses of handles                                        *)
  Hive,     (* ThreadHive objects, thread functors included                *)
  Null,     (* the null pointer                                            *)
  UIntMod,  (* the number of values of shares, an unsigned int             *)
  Garbage   (* what an uninitialised shares may hold                       *)

ASSUME HandleAssumption ==
  /\ Null \notin Handle
  /\ UIntMod \in Nat /\ UIntMod > 2
  /\ Garbage \subseteq 0 .. UIntMod - 1

VARIABLES
  head, tail,  (* the ends of the list                                     *)
  next,        (* next[h], for an allocated handle                         *)
  shares,      (* shares[h]                                                *)
  alive,       (* the handles that are allocated                           *)
  mine,        (* myThreadHandle of each hive                              *)
  stage,       (* "none", "open", "shared" or "gone": the life of a hive   *)
  order,       (* history: the handles in the order in which they joined   *)
  start,       (* history: what shares[h] held when h was allocated        *)
  intact       (* history: no counter has started at its greatest value    *)

vars == <<head, tail, next, shares, alive, mine, stage, order, start, intact>>
history == <<start, intact>>

Init ==
  /\ head = Null
  /\ tail = Null
  /\ next = [h \in Handle |-> Null]
  /\ shares = [h \in Handle |-> 0]
  /\ alive = {}
  /\ mine = [v \in Hive |-> Null]
  /\ stage = [v \in Hive |-> "none"]
  /\ order = <<>>
  /\ start = [h \in Handle |-> 0]
  /\ intact = TRUE
-----------------------------------------------------------------------------
(* push(): the new handle becomes the tail.                                *)
Link(h) ==
  /\ IF tail = Null
       THEN /\ head' = h
            /\ next' = [next EXCEPT ![h] = Null]
       ELSE /\ head' = head
            /\ next' = [next EXCEPT ![h] = Null, ![tail] = h]
  /\ tail' = h
  /\ order' = Append(order, h)

(* The memory of h is allocated and holds g where its counter is.          *)
Allocate(h, g) ==
  /\ alive' = alive \cup {h}
  /\ start' = [start EXCEPT ![h] = g]
  /\ intact' = (intact /\ g # UIntMod - 1)

(* Mutant: without shares++.                                               *)
AddThreadUncounted(v) ==
  /\ stage[v] = "none"
  /\ \E h \in Handle \ alive, g \in Garbage :
       /\ Link(h)
       /\ Allocate(h, g)
       /\ shares' = [shares EXCEPT ![h] = g]
       /\ mine' = [mine EXCEPT ![v] = h]
  /\ stage' = [stage EXCEPT ![v] = "open"]

(* The constructor followed by addThread(): RVExtension does both in a row. *)
AddThread(v) ==
  /\ stage[v] = "none"
  /\ \E h \in Handle \ alive, g \in Garbage :
       /\ Link(h)
       /\ Allocate(h, g)
       /\ shares' = [shares EXCEPT ![h] = (g + 1) % UIntMod]
       /\ mine' = [mine EXCEPT ![v] = h]
  /\ stage' = [stage EXCEPT ![v] = "open"]

(* Mutant: the copy is not counted.                                        *)
SpawnUncounted(v, w) ==
  /\ stage[v] = "open"
  /\ stage[w] = "none"
  /\ mine' = [mine EXCEPT ![w] = mine[v]]
  /\ stage' = [stage EXCEPT ![v] = "shared", ![w] = "shared"]
  /\ UNCHANGED <<shares, head, tail, next, alive, order, history>>

(* spawnThread(): the thread runs on the copy w, and only one is started.  *)
SpawnThread(v, w) ==
  /\ stage[v] = "open"
  /\ stage[w] = "none"
  /\ shares' = [shares EXCEPT ![mine[v]] = (@ + 1) % UIntMod]
  /\ mine' = [mine EXCEPT ![w] = mine[v]]
  /\ stage' = [stage EXCEPT ![v] = "shared", ![w] = "shared"]
  /\ UNCHANGED <<head, tail, next, alive, order, history>>

(* The destructor's walk: from head, past the handles that are not h.      *)
Before(h) == {p \in alive : next[p] = h}

Position(h) == CHOOSE i \in DOMAIN order : order[i] = h

Without(h) ==
  [i \in 1 .. Len(order) - 1 |->
     IF i < Position(h) THEN order[i] ELSE order[i + 1]]

(* Mutant: tail is left on the handle that goes.                           *)
UnlinkKeepsTail(h) ==
  /\ IF head = h
       THEN head' = next[h] /\ next' = [next EXCEPT ![h] = Null]
       ELSE \E p \in Before(h) :
              head' = head /\ next' = [next EXCEPT ![p] = next[h], ![h] = Null]
  /\ UNCHANGED tail
  /\ alive' = alive \ {h}
  /\ order' = Without(h)

Unlink(h) ==
  /\ IF head = h
       THEN /\ head' = next[h]
            /\ tail' = (IF next[h] = Null THEN Null ELSE tail)
            /\ next' = [next EXCEPT ![h] = Null]
       ELSE \E p \in Before(h) :
            /\ head' = head
            /\ tail' = (IF tail = h THEN p ELSE tail)
            /\ next' = [next EXCEPT ![p] = next[h], ![h] = Null]
  /\ alive' = alive \ {h}
  /\ order' = Without(h)

(* Mutant: the counter is tested before it is decremented.                 *)
DestroyTestsFirst(v) ==
  /\ stage[v] \in {"open", "shared"}
  /\ stage' = [stage EXCEPT ![v] = "gone"]
  /\ mine' = [mine EXCEPT ![v] = Null]
  /\ shares' = [shares EXCEPT ![mine[v]] = (@ - 1) % UIntMod]
  /\ IF shares[mine[v]] < 1
       THEN Unlink(mine[v])
       ELSE UNCHANGED <<head, tail, next, alive, order>>
  /\ UNCHANGED history

(* ~ThreadHive().                                                          *)
Destroy(v) ==
  /\ stage[v] \in {"open", "shared"}
  /\ stage' = [stage EXCEPT ![v] = "gone"]
  /\ mine' = [mine EXCEPT ![v] = Null]
  /\ LET h == mine[v]
         left == (shares[h] - 1) % UIntMod
     IN  /\ shares' = [shares EXCEPT ![h] = left]
         /\ IF left < 1
              THEN Unlink(h)
              ELSE UNCHANGED <<head, tail, next, alive, order>>
  /\ UNCHANGED history

(* The object is gone for good; its address may be used for another one.   *)
Forget(v) ==
  /\ stage[v] = "gone"
  /\ stage' = [stage EXCEPT ![v] = "none"]
  /\ UNCHANGED <<head, tail, next, shares, alive, mine, order, history>>

Next ==
  \/ \E v \in Hive : AddThread(v) \/ Destroy(v) \/ Forget(v)
  \/ \E v, w \in Hive : SpawnThread(v, w)

Spec == Init /\ [][Next]_vars
-----------------------------------------------------------------------------
Owners(h) == {v \in Hive : mine[v] = h}

(* A hive, or the functor a thread is running on, never refers to a handle *)
(* that another destructor has deleted, whatever the counter started at:   *)
(* only the greatest value is one too many (ThreadHive.h:543).             *)
NoDanglingHandle == intact => \A v \in Hive : mine[v] # Null => mine[v] \in alive

(* The counter is what it started at and one for each object that shares   *)
(* the handle, no matter which of hive and functor goes first, and even if *)
(* it overflows on the way (ThreadHive.h:631, 647, 542).                   *)
SharesCountOwners ==
  intact => \A h \in alive :
              shares[h] = (start[h] + Cardinality(Owners(h))) % UIntMod

(* Handles are deleted "after their instance has "ended"" (OPFL.cpp:326):  *)
(* one whose counter started at 0 goes with the last object that shares    *)
(* it, hive or functor (ThreadHive.h:543).  From any other start it is     *)
(* left in the list, which ThreadHandle() does not exclude (851).          *)
LastOneDeletes == intact => \A h \in alive : start[h] = 0 => Owners(h) # {}

(* The pointers spell the list: head and tail are its ends, next follows   *)
(* the order in which the handles joined, and nothing else is linked.      *)
Linked ==
  /\ alive = {order[i] : i \in DOMAIN order}
  /\ \A i, j \in DOMAIN order : order[i] = order[j] => i = j
  /\ head = (IF order = <<>> THEN Null ELSE order[1])
  /\ tail = (IF order = <<>> THEN Null ELSE order[Len(order)])
  /\ \A i \in DOMAIN order :
       next[order[i]] = (IF i = Len(order) THEN Null ELSE order[i + 1])

(* Taking out the first, a middle or the last handle while others join     *)
(* leaves a list (ThreadHive.h:545): the walk of the destructor and of     *)
(* getThreadHandle() ends because of this.                                 *)
ListIntact == intact => Linked

(* Objects that share a handle get what SharedHandles promises them: no    *)
(* destructor takes the handle from an object that still has it, and the   *)
(* last one does not leave it behind (ThreadHive.h:534), unless its        *)
(* counter did not start at 0: nothing is promised of such a handle once   *)
(* nobody shares it.                                                       *)
Promised == {h \in alive : start[h] = 0 \/ Owners(h) # {}}

Sharing == INSTANCE SharedHandles WITH live <- Promised, held <- mine

ImplementsSharing ==
  /\ Sharing!SharedInit
  /\ [][intact' => Sharing!SharedNext \/ UNCHANGED Sharing!sharedVars]_vars
=============================================================================
