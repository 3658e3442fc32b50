--------------------------- MODULE ConnectionPool ---------------------------
(***************************************************************************)
(* The pool of database connections, ConnectionPool.h.                     *)
(*                                                                         *)
(* Connections are shared_ptr objects.  The pool's deque and its set of    *)
(* borrowed connections each own one reference, and every variable of a    *)
(* worker thread that holds a connection owns another one: such a variable *)
(* is a Holder here (mycallback of OPFL.cpp has two, opflcon and           *)
(* opflcon2).  A borrowed connection no holder refers to any more is       *)
(* abandoned: unique() is true of its entry in the borrowed set.           *)
(*                                                                         *)
(* borrow() and unborrow() run under io_mutex, so each is one step.        *)
(* Letting a variable go out of scope takes no lock and is a step of its   *)
(* own: unborrow() copies the pointer and leaves the caller's own          *)
(* reference in place, so a connection can be idle, and can be lent again, *)
(* while the variable of the thread that returned it still refers to it.   *)
(***************************************************************************)
EXTENDS Integers, Sequences, FiniteSets

CONSTANTS
  Conn,      (* connection objects: the factory always finds an unused one *)
  Holder,    (* the variables of the worker threads                        *)
  PoolSize,  (* 50 in CleanupThreads                                       *)
  NoConn     (* a null pointer                                             *)

ASSUME PoolAssumption ==
  /\ PoolSize \in Nat \ {0}
  /\ NoConn \notin Conn

VARIABLES
  pool,      (* the idle connections, front first                          *)
  borrowed,  (* the connections that were lent and not returned            *)
  ptr,       (* what each holder refers to                                 *)
  lent,      (* the holders that were lent their connection and have not   *)
             (* returned it with unborrow()                                *)
  built,     (* "filling", "ready", or "failed": the constructor's outcome *)
  healthy    (* the connections whose link to the server works             *)

poolVars == <<pool, borrowed, ptr, lent, built, healthy>>

InPool == {pool[i] : i \in DOMAIN pool}

Referenced == {ptr[h] : h \in Holder}

(* Mutants: unique() is not asked, or never true.                          *)
AbandonedUnasked == borrowed
AbandonedNever == {}

Abandoned == borrowed \ Referenced

Owned == InPool \cup borrowed

(* create() returns an object that nobody refers to.                       *)
Fresh == Conn \ (Owned \cup Referenced)

PoolInit ==
  /\ pool = <<>>
  /\ borrowed = {}
  /\ ptr = [h \in Holder |-> NoConn]
  /\ lent = {}
  /\ built = "filling"
  /\ healthy = {}
-----------------------------------------------------------------------------
(* The constructor fills the pool, one connection at a time.               *)
Fill ==
  /\ built = "filling"
  /\ Len(pool) < PoolSize
  /\ \E c \in Fresh :
       /\ pool' = Append(pool, c)
       /\ healthy' = healthy \cup {c}
  /\ UNCHANGED <<borrowed, ptr, lent, built>>

Filled ==
  /\ built = "filling"
  /\ Len(pool) >= PoolSize
  /\ built' = "ready"
  /\ UNCHANGED <<pool, borrowed, ptr, lent, healthy>>

(* create() throws: nothing catches it in CleanupThreads.                  *)
FillFails ==
  /\ built = "filling"
  /\ Len(pool) < PoolSize
  /\ built' = "failed"
  /\ UNCHANGED <<pool, borrowed, ptr, lent, healthy>>

(* borrow() finds an idle connection.  The assignment of its result drops  *)
(* what h referred to before.                                              *)
BorrowIdle(h) ==
  /\ pool # <<>>
  /\ pool' = Tail(pool)
  /\ borrowed' = borrowed \cup {Head(pool)}
  /\ ptr' = [ptr EXCEPT ![h] = Head(pool)]
  /\ lent' = lent \cup {h}
  /\ UNCHANGED healthy

(* Mutant: the abandoned connection is not erased.                         *)
BorrowBeside(h) ==
  /\ pool = <<>>
  /\ Abandoned # {}
  /\ \E new \in Fresh :
       /\ borrowed' = borrowed \cup {new}
       /\ ptr' = [ptr EXCEPT ![h] = new]
       /\ healthy' = healthy \cup {new}
  /\ lent' = lent \cup {h}
  /\ UNCHANGED pool

(* The pool is empty, and some connection in the borrowed set has been     *)
(* abandoned (the set is ordered by address, so it may be any of them): a  *)
(* new one is created in its place, and only then is the old one erased,   *)
(* which closes it.                                                        *)
BorrowReplace(h) ==
  /\ pool = <<>>
  /\ \E old \in Abandoned, new \in Fresh :
       /\ borrowed' = (borrowed \ {old}) \cup {new}
       /\ ptr' = [ptr EXCEPT ![h] = new]
       /\ healthy' = (healthy \ {old}) \cup {new}
  /\ lent' = lent \cup {h}
  /\ UNCHANGED pool

(* create() throws on the first abandoned connection: ConnectionImpossible. *)
BorrowImpossible ==
  /\ pool = <<>>
  /\ Abandoned # {}
  /\ UNCHANGED <<pool, borrowed, ptr, lent, healthy>>

(* Nothing idle and nothing abandoned: ConnectionUnavailable.              *)
BorrowUnavailable ==
  /\ pool = <<>>
  /\ Abandoned = {}
  /\ UNCHANGED <<pool, borrowed, ptr, lent, healthy>>

(* unborrow(): push_back, then erase; the caller's variable is untouched.  *)
Unborrow(h) ==
  /\ pool' = Append(pool, ptr[h])
  /\ borrowed' = borrowed \ {ptr[h]}
  /\ lent' = lent \ {h}
  /\ UNCHANGED <<ptr, healthy>>

(* The variable goes out of scope, or is overwritten.                      *)
Release(h) ==
  /\ ptr' = [ptr EXCEPT ![h] = NoConn]
  /\ lent' = lent \ {h}
  /\ UNCHANGED <<pool, borrowed, healthy>>

(* The link of a connection is lost: a server restart, an idle timeout.    *)
Break(c) ==
  /\ c \in Owned
  /\ c \in healthy
  /\ healthy' = healthy \ {c}
  /\ UNCHANGED <<pool, borrowed, ptr, lent, built>>

(* A worker calls unborrow() only for a connection it was lent, and once.  *)
Use(h) ==
  /\ built = "ready"
  /\ \/ BorrowIdle(h)
     \/ BorrowReplace(h)
     \/ BorrowImpossible
     \/ BorrowUnavailable
     \/ h \in lent /\ Unborrow(h)
     \/ ptr[h] # NoConn /\ Release(h)
  /\ UNCHANGED built

PoolNext ==
  \/ Fill
  \/ Filled
  \/ FillFails
  \/ \E h \in Holder : Use(h)
  \/ \E c \in Conn : Break(c)

PoolSpec == PoolInit /\ [][PoolNext]_poolVars
-----------------------------------------------------------------------------
PoolTypeOK ==
  /\ pool \in Seq(Conn)
  /\ borrowed \in SUBSET Conn
  /\ ptr \in [Holder -> Conn \cup {NoConn}]
  /\ lent \in SUBSET Holder
  /\ built \in {"filling", "ready", "failed"}
  /\ healthy \in SUBSET Conn

(* No connection is queued twice, and none is both idle and lent.          *)
IdleOnce ==
  /\ \A i, j \in DOMAIN pool : pool[i] = pool[j] => i = j
  /\ InPool \cap borrowed = {}

(* Two workers are never handed the same connection: neither the deque nor *)
(* the replacement of abandoned connections gives away one that another    *)
(* holder still owes to the pool.  unique() is all the code has to tell    *)
(* the two cases apart.                                                    *)
Exclusive ==
  /\ \A h \in lent : ptr[h] \in borrowed
  /\ \A g, h \in lent : ptr[g] = ptr[h] => g = h

(* No connection leaks and none appears: however many are abandoned,       *)
(* replaced or refused, the pool accounts for pool_size of them.           *)
Conserved ==
  built = "ready" => Len(pool) + Cardinality(borrowed) = PoolSize

PoolInv == PoolTypeOK /\ IdleOnce /\ Exclusive

=============================================================================
