---------------------------- MODULE VehicleList ----------------------------
(***************************************************************************)
(* The list of respawnable vehicles, which every client keeps a copy of:   *)
(* PUBLIC_CODE_SYSTEM/VEHICLE_RESPAWN_SYSTEM of the mission, with the      *)
(* queue PCS_CPQ that its broadcasts go through.                           *)
(*                                                                         *)
(* A client who has been given his id greets the server and waits for the  *)
(* list (SafeSpawn, HangForInits).  The per-frame event VRS_MainThread     *)
(* sends it block by block, to the one client who asked or to all, and     *)
(* broadcasts a vehicle that is replaced.  Blocks are taken in as they     *)
(* arrive; a replacement starts a script, which runs later.                *)
(*                                                                         *)
(* The network keeps the order of the messages to a client and the         *)
(* scheduler runs the scripts of a client in the order they were spawned   *)
(* (both are the engine's doing).  A client here is one connection, by its *)
(* id: a counter that never goes back, so a player who returns is another  *)
(* client.  (The counter breaks at the 255th connection: fewer are made.)  *)
(***************************************************************************)
EXTENDS Integers, Sequences, SequencesExt, FiniteSets

CONSTANTS
  Clients,      (* bound: how many connections are made, below 255         *)
  Count,        (* VRS_VEHICLE_COUNT on the server                         *)
  BlockSize,    (* VRS_BLCK_SIZE                                           *)
  MaxRespawns   (* bound: vehicles replaced                                *)

ASSUME VehicleAssumption ==
  /\ Clients \in 1 .. 254
  /\ Count \in Nat \ {0} /\ BlockSize \in Nat \ {0}

Client == 1 .. Clients
All == 0    \* PCS_S_ALL, or no client yet

VARIABLES
  list,      (* VRS_VEHICLE_LIST of the server: which vehicle of each      *)
             (* place it is, counted from 0                                *)
  pending,   (* VRS_PENDING_CLIENTS                                        *)
  last,      (* VRS_LAST_CLIENT                                            *)
  current,   (* VRS_BLCK_CURRENT_INDEX                                     *)
  addr,      (* VRS_ADDR                                                   *)
  cpq,       (* PCS_CPQ: what is to be sent, and to whom                   *)
  state,     (* "out", "connected", "waiting" for the list, or "gone"      *)
  hello,     (* clients whose greeting is on its way                       *)
  net,       (* messages to a client                                       *)
  scripts,   (* UpdIndex scripts of a client that have not run             *)
  have,      (* VRS_VEHICLE_LIST of a client; empty also while it is nil   *)
  total      (* VRS_VEHICLE_COUNT of a client; 0 while it is nil           *)

server == <<list, pending, last, current, addr>>
clients == <<scripts, have, total>>
vars == <<server, cpq, state, hello, net, clients>>

Replaced == FoldSeq(+, 0, list)

Init ==
  /\ list = [i \in 1 .. Count |-> 0]
  /\ pending = 0 /\ last = All /\ current = 0 /\ addr = All
  /\ cpq = <<>>
  /\ state = [c \in Client |-> "out"]
  /\ hello = {}
  /\ net = [c \in Client |-> <<>>]
  /\ scripts = [c \in Client |-> <<>>]
  /\ have = [c \in Client |-> <<>>]
  /\ total = [c \in Client |-> 0]
-----------------------------------------------------------------------------
(* AddConnection gives the next id; the handlers of the client are there.  *)
Connect(c) ==
  /\ state[c] = "out"
  /\ \A d \in 1 .. c - 1 : state[d] # "out"
  /\ state' = [state EXCEPT ![c] = "connected"]
  /\ UNCHANGED <<server, cpq, hello, net, clients>>

(* SafeSpawn: he greets the server, then waits in HangForInits.            *)
Greet(c) ==
  /\ state[c] = "connected"
  /\ state' = [state EXCEPT ![c] = "waiting"]
  /\ hello' = hello \cup {c}
  /\ UNCHANGED <<server, cpq, net, clients>>

(* His greeting arrives; he may have left by then.                         *)
ConnectUID(c) ==
  /\ c \in hello
  /\ hello' = hello \ {c}
  /\ pending' = pending + 1
  /\ last' = c
  /\ UNCHANGED <<list, current, addr, cpq, state, net, clients>>

Leave(c) ==
  /\ state[c] \in {"connected", "waiting"}
  /\ state' = [state EXCEPT ![c] = "gone"]
  /\ net' = [net EXCEPT ![c] = <<>>]
  /\ scripts' = [scripts EXCEPT ![c] = <<>>]
  /\ have' = [have EXCEPT ![c] = <<>>]
  /\ total' = [total EXCEPT ![c] = 0]
  /\ hello' \in {hello, hello \ {c}}
  /\ UNCHANGED <<server, cpq>>
-----------------------------------------------------------------------------
(* The messages: the new vehicle of a place, and a block of the list from  *)
(* a place on.  The first block also says how many vehicles there are.     *)
UpdMsg(i, v) == [kind |-> "VR_UpdIndex", index |-> i, vehicles |-> <<v>>]
BlockMsg(i, vs) == [kind |-> "VR_AddVBlck", index |-> i, vehicles |-> vs]
Broadcast(to, m) == [to |-> to, msg |-> m]

BlockEnd == IF current + BlockSize < Count THEN current + BlockSize ELSE Count

(* Mutant: the clients who wait are forgotten when the list is through.    *)
PendingAfterForgetful == IF BlockEnd = Count THEN 0 ELSE pending

PendingAfter == IF current = 0 THEN 0 ELSE pending

(* The next block, with the vehicles as they are then.  The address is     *)
(* chosen with the first one.                                              *)
SendBlock(vehicles, before) ==
  LET to == IF current > 0 THEN addr ELSE IF pending = 1 THEN last ELSE All
      block == BlockMsg(current, SubSeq(vehicles, current + 1, BlockEnd))
  IN  /\ addr' = to
      /\ pending' = PendingAfter
      /\ current' = IF BlockEnd = Count THEN 0 ELSE BlockEnd
      /\ cpq' = Append(before, Broadcast(to, block))

(* VRS_RespawnVehicle for the places in dead, in the order of the list.    *)
Respawned(dead) == [i \in 1 .. Count |-> list[i] + (IF i \in dead THEN 1 ELSE 0)]

(* The loop goes through the list from its start.                         *)
InOrder(places) ==
  CHOOSE q \in [1 .. Cardinality(places) -> places] :
    \A m, n \in DOMAIN q : m < n => q[m] < q[n]

Tell(dead) ==
  LET places == InOrder(dead)
  IN  [n \in DOMAIN places |->
         Broadcast(All, UpdMsg(places[n] - 1, Respawned(dead)[places[n]]))]

(* VRS_MainThread in one frame: it replaces the vehicles found dead, and   *)
(* when the next block is due it sends it.                                 *)
MainThread(dead, due) ==
  /\ Replaced + Cardinality(dead) <= MaxRespawns
  /\ dead # {} \/ due
  /\ list' = Respawned(dead)
  /\ IF due
       THEN /\ pending > 0 \/ current > 0
            /\ SendBlock(Respawned(dead), cpq \o Tell(dead))
       ELSE /\ cpq' = cpq \o Tell(dead)
            /\ UNCHANGED <<pending, current, addr>>
  /\ UNCHANGED <<last, state, hello, net, clients>>

(* FastCriticalProcessor: one call of the queue in a frame, here SendData, *)
(* to whoever is connected under the address by then.                      *)
CriticalProcessor ==
  /\ cpq # <<>>
  /\ cpq' = Tail(cpq)
  /\ net' = [c \in Client |->
       IF state[c] \in {"connected", "waiting"} /\ Head(cpq).to \in {c, All}
         THEN Append(net[c], Head(cpq).msg) ELSE net[c]]
  /\ UNCHANGED <<server, state, hello, clients>>
-----------------------------------------------------------------------------
(* Mutant: a block is added behind what is there, whichever it is.         *)
AddVBlckAnyhow(c, m) ==
  /\ have' = [have EXCEPT ![c] = @ \o m.vehicles]
  /\ total' = IF m.index = 0 THEN [total EXCEPT ![c] = Count] ELSE total

(* A block is taken when it begins where the list of the client ends.      *)
AddVBlck(c, m) ==
  IF m.index # Len(have[c])
    THEN UNCHANGED <<have, total>>
    ELSE /\ have' = [have EXCEPT ![c] = @ \o m.vehicles]
         /\ total' = IF m.index = 0 THEN [total EXCEPT ![c] = Count] ELSE total

(* A message arrives: blocks are taken in at once, a replacement spawns.   *)
Receive(c) ==
  /\ net[c] # <<>>
  /\ net' = [net EXCEPT ![c] = Tail(@)]
  /\ LET m == Head(net[c]) IN
       \/ /\ m.kind = "VR_AddVBlck"
          /\ AddVBlck(c, m)
          /\ UNCHANGED scripts
       \/ /\ m.kind = "VR_UpdIndex"
          /\ scripts' = [scripts EXCEPT ![c] = Append(@, m)]
          /\ UNCHANGED <<have, total>>
  /\ UNCHANGED <<server, cpq, state, hello>>

(* The script; a place the client has no vehicle for yet is left alone.    *)
UpdIndex(c) ==
  /\ scripts[c] # <<>>
  /\ scripts' = [scripts EXCEPT ![c] = Tail(@)]
  /\ LET m == Head(scripts[c]) IN
       have' = IF m.index >= Len(have[c]) THEN have
               ELSE [have EXCEPT ![c][m.index + 1] = m.vehicles[1]]
  /\ UNCHANGED <<server, cpq, state, hello, net, total>>

(* What happens without a player or a vehicle doing anything.              *)
System ==
  \/ \E dead \in SUBSET (1 .. Count) : MainThread(dead, TRUE)
  \/ CriticalProcessor
  \/ \E c \in Client : ConnectUID(c) \/ Receive(c) \/ UpdIndex(c)

Next ==
  \/ \E c \in Client : Connect(c) \/ Greet(c) \/ Leave(c)
  \/ \E dead \in SUBSET (1 .. Count) : MainThread(dead, FALSE)
  \/ System

Spec == Init /\ [][Next]_vars

(* Frames go on, the delay between two blocks passes, messages arrive and  *)
(* scripts run.  Each of these steps stays possible until it is taken, so  *)
(* it is enough that some step is taken as long as there is one.           *)
Fairness == WF_vars(System)

FairSpec == Spec /\ Fairness
-----------------------------------------------------------------------------
Complete(c) == total[c] = Count /\ Len(have[c]) = Count

(* When nothing is under way to a client, each vehicle in his list is the  *)
(* one in the list of the server, however blocks (which are taken at once) *)
(* and the scripts of replacements (which are not) overtook each other.    *)
EntriesCurrent ==
  \A c \in Client :
    cpq = <<>> /\ net[c] = <<>> /\ scripts[c] = <<>> => IsPrefix(have[c], list)

(* A client who waits for the vehicles (HangForInits) gets all of them,    *)
(* whenever he asked, unless he leaves.                                    *)
Joins ==
  \A c \in Client : state[c] = "waiting" ~> Complete(c) \/ state[c] = "gone"
=============================================================================
