------------------------------ MODULE FlagZone ------------------------------
(***************************************************************************)
(* The flags of the mission on the server:                                 *)
(* ADVANCE_THE_FLAG/SERVER_ZONE_SYSTEM and SERVER_DEATH_SYSTEM.            *)
(*                                                                         *)
(* Each side has one flag.  Players take it up and put it down (or, when   *)
(* OPFL_MICRO_MODE is off, move it on the map) with requests that cross    *)
(* the network and are queued in OPFL_FLAG_ZONE_QUEUE; the bodies of the   *)
(* dead are deleted through the same queue.  A frame handler drains the    *)
(* queue and then looks after each flag: it scans who stands near it, lets *)
(* it become ready, follows its carrier and puts it down when he is dead.  *)
(*                                                                         *)
(* The frame handler is not interrupted: while phase is not "idle" only    *)
(* its steps are taken.  A place is the home base of a flag, a field where *)
(* it may stand, or Far: past the line of the enemy or close to his base.  *)
(* Whom a scan counts, and when it is due (every OPFL_SCT seconds), is     *)
(* open.  FLAG_ZONE_SUPPORT never changes (its decrement is commented      *)
(* out), and PCS_RNK_ON is true: otherwise no flag ever becomes ready.     *)
(***************************************************************************)
EXTENDS Integers, Sequences, SequencesExt, FiniteSets

CONSTANTS
  Unit,         (* the units of players, dead bodies included              *)
  SideOf,       (* their sides                                             *)
  Field,        (* places where a flag may stand                           *)
  ReadyTime,    (* OPFL_DEPLOY_READY_TIME                                  *)
  CaptureTime,  (* OPFL_ZONE_CAPTURE_TIME, in scans                        *)
  MaxRequests,  (* bound: requests under way and queued                    *)
  None          (* objNull or nil                                          *)

Flag == {"west", "east"}
Place == {"home", "far"} \cup Field

ASSUME ZoneAssumption ==
  /\ SideOf \in [Unit -> Flag]
  /\ ReadyTime \in Nat \ {0} /\ CaptureTime \in Nat \ {0}
  /\ None \notin Unit \cup Place

VARIABLES
  micro,     (* OPFL_MICRO_MODE                                            *)
  pinned,    (* OPFL_PINNED_ZONES                                          *)
  zone,      (* the variables of the flag objects                          *)
  status,    (* "alive", "dead" or "gone": the object is deleted           *)
  lock,      (* OPFL_DELETE_LOCK                                           *)
  cleaning,  (* the CleanBody script of a body                             *)
  net,       (* requests on their way to the server                        *)
  queue,     (* OPFL_FLAG_ZONE_QUEUE                                       *)
  phase      (* how far the frame handler is                               *)

vars == <<micro, pinned, zone, status, lock, cleaning, net, queue, phase>>
units == <<status, lock, cleaning>>
params == <<micro, pinned>>

Request == [op : {"deploy", "undeploy", "redeploy", "body"},
            flag : Flag, unit : Unit, at : Place, to : Place]

Levels == 0 .. CaptureTime
Ages == 0 .. ReadyTime

Zone ==
  [planted : BOOLEAN, carrier : Unit \cup {None}, carrierPos : Place \cup {None},
   ready : BOOLEAN, activated : BOOLEAN, destroyed : BOOLEAN,
   captured : Levels,
   age : Ages,               (* time since FLAG_ZONE_TOD                   *)
   place : Place,
   percent : Levels,         (* what FLAG_ZONE_STATE says of captured      *)
   scripts : Nat,            (* FLAG_ZONE_SCRIPTS: a TicketGain, or none   *)
   running : Nat]            (* the TicketGain scripts that really run     *)

Init ==
  /\ micro \in BOOLEAN /\ pinned \in BOOLEAN
  /\ zone = [f \in Flag |->
       [planted |-> TRUE, carrier |-> None, carrierPos |-> None,
        ready |-> FALSE, activated |-> TRUE, destroyed |-> FALSE,
        captured |-> CaptureTime, age |-> 0, place |-> "home",
        percent |-> CaptureTime, scripts |-> 0, running |-> 0]]
  /\ status = [u \in Unit |-> "alive"]
  /\ lock = [u \in Unit |-> FALSE]
  /\ cleaning = [u \in Unit |-> "no"]
  /\ net = {} /\ queue = <<>> /\ phase = "idle"

Alive(u) == u # None /\ status[u] = "alive"
IsCarrier(u) == \E f \in Flag : zone[f].carrier = u
Opponent(f) == IF f = "west" THEN "east" ELSE "west"
Room == Cardinality(net) + Len(queue) < MaxRequests
-----------------------------------------------------------------------------
(* What the handlers do to the variables of a flag.                        *)
TerminateScripts(z) == [z EXCEPT !.running = @ - z.scripts, !.scripts = 0]
SpawnTicketGain(z) == [z EXCEPT !.running = @ + 1, !.scripts = 1]
UpdateVisualState(z) == [z EXCEPT !.percent = z.captured]
DestroyRepos(z) == [z EXCEPT !.place = "home", !.activated = FALSE]

PutDown(z) ==
  [TerminateScripts(z) EXCEPT
     !.planted = TRUE, !.carrier = None, !.carrierPos = None,
     !.ready = FALSE, !.activated = TRUE, !.age = 0]

(* The carrier puts the flag down where he is.                             *)
Deployed(z, to) ==
  SpawnTicketGain(UpdateVisualState([PutDown(z) EXCEPT !.place = to]))

(* The flag of a dead carrier falls where he was last seen, or goes home.  *)
Fallen(z, to) ==
  LET there == IF to = "far" THEN DestroyRepos(PutDown(z))
               ELSE [PutDown(z) EXCEPT !.place = to]
  IN  SpawnTicketGain(UpdateVisualState(there))

(* Mutant: the tickets go on while the flag is carried.                    *)
PickedUpGaining(z, u, at) ==
  UpdateVisualState([z EXCEPT
    !.planted = FALSE, !.carrier = u, !.carrierPos = at, !.activated = FALSE])

PickedUp(z, u, at) ==
  UpdateVisualState([TerminateScripts(z) EXCEPT
    !.planted = FALSE, !.carrier = u, !.carrierPos = at, !.activated = FALSE])

Moved(z, to) ==
  SpawnTicketGain(UpdateVisualState([TerminateScripts(z) EXCEPT
    !.ready = FALSE, !.activated = TRUE, !.destroyed = FALSE,
    !.age = 0, !.place = to]))

(* Mutant: the flag stays ready.                                           *)
DestroyedStillReady(z) ==
  UpdateVisualState(DestroyRepos([TerminateScripts(z) EXCEPT
    !.destroyed = TRUE, !.captured = CaptureTime, !.age = 0]))

Destroyed(z) ==
  UpdateVisualState(DestroyRepos([TerminateScripts(z) EXCEPT
    !.ready = FALSE, !.destroyed = TRUE, !.captured = CaptureTime, !.age = 0]))
-----------------------------------------------------------------------------
(* DeployFlagZone for a living carrier, from the queue.  An object that is *)
(* deleted is not even equal to itself: its flag is left to WatchCarrier.  *)
Deploy(m) ==
  LET z == zone[m.flag] IN
    IF z.planted \/ z.carrier # m.unit \/ status[m.unit] = "gone" \/ m.to = "far"
      THEN UNCHANGED <<zone, units>>
      ELSE /\ zone' = [zone EXCEPT ![m.flag] = Deployed(z, m.to)]
           /\ lock' = [lock EXCEPT ![m.unit] = FALSE]
           /\ UNCHANGED <<status, cleaning>>

(* What UnDeployFlagZone asks: the flag stands where the player saw it, is *)
(* ready and, in a game with pinned zones, not under attack.               *)
MayMove(m) ==
  LET z == zone[m.flag] IN
    /\ z.planted /\ z.place = m.at /\ z.ready
    /\ pinned => z.percent = CaptureTime

UnDeploy(m) ==
  IF MayMove(m) /\ Alive(m.unit) /\ ~IsCarrier(m.unit)
    THEN /\ zone' = [zone EXCEPT ![m.flag] = PickedUp(@, m.unit, m.at)]
         /\ lock' = [lock EXCEPT ![m.unit] = TRUE]
         /\ UNCHANGED <<status, cleaning>>
    ELSE UNCHANGED <<zone, units>>

ReDeploy(m) ==
  /\ zone' = (IF MayMove(m) /\ m.to # "far"
                THEN [zone EXCEPT ![m.flag] = Moved(@, m.to)] ELSE zone)
  /\ UNCHANGED units

(* Mutant: the test of the lock is the wrong way round.                    *)
SafelyDeleteBodyLocked(m) ==
  /\ IF lock[m.unit] /\ status[m.unit] # "gone"
       THEN /\ status' = [status EXCEPT ![m.unit] = "gone"]
            /\ cleaning' = [cleaning EXCEPT ![m.unit] = "no"]
       ELSE /\ cleaning' = [cleaning EXCEPT ![m.unit] = "sleeping"]
            /\ UNCHANGED status
  /\ UNCHANGED <<zone, lock>>

(* SafelyDeleteBody: the body of a carrier waits for another CleanBody.    *)
SafelyDeleteBody(m) ==
  /\ IF lock[m.unit] /\ status[m.unit] # "gone"
       THEN /\ cleaning' = [cleaning EXCEPT ![m.unit] = "sleeping"]
            /\ UNCHANGED status
       ELSE /\ cleaning' = [cleaning EXCEPT ![m.unit] = "no"]
            /\ status' = [status EXCEPT ![m.unit] = "gone"]
  /\ UNCHANGED <<zone, lock>>

(* The frame handler drains the queue.                                     *)
FlagZoneQueue ==
  /\ phase \in {"idle", "queue"} /\ queue # <<>>
  /\ LET m == Head(queue) IN
       \/ m.op = "deploy" /\ Deploy(m)
       \/ m.op = "undeploy" /\ UnDeploy(m)
       \/ m.op = "redeploy" /\ ReDeploy(m)
       \/ m.op = "body" /\ SafelyDeleteBody(m)
  /\ queue' = Tail(queue)
  /\ phase' = "queue"
  /\ UNCHANGED <<params, net>>

(* Mutant: the lock stays on the body of the carrier.                      *)
DeployDeadLocked(f, at) ==
  /\ zone' = [zone EXCEPT ![f] = Fallen(@, at)]
  /\ UNCHANGED units

(* DeployFlagZone for a carrier who is dead or gone.                       *)
DeployDead(f, at) ==
  /\ zone' = [zone EXCEPT ![f] = Fallen(@, at)]
  /\ lock' = [u \in Unit |-> lock[u] /\ u # zone[f].carrier]
  /\ UNCHANGED <<status, cleaning>>

(* A flag that is carried: where the carrier is is remembered while he has *)
(* a body; without one, the flag falls at the place of the last frame.     *)
WatchCarrier(f) ==
  \E at \in Place :
    /\ status[zone[f].carrier] = "gone" => at = zone[f].carrierPos
    /\ IF Alive(zone[f].carrier)
         THEN /\ zone' = [zone EXCEPT ![f].carrierPos = at]
              /\ UNCHANGED units
         ELSE DeployDead(f, at)

(* ScanFlagZone: the capture level goes up, goes down, or the flag falls   *)
(* because the level is at 0 already; the other side's flag is then ready. *)
Change == [up |-> 1, down |-> -1, same |-> 0]

(* Mutant: the players are not told of the new level.                      *)
ScanUntold(f, who) ==
  LET z == zone[f]
      level == z.captured + Change[who]
  IN  IF level < 0
        THEN [zone EXCEPT ![f] = Destroyed(z), ![Opponent(f)].age = ReadyTime]
        ELSE [zone EXCEPT ![f].captured = IF level > CaptureTime THEN @ ELSE level]

Scan(f, who) ==
  LET z == zone[f]
      level == z.captured + Change[who]
  IN  IF level < 0
        THEN [zone EXCEPT ![f] = Destroyed(z), ![Opponent(f)].age = ReadyTime]
        ELSE [zone EXCEPT ![f] = UpdateVisualState([z EXCEPT
                !.captured = IF level > CaptureTime THEN @ ELSE level])]

BecomeReady(z) == [z EXCEPT !.ready = @ \/ z.age = ReadyTime]

WatchPlanted(f) ==
  /\ \E who \in DOMAIN Change :
       /\ ~zone[f].activated => who = "same"
       /\ LET scanned == IF zone[f].activated THEN Scan(f, who) ELSE zone IN
            zone' = [scanned EXCEPT ![f] = BecomeReady(@)]
  /\ UNCHANGED units

(* The frame handler looks after the flags, west first.                    *)
FlagZoneThread(f) ==
  /\ IF f = "west" THEN phase \in {"idle", "queue"} /\ queue = <<>>
                   ELSE phase = "east"
  /\ phase' = (IF f = "west" THEN "east" ELSE "idle")
  /\ IF zone[f].planted THEN WatchPlanted(f) ELSE WatchCarrier(f)
  /\ UNCHANGED <<params, net, queue>>

Frame == FlagZoneQueue \/ \E f \in Flag : FlagZoneThread(f)
-----------------------------------------------------------------------------
(* The players.  What they see of a flag is broadcast; their request takes *)
(* its time to arrive, and "lag can cause false success, so server uses    *)
(* finite state machine style checking as well" (ReDeployZone.sqf:71).     *)
Ask(m) ==
  /\ phase = "idle" /\ Room
  /\ Alive(m.unit) /\ SideOf[m.unit] = m.flag
  /\ net' = net \cup {m}
  /\ UNCHANGED <<params, zone, units, queue, phase>>

AskDeploy(u, f, to) ==
  /\ zone[f].carrier = u
  /\ to # "far"
  /\ Ask([op |-> "deploy", flag |-> f, unit |-> u, at |-> to, to |-> to])

AskUndeploy(u, f) ==
  /\ micro
  /\ zone[f].planted /\ zone[f].ready /\ ~IsCarrier(u)
  /\ Ask([op |-> "undeploy", flag |-> f, unit |-> u,
          at |-> zone[f].place, to |-> zone[f].place])

AskRedeploy(u, f, to) ==
  /\ ~micro
  /\ zone[f].planted /\ zone[f].ready
  /\ to # "far"
  /\ Ask([op |-> "redeploy", flag |-> f, unit |-> u, at |-> zone[f].place, to |-> to])

Arrive(m) ==
  /\ phase = "idle"
  /\ net' = net \ {m}
  /\ queue' = Append(queue, m)
  /\ UNCHANGED <<params, zone, units, phase>>

(* A unit dies; the object of a player who leaves is deleted.              *)
Die(u) ==
  /\ phase = "idle" /\ Alive(u)
  /\ status' = [status EXCEPT ![u] = "dead"]
  /\ UNCHANGED <<params, zone, lock, cleaning, net, queue, phase>>

Leave(u) ==
  /\ phase = "idle" /\ status[u] # "gone"
  /\ status' = [status EXCEPT ![u] = "gone"]
  /\ UNCHANGED <<params, zone, lock, cleaning, net, queue, phase>>

(* The death handler starts a CleanBody; half a minute later it asks.      *)
StartClean(u) ==
  /\ phase = "idle"
  /\ status[u] = "dead" /\ cleaning[u] = "no"
  /\ cleaning' = [cleaning EXCEPT ![u] = "sleeping"]
  /\ UNCHANGED <<params, zone, status, lock, net, queue, phase>>

CleanBody(u) ==
  /\ phase = "idle"
  /\ cleaning[u] = "sleeping"
  /\ cleaning' = [cleaning EXCEPT ![u] = "queued"]
  /\ queue' = Append(queue, [op |-> "body", flag |-> SideOf[u], unit |-> u,
                             at |-> "home", to |-> "home"])
  /\ UNCHANGED <<params, zone, status, lock, net, phase>>

(* A player comes back with a new object, which nothing refers to.         *)
Respawn(u) ==
  /\ phase = "idle"
  /\ status[u] = "gone" /\ cleaning[u] = "no" /\ ~IsCarrier(u)
  /\ \A m \in net \cup Range(queue) : m.unit # u
  /\ status' = [status EXCEPT ![u] = "alive"]
  /\ lock' = [lock EXCEPT ![u] = FALSE]
  /\ UNCHANGED <<params, zone, cleaning, net, queue, phase>>

Tick ==
  /\ phase = "idle"
  /\ zone' = [f \in Flag |-> [zone[f] EXCEPT !.age =
                IF @ = ReadyTime THEN @ ELSE @ + 1]]
  /\ zone' # zone
  /\ UNCHANGED <<params, units, net, queue, phase>>

Next ==
  \/ Frame \/ Tick
  \/ \E u \in Unit :
       \/ Die(u) \/ Leave(u) \/ StartClean(u) \/ CleanBody(u) \/ Respawn(u)
       \/ \E f \in Flag :
            \/ AskUndeploy(u, f)
            \/ \E to \in Place : AskDeploy(u, f, to) \/ AskRedeploy(u, f, to)
  \/ \E m \in net : Arrive(m)

Spec == Init /\ [][Next]_vars

(* The frame handler runs in every frame, and a spawned script whose time  *)
(* has come gets its turn between two frames, as it is enabled in each gap.*)
FairSpec ==
  /\ Spec
  /\ WF_vars(Frame)
  /\ \A u \in Unit : SF_vars(CleanBody(u))
-----------------------------------------------------------------------------
ZoneTypeOK ==
  /\ micro \in BOOLEAN /\ pinned \in BOOLEAN
  /\ zone \in [Flag -> Zone]
  /\ status \in [Unit -> {"alive", "dead", "gone"}]
  /\ lock \in [Unit -> BOOLEAN]
  /\ cleaning \in [Unit -> {"no", "sleeping", "queued"}]
  /\ net \in SUBSET Request
  /\ queue \in Seq(Request)
  /\ phase \in {"idle", "queue", "east"}

(* A flag either stands or has a carrier of its side and a place to fall   *)
(* at, so that DeployFlagZone finds one when the carrier has gone; and it  *)
(* is the bodies of carriers that are locked, and only theirs: one more    *)
(* would lie about for ever, one less could vanish under its flag.         *)
CarrierKept ==
  /\ \A f \in Flag :
       /\ zone[f].planted <=> zone[f].carrier = None
       /\ zone[f].planted <=> zone[f].carrierPos = None
       /\ ~zone[f].planted => SideOf[zone[f].carrier] = f
  /\ \A u \in Unit : status[u] # "gone" => (lock[u] <=> IsCarrier(u))

(* Tickets come from one script per flag, and the flag knows it: none is   *)
(* forgotten by the terminate of the next handler, none runs on for a flag *)
(* that is carried, or that has been destroyed and not moved since.        *)
OneGain ==
  \A f \in Flag :
    /\ zone[f].running = zone[f].scripts /\ zone[f].running <= 1
    /\ ~zone[f].planted => zone[f].running = 0
    /\ zone[f].destroyed /\ ~micro => zone[f].running = 0

(* Whoever picks up or moves a flag has waited for OPFL_DEPLOY_READY_TIME  *)
(* since it was put down, fell or was destroyed, or the opponent's flag    *)
(* has been destroyed since; old requests, still under way from before,    *)
(* take no short cut.  Only a step that destroys the flag, which stays     *)
(* planted and is sent home, may move it earlier.                          *)
WaitsOut ==
  [][\A f \in Flag :
       zone[f].planted /\ (~zone'[f].planted \/ zone'[f].place # zone[f].place) =>
         \/ zone[f].age = ReadyTime
         \/ zone'[f].planted /\ zone'[f].destroyed /\ zone'[f].age = 0]_vars

(* In a game with pinned zones nobody saves a flag that is being captured: *)
(* it stays where it is until the level is full again or it is destroyed,  *)
(* although the test is of the broadcast FLAG_ZONE_STATE and not of the    *)
(* level itself.                                                           *)
PinnedStays ==
  [][\A f \in Flag :
       pinned /\ zone[f].planted /\ zone[f].captured < CaptureTime =>
         /\ zone'[f].planted
         /\ zone'[f].place = zone[f].place \/ zone'[f].captured = CaptureTime]_vars

(* Every body that a CleanBody script has been started for is deleted in   *)
(* the end, though the lock of a carrier sends the script round again: his *)
(* flag falls, which takes the lock off.                                   *)
BodiesGo == \A u \in Unit : cleaning[u] # "no" ~> cleaning[u] = "no"
=============================================================================
