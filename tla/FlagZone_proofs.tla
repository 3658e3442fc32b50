--------------------------- MODULE FlagZone_proofs ---------------------------
(***************************************************************************)
(* Proofs about the flags: for any number of players, places and requests  *)
(* under way, carriers, locks and tickets stay in step.                    *)
(***************************************************************************)
EXTENDS FlagZone, TLAPS

(* What holds of the variables of flag f between two steps, when OPFL_     *)
(* MICRO_MODE is mode: a flag that is carried tells who has it and where   *)
(* he was, and its tickets come from at most one script, which it knows.   *)
Kept(z, f, mode) ==
  /\ z \in Zone
  /\ z.planted <=> z.carrier = None
  /\ z.planted <=> z.carrierPos = None
  /\ ~z.planted => SideOf[z.carrier] = f
  /\ z.running = z.scripts /\ z.running <= 1
  /\ ~z.planted => z.running = 0
  /\ z.destroyed /\ ~mode => z.running = 0
  /\ ~mode => z.planted

(* A request is for the flag of the player's side; only a game in which    *)
(* flags are carried sees one to pick a flag up.                           *)
Proper(m, mode) ==
  /\ m \in Request
  /\ SideOf[m.unit] = m.flag
  /\ m.op = "undeploy" => mode

(* The bodies of carriers are locked, and no others.                       *)
LockKept ==
  \A u \in Unit : status[u] # "gone" => (lock[u] <=> IsCarrier(u))

FlagsInv ==
  /\ zone \in [Flag -> Zone]
  /\ status \in [Unit -> {"alive", "dead", "gone"}]
  /\ lock \in [Unit -> BOOLEAN]
  /\ cleaning \in [Unit -> {"no", "sleeping", "queued"}]
  /\ \A f \in Flag : Kept(zone[f], f, micro)
  /\ LockKept

RequestsInv ==
  /\ micro \in BOOLEAN /\ pinned \in BOOLEAN
  /\ net \in SUBSET Request
  /\ queue \in Seq(Request)
  /\ phase \in {"idle", "queue", "east"}
  /\ \A m \in net : Proper(m, micro)
  /\ \A i \in 1 .. Len(queue) : Proper(queue[i], micro)

ZoneInv == FlagsInv /\ RequestsInv

-----------------------------------------------------------------------------
(* The parts of the handlers: they stay among the values of Zone, and      *)
(* disturb the fields of the invariant in one way each.                    *)
Same(y, z) ==
  /\ y \in Zone
  /\ y.planted = z.planted /\ y.carrier = z.carrier /\ y.carrierPos = z.carrierPos

LEMMA Bounds ==
  ASSUME ZoneAssumption
  PROVE  0 \in Ages /\ ReadyTime \in Ages /\ CaptureTime \in Levels
BY DEF ZoneAssumption, Ages, Levels

LEMMA SpawnTicketGainFields ==
  ASSUME NEW z \in Zone, z.running = 0
  PROVE  LET y == SpawnTicketGain(z) IN
           Same(y, z) /\ y.running = 1 /\ y.scripts = 1 /\ y.destroyed = z.destroyed
<1>1. z.running + 1 = 1
  OBVIOUS
<1>2. SpawnTicketGain(z) = [z EXCEPT !.running = 1, !.scripts = 1]
  BY <1>1, Zenon DEF SpawnTicketGain
<1>3. [z EXCEPT !.running = 1, !.scripts = 1] \in Zone
  BY DEF Zone
<1> QED
  BY <1>2, <1>3 DEF Zone, Same

LEMMA TerminateScriptsFields ==
  ASSUME NEW z \in Zone, z.running = z.scripts
  PROVE  LET y == TerminateScripts(z) IN
           Same(y, z) /\ y.running = 0 /\ y.scripts = 0 /\ y.destroyed = z.destroyed
<1>1. z.running - z.scripts = 0
  BY DEF Zone
<1>2. TerminateScripts(z) = [z EXCEPT !.running = 0, !.scripts = 0]
  BY <1>1, Zenon DEF TerminateScripts
<1>3. [z EXCEPT !.running = 0, !.scripts = 0] \in Zone
  BY DEF Zone
<1> QED
  BY <1>2, <1>3 DEF Zone, Same

LEMMA UpdateVisualStateFields ==
  ASSUME NEW z \in Zone
  PROVE  LET y == UpdateVisualState(z) IN
           /\ Same(y, z) /\ y.destroyed = z.destroyed
           /\ y.running = z.running /\ y.scripts = z.scripts
BY DEF Zone, Same, UpdateVisualState

LEMMA DestroyReposFields ==
  ASSUME NEW z \in Zone
  PROVE  LET y == DestroyRepos(z) IN
           /\ Same(y, z) /\ y.destroyed = z.destroyed
           /\ y.running = z.running /\ y.scripts = z.scripts
BY DEF Zone, Same, DestroyRepos, Place

LEMMA PlaceFields ==
  ASSUME NEW z \in Zone, NEW to \in Place
  PROVE  LET y == [z EXCEPT !.place = to] IN
           /\ Same(y, z) /\ y.destroyed = z.destroyed
           /\ y.running = z.running /\ y.scripts = z.scripts
BY DEF Zone, Same

LEMMA PutDownFields ==
  ASSUME ZoneAssumption, NEW z \in Zone, z.running = z.scripts
  PROVE  LET y == PutDown(z) IN
           /\ y \in Zone /\ y.running = 0 /\ y.scripts = 0 /\ y.destroyed = z.destroyed
           /\ y.planted /\ y.carrier = None /\ y.carrierPos = None
<1> DEFINE t == TerminateScripts(z)
<1>1. t \in Zone /\ t.running = 0 /\ t.scripts = 0 /\ t.destroyed = z.destroyed
  BY TerminateScriptsFields DEF Same
<1> HIDE DEF t
<1>2. [t EXCEPT !.planted = TRUE, !.carrier = None, !.carrierPos = None,
                !.ready = FALSE, !.activated = TRUE, !.age = 0] \in Zone
  BY <1>1, Bounds DEF Zone
<1>3. PutDown(z) = [t EXCEPT !.planted = TRUE, !.carrier = None, !.carrierPos = None,
                             !.ready = FALSE, !.activated = TRUE, !.age = 0]
  BY DEF PutDown, t
<1> QED
  BY <1>1, <1>2, <1>3 DEF Zone
-----------------------------------------------------------------------------
(* The handlers, one flag at a time.                                       *)
LEMMA DeployedKept ==
  ASSUME ZoneAssumption, NEW f \in Flag, NEW mode \in BOOLEAN, NEW z,
         Kept(z, f, mode), ~z.planted, NEW to \in Place
  PROVE  Kept(Deployed(z, to), f, mode) /\ Deployed(z, to).carrier = None
<1> DEFINE p == PutDown(z)
           q == [p EXCEPT !.place = to]
           r == UpdateVisualState(q)
           s == SpawnTicketGain(r)
<1>1. p \in Zone /\ p.running = 0 /\ p.scripts = 0 /\ p.planted
      /\ p.carrier = None /\ p.carrierPos = None
  BY PutDownFields DEF Kept
<1>2. q \in Zone /\ q.running = 0 /\ q.scripts = 0 /\ q.planted
      /\ q.carrier = None /\ q.carrierPos = None
  BY <1>1, PlaceFields DEF Same
<1>3. r \in Zone /\ r.running = 0 /\ r.scripts = 0 /\ r.planted
      /\ r.carrier = None /\ r.carrierPos = None
  BY <1>2, UpdateVisualStateFields DEF Same
<1>4. s \in Zone /\ s.running = 1 /\ s.scripts = 1 /\ s.planted
      /\ s.carrier = None /\ s.carrierPos = None
  BY <1>3, SpawnTicketGainFields DEF Same
<1>5. Deployed(z, to) = s
  BY DEF Deployed
<1>6. mode
  BY DEF Kept
<1> QED
  BY <1>4, <1>5, <1>6 DEF Kept

LEMMA FallenKept ==
  ASSUME ZoneAssumption, NEW f \in Flag, NEW mode \in BOOLEAN, NEW z,
         Kept(z, f, mode), ~z.planted, NEW to \in Place
  PROVE  Kept(Fallen(z, to), f, mode) /\ Fallen(z, to).carrier = None
<1> DEFINE p == PutDown(z)
           q == IF to = "far" THEN DestroyRepos(p) ELSE [p EXCEPT !.place = to]
           r == UpdateVisualState(q)
           s == SpawnTicketGain(r)
<1>1. p \in Zone /\ p.running = 0 /\ p.scripts = 0 /\ p.planted
      /\ p.carrier = None /\ p.carrierPos = None
  BY PutDownFields DEF Kept
<1>2. q \in Zone /\ q.running = 0 /\ q.scripts = 0 /\ q.planted
      /\ q.carrier = None /\ q.carrierPos = None
  BY <1>1, PlaceFields, DestroyReposFields DEF Same
<1>3. r \in Zone /\ r.running = 0 /\ r.scripts = 0 /\ r.planted
      /\ r.carrier = None /\ r.carrierPos = None
  BY <1>2, UpdateVisualStateFields DEF Same
<1>4. s \in Zone /\ s.running = 1 /\ s.scripts = 1 /\ s.planted
      /\ s.carrier = None /\ s.carrierPos = None
  BY <1>3, SpawnTicketGainFields DEF Same
<1>5. Fallen(z, to) = s
  BY DEF Fallen
<1>6. mode
  BY DEF Kept
<1> QED
  BY <1>4, <1>5, <1>6 DEF Kept

LEMMA PickedUpKept ==
  ASSUME ZoneAssumption, micro \in BOOLEAN, micro, NEW f \in Flag, NEW z,
         Kept(z, f, micro), NEW u \in Unit, SideOf[u] = f, NEW at \in Place
  PROVE  Kept(PickedUp(z, u, at), f, micro)
<1> DEFINE t == TerminateScripts(z)
           y == [t EXCEPT !.planted = FALSE, !.carrier = u, !.carrierPos = at,
                          !.activated = FALSE]
           s == UpdateVisualState(y)
<1>1. t \in Zone /\ t.running = 0 /\ t.scripts = 0
  BY TerminateScriptsFields DEF Kept, Same
<1>2. y \in Zone /\ y.running = 0 /\ y.scripts = 0 /\ ~y.planted
      /\ y.carrier = u /\ y.carrierPos = at
  <2> HIDE DEF t
  <2> QED
    BY <1>1 DEF Zone
<1>3. s \in Zone /\ s.running = 0 /\ s.scripts = 0 /\ ~s.planted
      /\ s.carrier = u /\ s.carrierPos = at
  BY <1>2, UpdateVisualStateFields DEF Same
<1>4. PickedUp(z, u, at) = s
  BY DEF PickedUp
<1>5. u # None /\ at # None
  BY DEF ZoneAssumption
<1> QED
  BY <1>3, <1>4, <1>5 DEF Kept

LEMMA MovedKept ==
  ASSUME ZoneAssumption, NEW f \in Flag, NEW mode \in BOOLEAN, NEW z,
         Kept(z, f, mode), z.planted, NEW to \in Place
  PROVE  Kept(Moved(z, to), f, mode) /\ Moved(z, to).carrier = None
<1> DEFINE t == TerminateScripts(z)
           y == [t EXCEPT !.ready = FALSE, !.activated = TRUE, !.destroyed = FALSE,
                          !.age = 0, !.place = to]
           r == UpdateVisualState(y)
           s == SpawnTicketGain(r)
<1>1. t \in Zone /\ t.running = 0 /\ t.scripts = 0 /\ t.planted
      /\ t.carrier = None /\ t.carrierPos = None
  BY TerminateScriptsFields DEF Kept, Same
<1>2. y \in Zone /\ y.running = 0 /\ y.scripts = 0 /\ y.planted
      /\ y.carrier = None /\ y.carrierPos = None /\ ~y.destroyed
  <2> HIDE DEF t
  <2> QED
    BY <1>1, Bounds DEF Zone
<1>3. r \in Zone /\ r.running = 0 /\ r.scripts = 0 /\ r.planted
      /\ r.carrier = None /\ r.carrierPos = None /\ ~r.destroyed
  BY <1>2, UpdateVisualStateFields DEF Same
<1>4. s \in Zone /\ s.running = 1 /\ s.scripts = 1 /\ s.planted
      /\ s.carrier = None /\ s.carrierPos = None /\ ~s.destroyed
  BY <1>3, SpawnTicketGainFields DEF Same
<1>5. Moved(z, to) = s
  BY DEF Moved
<1> QED
  BY <1>4, <1>5 DEF Kept

LEMMA DestroyedKept ==
  ASSUME ZoneAssumption, NEW f \in Flag, NEW mode \in BOOLEAN, NEW z,
         Kept(z, f, mode), z.planted
  PROVE  Kept(Destroyed(z), f, mode) /\ Destroyed(z).carrier = None
<1> DEFINE t == TerminateScripts(z)
           y == [t EXCEPT !.ready = FALSE, !.destroyed = TRUE,
                          !.captured = CaptureTime, !.age = 0]
           r == DestroyRepos(y)
           s == UpdateVisualState(r)
<1>1. t \in Zone /\ t.running = 0 /\ t.scripts = 0 /\ t.planted
      /\ t.carrier = None /\ t.carrierPos = None
  BY TerminateScriptsFields DEF Kept, Same
<1>2. y \in Zone /\ y.running = 0 /\ y.scripts = 0 /\ y.planted
      /\ y.carrier = None /\ y.carrierPos = None
  <2> HIDE DEF t
  <2> QED
    BY <1>1, Bounds DEF Zone
<1>3. r \in Zone /\ r.running = 0 /\ r.scripts = 0 /\ r.planted
      /\ r.carrier = None /\ r.carrierPos = None
  BY <1>2, DestroyReposFields DEF Same
<1>4. s \in Zone /\ s.running = 0 /\ s.scripts = 0 /\ s.planted
      /\ s.carrier = None /\ s.carrierPos = None
  BY <1>3, UpdateVisualStateFields DEF Same
<1>5. Destroyed(z) = s
  BY DEF Destroyed
<1> QED
  BY <1>4, <1>5 DEF Kept

LEMMA AgeKept ==
  ASSUME NEW f \in Flag, NEW mode \in BOOLEAN, NEW z, Kept(z, f, mode), NEW n \in Ages
  PROVE  LET y == [z EXCEPT !.age = n] IN Kept(y, f, mode) /\ y.carrier = z.carrier
BY DEF Kept, Zone

LEMMA CarrierPosKept ==
  ASSUME ZoneAssumption, NEW f \in Flag, NEW mode \in BOOLEAN, NEW z,
         Kept(z, f, mode), ~z.planted, NEW at \in Place
  PROVE  LET y == [z EXCEPT !.carrierPos = at] IN
           Kept(y, f, mode) /\ y.carrier = z.carrier
BY DEF ZoneAssumption, Kept, Zone

LEMMA LevelKept ==
  ASSUME NEW f \in Flag, NEW mode \in BOOLEAN, NEW z, Kept(z, f, mode), NEW n \in Levels
  PROVE  LET y == UpdateVisualState([z EXCEPT !.captured = n]) IN
           Kept(y, f, mode) /\ y.carrier = z.carrier
BY DEF Kept, Zone, UpdateVisualState

LEMMA ReadyKept ==
  ASSUME NEW f \in Flag, NEW mode \in BOOLEAN, NEW z, Kept(z, f, mode)
  PROVE  Kept(BecomeReady(z), f, mode) /\ BecomeReady(z).carrier = z.carrier
BY DEF Kept, Zone, BecomeReady
-----------------------------------------------------------------------------
(* The handlers on the state.  A change of one flag leaves the other one   *)
(* and its carrier alone: their sides differ.                              *)
LEMMA OneFlagChanges ==
  ASSUME FlagsInv, NEW f \in Flag, NEW y, Kept(y, f, micro), micro' = micro,
         zone' = [zone EXCEPT ![f] = y]
  PROVE  /\ zone' \in [Flag -> Zone]
         /\ \A g \in Flag : Kept(zone'[g], g, micro')
         /\ zone'[f] = y
         /\ \A g \in Flag : g # f => zone'[g] = zone[g]
<1>1. y \in Zone
  BY DEF Kept
<1>2. \A g \in Flag : zone'[g] = IF g = f THEN y ELSE zone[g]
  BY DEF FlagsInv
<1> QED
  BY <1>1, <1>2 DEF FlagsInv

LEMMA DeployStep ==
  ASSUME ZoneAssumption, FlagsInv, micro \in BOOLEAN, micro' = micro,
         NEW m, Proper(m, micro), Deploy(m)
  PROVE  FlagsInv'
<1> DEFINE f == m.flag
           z == zone[f]
<1>1. f \in Flag /\ m.unit \in Unit /\ m.to \in Place /\ SideOf[m.unit] = f
  BY DEF Proper, Request
<1>2. Kept(z, f, micro)
  BY <1>1 DEF FlagsInv
<1>3. CASE z.planted \/ z.carrier # m.unit \/ status[m.unit] = "gone" \/ m.to = "far"
  BY <1>3 DEF Deploy, FlagsInv, LockKept, IsCarrier, units
<1>4. CASE ~(z.planted \/ z.carrier # m.unit \/ status[m.unit] = "gone" \/ m.to = "far")
  <2>1. Kept(Deployed(z, m.to), f, micro) /\ Deployed(z, m.to).carrier = None
    BY <1>1, <1>2, <1>4, DeployedKept
  <2>2. /\ zone' = [zone EXCEPT ![f] = Deployed(z, m.to)]
        /\ lock' = [lock EXCEPT ![m.unit] = FALSE]
        /\ UNCHANGED <<status, cleaning>>
    BY <1>4 DEF Deploy
  <2>3. /\ zone' \in [Flag -> Zone]
        /\ \A g \in Flag : Kept(zone'[g], g, micro')
        /\ zone'[f].carrier = None
        /\ \A g \in Flag : g # f => zone'[g] = zone[g]
    BY <1>1, <2>1, <2>2, OneFlagChanges
  <2>4. \A g \in Flag : g # f => zone[g].carrier # m.unit
    BY <1>1 DEF FlagsInv, Kept, ZoneAssumption
  <2>5. LockKept'
    BY <1>1, <1>4, <2>2, <2>3, <2>4 DEF FlagsInv, LockKept, IsCarrier, ZoneAssumption
  <2> QED
    BY <1>1, <2>2, <2>3, <2>5 DEF FlagsInv
<1> QED
  BY <1>3, <1>4

LEMMA UnDeployStep ==
  ASSUME ZoneAssumption, FlagsInv, micro \in BOOLEAN, micro' = micro,
         NEW m, Proper(m, micro), m.op = "undeploy", UnDeploy(m)
  PROVE  FlagsInv'
<1> DEFINE f == m.flag
           z == zone[f]
           moves == MayMove(m) /\ Alive(m.unit) /\ ~IsCarrier(m.unit)
<1>1. f \in Flag /\ m.unit \in Unit /\ m.at \in Place /\ SideOf[m.unit] = f /\ micro = TRUE
  BY DEF Proper, Request
<1>2. Kept(z, f, micro)
  BY <1>1 DEF FlagsInv
<1>3. CASE ~moves
  BY <1>3 DEF UnDeploy, FlagsInv, LockKept, IsCarrier, units
<1>4. CASE moves
  <2>1. Kept(PickedUp(z, m.unit, m.at), f, micro)
        /\ PickedUp(z, m.unit, m.at).carrier = m.unit
    <3>1. Kept(PickedUp(z, m.unit, m.at), f, micro)
      <4> HIDE DEF f, z
      <4> QED
        BY <1>1, <1>2, PickedUpKept
    <3>2. z \in Zone
      BY <1>2 DEF Kept
    <3>3. PickedUp(z, m.unit, m.at).carrier = m.unit
      <4> HIDE DEF z
      <4> QED
        BY <3>2 DEF PickedUp, UpdateVisualState, TerminateScripts, Zone
    <3> QED
      BY <3>1, <3>3
  <2>2. /\ zone' = [zone EXCEPT ![f] = PickedUp(z, m.unit, m.at)]
        /\ lock' = [lock EXCEPT ![m.unit] = TRUE]
        /\ UNCHANGED <<status, cleaning>>
    BY <1>4 DEF UnDeploy
  <2>3. /\ zone' \in [Flag -> Zone]
        /\ \A g \in Flag : Kept(zone'[g], g, micro')
        /\ zone'[f].carrier = m.unit
        /\ \A g \in Flag : g # f => zone'[g] = zone[g]
    BY <1>1, <2>1, <2>2, OneFlagChanges
  <2>4. zone[f].carrier = None
    BY <1>2, <1>4 DEF MayMove, Kept
  <2>5. ASSUME NEW u \in Unit, status'[u] # "gone"
        PROVE  lock'[u] <=> \E g \in Flag : zone'[g].carrier = u
    <3>1. CASE u = m.unit
      BY <1>1, <2>2, <2>3, <3>1 DEF FlagsInv
    <3>2. CASE u # m.unit
      <4>1. lock'[u] = lock[u] /\ status[u] # "gone"
        BY <2>2, <2>5, <3>2 DEF FlagsInv
      <4>2. u # None
        BY DEF ZoneAssumption
      <4>3. \A g \in Flag : zone'[g].carrier = u <=> zone[g].carrier = u
        BY <2>3, <2>4, <3>2, <4>2
      <4> QED
        BY <4>1, <4>3 DEF FlagsInv, LockKept, IsCarrier
    <3> QED
      BY <3>1, <3>2
  <2> QED
    BY <1>1, <2>2, <2>3, <2>5 DEF FlagsInv, LockKept, IsCarrier
<1> QED
  BY <1>3, <1>4

LEMMA ReDeployStep ==
  ASSUME ZoneAssumption, FlagsInv, micro \in BOOLEAN, micro' = micro,
         NEW m, Proper(m, micro), ReDeploy(m)
  PROVE  FlagsInv'
<1> DEFINE f == m.flag
           z == zone[f]
<1>1. f \in Flag /\ m.to \in Place
  BY DEF Proper, Request
<1>2. Kept(z, f, micro) /\ UNCHANGED <<status, lock, cleaning>>
  BY <1>1 DEF FlagsInv, ReDeploy, units
<1>3. CASE ~(MayMove(m) /\ m.to # "far")
  <2>1. UNCHANGED <<zone, status, lock, cleaning, micro>>
    BY <1>2, <1>3, Zenon DEF ReDeploy
  <2>2. LockKept'
    BY <2>1 DEF FlagsInv, LockKept, IsCarrier
  <2> QED
    BY <2>1, <2>2 DEF FlagsInv
<1>4. CASE MayMove(m) /\ m.to # "far"
  <2>1. Kept(Moved(z, m.to), f, micro) /\ Moved(z, m.to).carrier = None
    BY <1>1, <1>2, <1>4, MovedKept DEF MayMove
  <2>2. zone' = [zone EXCEPT ![f] = Moved(z, m.to)]
    BY <1>4 DEF ReDeploy
  <2>3. /\ zone' \in [Flag -> Zone]
        /\ \A g \in Flag : Kept(zone'[g], g, micro')
        /\ zone'[f].carrier = None
        /\ \A g \in Flag : g # f => zone'[g] = zone[g]
    <3>1. PICK x, y : x = f /\ y = Moved(z, m.to)
      OBVIOUS
    <3> HIDE DEF f, z
    <3>2. /\ zone' \in [Flag -> Zone]
          /\ \A g \in Flag : Kept(zone'[g], g, micro')
          /\ zone'[x] = y
          /\ \A g \in Flag : g # x => zone'[g] = zone[g]
      BY <1>1, <2>1, <2>2, <3>1, OneFlagChanges
    <3> QED
      BY <2>1, <3>1, <3>2
  <2>4. zone[f].carrier = None
    BY <1>2, <1>4 DEF MayMove, Kept
  <2>5. \A g \in Flag : zone'[g].carrier = zone[g].carrier
    BY <2>3, <2>4
  <2> QED
    BY <1>2, <2>3, <2>5 DEF FlagsInv, LockKept, IsCarrier
<1> QED
  BY <1>3, <1>4

LEMMA SafelyDeleteBodyStep ==
  ASSUME FlagsInv, micro' = micro, NEW m, Proper(m, micro), SafelyDeleteBody(m)
  PROVE  FlagsInv'
<1>1. m.unit \in Unit
  BY DEF Proper, Request
<1>2. /\ status' \in [Unit -> {"alive", "dead", "gone"}]
      /\ cleaning' \in [Unit -> {"no", "sleeping", "queued"}]
      /\ \A u \in Unit : status'[u] # "gone" => status[u] # "gone"
  BY <1>1 DEF SafelyDeleteBody, FlagsInv
<1> QED
  BY <1>2 DEF SafelyDeleteBody, FlagsInv, LockKept, IsCarrier

LEMMA WatchCarrierStep ==
  ASSUME ZoneAssumption, FlagsInv, micro \in BOOLEAN, micro' = micro,
         NEW f \in Flag, ~zone[f].planted, WatchCarrier(f)
  PROVE  FlagsInv'
<1> DEFINE z == zone[f]
<1>1. Kept(z, f, micro)
  BY DEF FlagsInv
<1>2. z.carrier \in Unit /\ SideOf[z.carrier] = f
  BY <1>1 DEF Kept, Zone
<1>3. PICK at \in Place :
        IF Alive(z.carrier)
          THEN /\ zone' = [zone EXCEPT ![f].carrierPos = at]
               /\ UNCHANGED units
          ELSE DeployDead(f, at)
  BY DEF WatchCarrier
<1>4. CASE Alive(z.carrier)
  <2> DEFINE y == [z EXCEPT !.carrierPos = at]
  <2>1. Kept(y, f, micro) /\ y.carrier = z.carrier
    BY <1>1, CarrierPosKept
  <2>2. zone' = [zone EXCEPT ![f] = y] /\ UNCHANGED <<status, lock, cleaning>>
    BY <1>3, <1>4 DEF units
  <2> HIDE DEF y
  <2>3. /\ zone' \in [Flag -> Zone]
        /\ \A g \in Flag : Kept(zone'[g], g, micro')
        /\ \A g \in Flag : zone'[g].carrier = zone[g].carrier
    BY <2>1, <2>2, OneFlagChanges
  <2> QED
    BY <2>2, <2>3 DEF FlagsInv, LockKept, IsCarrier
<1>5. CASE ~Alive(z.carrier)
  <2>1. Kept(Fallen(z, at), f, micro) /\ Fallen(z, at).carrier = None
    BY <1>1, FallenKept
  <2>2. /\ zone' = [zone EXCEPT ![f] = Fallen(z, at)]
        /\ lock' = [u \in Unit |-> lock[u] /\ u # z.carrier]
        /\ UNCHANGED <<status, cleaning>>
    BY <1>3, <1>5 DEF DeployDead
  <2>3. /\ zone' \in [Flag -> Zone]
        /\ \A g \in Flag : Kept(zone'[g], g, micro')
        /\ zone'[f].carrier = None
        /\ \A g \in Flag : g # f => zone'[g] = zone[g]
    <3>1. PICK y : y = Fallen(z, at)
      OBVIOUS
    <3>2. Kept(y, f, micro) /\ y.carrier = None /\ zone' = [zone EXCEPT ![f] = y]
      BY <2>1, <2>2, <3>1
    <3> HIDE DEF z
    <3>3. /\ zone' \in [Flag -> Zone]
          /\ \A g \in Flag : Kept(zone'[g], g, micro')
          /\ zone'[f] = y
          /\ \A g \in Flag : g # f => zone'[g] = zone[g]
      BY <3>2, OneFlagChanges
    <3> QED
      BY <3>2, <3>3
  <2>4. \A g \in Flag : g # f => zone[g].carrier # z.carrier
    BY <1>2 DEF FlagsInv, Kept, ZoneAssumption
  <2>5. lock' \in [Unit -> BOOLEAN]
    BY <2>2
  <2>6. ASSUME NEW u \in Unit, status'[u] # "gone"
        PROVE  lock'[u] <=> \E g \in Flag : zone'[g].carrier = u
    <3>1. lock'[u] <=> lock[u] /\ u # z.carrier
      BY <2>2
    <3>2. (\E g \in Flag : zone'[g].carrier = u) <=>
            (\E g \in Flag : zone[g].carrier = u) /\ u # z.carrier
      BY <2>3, <2>4 DEF ZoneAssumption
    <3> QED
      BY <2>2, <2>6, <3>1, <3>2 DEF FlagsInv, LockKept, IsCarrier
  <2> QED
    BY <2>2, <2>3, <2>5, <2>6 DEF FlagsInv, LockKept, IsCarrier
<1> QED
  BY <1>4, <1>5

(* A scan changes the levels of its flag, or destroys it and lets the      *)
(* other one be ready.                                                     *)
LEMMA ScanStep ==
  ASSUME ZoneAssumption, FlagsInv, micro \in BOOLEAN,
         NEW f \in Flag, zone[f].planted, NEW who \in DOMAIN Change
  PROVE  /\ Scan(f, who) \in [Flag -> Zone]
         /\ \A g \in Flag : /\ Kept(Scan(f, who)[g], g, micro)
                           /\ Scan(f, who)[g].carrier = zone[g].carrier
<1> DEFINE z == zone[f]
           o == Opponent(f)
           level == z.captured + Change[who]
           n == IF level > CaptureTime THEN z.captured ELSE level
<1>1. /\ Kept(z, f, micro) /\ z \in Zone /\ z.carrier = None
      /\ o \in Flag /\ o # f /\ Kept(zone[o], o, micro) /\ zone \in [Flag -> Zone]
  BY DEF FlagsInv, Kept, Opponent, Flag
<1>2. \A g \in Flag : g = f \/ g = o
  BY DEF Opponent, Flag
<1>3. CASE level < 0
  <2> DEFINE y == Destroyed(z)
             w == [zone[o] EXCEPT !.age = ReadyTime]
  <2>1. Kept(y, f, micro) /\ y.carrier = None
    BY <1>1, DestroyedKept
  <2>2. Kept(w, o, micro) /\ w.carrier = zone[o].carrier
    BY <1>1, AgeKept, Bounds
  <2>3. Scan(f, who) = [zone EXCEPT ![f] = y, ![o] = w]
    BY <1>1, <1>3 DEF Scan
  <2> HIDE DEF y, w, o
  <2>4. Scan(f, who)[f] = y /\ Scan(f, who)[o] = w /\ Scan(f, who) \in [Flag -> Zone]
    BY <1>1, <2>1, <2>2, <2>3 DEF Kept
  <2> QED
    BY <1>1, <1>2, <2>1, <2>2, <2>4
<1>4. CASE ~(level < 0)
  <2> DEFINE y == UpdateVisualState([z EXCEPT !.captured = n])
  <2>1. n \in Levels
    BY <1>1, <1>4 DEF Zone, Levels, Change, ZoneAssumption
  <2>2. Kept(y, f, micro) /\ y.carrier = z.carrier
    <3> HIDE DEF n
    <3> QED
      BY <1>1, <2>1, LevelKept
  <2>3. Scan(f, who) = [zone EXCEPT ![f] = y]
    BY <1>4 DEF Scan
  <2> HIDE DEF y
  <2>4. /\ Scan(f, who) \in [Flag -> Zone]
        /\ \A g \in Flag : Scan(f, who)[g] = IF g = f THEN y ELSE zone[g]
    BY <1>1, <2>2, <2>3 DEF Kept
  <2> QED
    BY <1>1, <2>2, <2>4 DEF FlagsInv
<1> QED
  BY <1>3, <1>4

LEMMA WatchPlantedStep ==
  ASSUME ZoneAssumption, FlagsInv, micro \in BOOLEAN, micro' = micro,
         NEW f \in Flag, zone[f].planted, WatchPlanted(f)
  PROVE  FlagsInv'
<1>1. PICK who \in DOMAIN Change :
        LET scanned == IF zone[f].activated THEN Scan(f, who) ELSE zone IN
          zone' = [scanned EXCEPT ![f] = BecomeReady(@)]
  BY DEF WatchPlanted
<1> DEFINE s == IF zone[f].activated THEN Scan(f, who) ELSE zone
<1>2. /\ s \in [Flag -> Zone]
      /\ \A g \in Flag : Kept(s[g], g, micro) /\ s[g].carrier = zone[g].carrier
  BY ScanStep DEF FlagsInv
<1>3. zone' = [s EXCEPT ![f] = BecomeReady(s[f])]
  BY <1>1
<1> HIDE DEF s
<1>4. Kept(BecomeReady(s[f]), f, micro) /\ BecomeReady(s[f]).carrier = s[f].carrier
  BY <1>2, ReadyKept
<1>5. BecomeReady(s[f]) \in Zone
  BY <1>4 DEF Kept
<1>6. /\ zone' \in [Flag -> Zone]
      /\ \A g \in Flag : zone'[g] = IF g = f THEN BecomeReady(s[f]) ELSE s[g]
  BY <1>2, <1>3, <1>5
<1>7. \A g \in Flag : Kept(zone'[g], g, micro') /\ zone'[g].carrier = zone[g].carrier
  <2> SUFFICES ASSUME NEW g \in Flag
               PROVE  Kept(zone'[g], g, micro') /\ zone'[g].carrier = zone[g].carrier
    OBVIOUS
  <2>1. CASE g = f
    BY <1>2, <1>4, <1>6, <2>1
  <2>2. CASE g # f
    <3>1. zone'[g] = s[g]
      BY <1>6, <2>2
    <3> QED
      BY <1>2, <3>1
  <2> QED
    BY <2>1, <2>2
<1>8. UNCHANGED <<status, lock, cleaning>>
  BY DEF WatchPlanted, units
<1>9. LockKept'
  <2>1. \A u \in Unit : IsCarrier(u)' <=> IsCarrier(u)
    BY <1>7 DEF IsCarrier
  <2> QED
    BY <1>8, <2>1 DEF FlagsInv, LockKept
<1> QED
  BY <1>6, <1>7, <1>8, <1>9 DEF FlagsInv
-----------------------------------------------------------------------------
(* The steps.                                                              *)
LEMMA FlagZoneThreadStep ==
  ASSUME ZoneAssumption, ZoneInv, NEW f \in Flag, FlagZoneThread(f)
  PROVE  ZoneInv'
<1>1. micro \in BOOLEAN /\ micro' = micro /\ FlagsInv
  BY DEF ZoneInv, RequestsInv, FlagZoneThread, params
<1>2. FlagsInv'
  <2>1. CASE zone[f].planted
    BY <1>1, <2>1, WatchPlantedStep DEF FlagZoneThread
  <2>2. CASE ~zone[f].planted
    BY <1>1, <2>2, WatchCarrierStep DEF FlagZoneThread
  <2> QED
    BY <2>1, <2>2
<1>3. RequestsInv'
  BY DEF ZoneInv, RequestsInv, FlagZoneThread, params
<1> QED
  BY <1>2, <1>3 DEF ZoneInv

LEMMA FlagZoneQueueStep ==
  ASSUME ZoneAssumption, ZoneInv, FlagZoneQueue
  PROVE  ZoneInv'
<1> DEFINE m == Head(queue)
<1>1. /\ micro \in BOOLEAN /\ micro' = micro /\ FlagsInv
      /\ queue \in Seq(Request) /\ queue # <<>>
  BY DEF ZoneInv, RequestsInv, FlagZoneQueue, params
<1>2. Proper(m, micro)
  BY <1>1 DEF ZoneInv, RequestsInv
<1>3. FlagsInv'
  <2>1. CASE m.op = "deploy" /\ Deploy(m)
    BY <1>1, <1>2, <2>1, DeployStep
  <2>2. CASE m.op = "undeploy" /\ UnDeploy(m)
    BY <1>1, <1>2, <2>2, UnDeployStep
  <2>3. CASE m.op = "redeploy" /\ ReDeploy(m)
    BY <1>1, <1>2, <2>3, ReDeployStep
  <2>4. CASE m.op = "body" /\ SafelyDeleteBody(m)
    BY <1>1, <1>2, <2>4, SafelyDeleteBodyStep
  <2> QED
    BY <2>1, <2>2, <2>3, <2>4 DEF FlagZoneQueue
<1>4. /\ queue' \in Seq(Request)
      /\ \A i \in 1 .. Len(queue') : Proper(queue'[i], micro')
  BY <1>1 DEF ZoneInv, RequestsInv, FlagZoneQueue
<1>5. RequestsInv'
  BY <1>4 DEF ZoneInv, RequestsInv, FlagZoneQueue, params
<1> QED
  BY <1>3, <1>5 DEF ZoneInv

(* What leaves the flags and the bodies' locks alone keeps their part.     *)
LEMMA FlagsStand ==
  ASSUME FlagsInv, UNCHANGED <<micro, zone, lock>>,
         status' \in [Unit -> {"alive", "dead", "gone"}],
         cleaning' \in [Unit -> {"no", "sleeping", "queued"}],
         \A u \in Unit : status'[u] # "gone" => status[u] # "gone"
  PROVE  FlagsInv'
BY DEF FlagsInv, LockKept, IsCarrier

LEMMA AskStep ==
  ASSUME ZoneInv, NEW m \in Request, m.op = "undeploy" => micro, Ask(m)
  PROVE  ZoneInv'
<1>1. FlagsInv'
  BY FlagsStand DEF Ask, ZoneInv, params, units, FlagsInv
<1>2. Proper(m, micro)
  BY DEF Ask, Proper
<1>3. RequestsInv'
  BY <1>2 DEF Ask, ZoneInv, RequestsInv, params
<1> QED
  BY <1>1, <1>3 DEF ZoneInv

LEMMA PlayerStep ==
  ASSUME ZoneInv, NEW u \in Unit,
         \/ Die(u) \/ Leave(u) \/ StartClean(u)
         \/ \E f \in Flag :
              \/ AskUndeploy(u, f)
              \/ \E to \in Place : AskDeploy(u, f, to) \/ AskRedeploy(u, f, to)
  PROVE  ZoneInv'
<1>1. CASE Die(u)
  <2>1. FlagsInv'
    BY <1>1, FlagsStand DEF Die, Alive, ZoneInv, params, FlagsInv
  <2> QED
    BY <1>1, <2>1 DEF Die, ZoneInv, RequestsInv, params
<1>2. CASE Leave(u)
  <2>1. FlagsInv'
    BY <1>2, FlagsStand DEF Leave, ZoneInv, params, FlagsInv
  <2> QED
    BY <1>2, <2>1 DEF Leave, ZoneInv, RequestsInv, params
<1>3. CASE StartClean(u)
  <2>1. FlagsInv'
    BY <1>3, FlagsStand DEF StartClean, ZoneInv, params, FlagsInv
  <2> QED
    BY <1>3, <2>1 DEF StartClean, ZoneInv, RequestsInv, params
<1>4. ASSUME NEW f \in Flag, AskUndeploy(u, f)
      PROVE  ZoneInv'
  <2> DEFINE m == [op |-> "undeploy", flag |-> f, unit |-> u,
                   at |-> zone[f].place, to |-> zone[f].place]
  <2>1. zone[f].place \in Place
    BY DEF ZoneInv, FlagsInv, Zone
  <2>2. m \in Request
    BY <2>1 DEF Request
  <2> QED
    BY <1>4, <2>2, AskStep DEF AskUndeploy
<1>5. ASSUME NEW f \in Flag, NEW to \in Place, AskDeploy(u, f, to)
      PROVE  ZoneInv'
  <2> DEFINE m == [op |-> "deploy", flag |-> f, unit |-> u, at |-> to, to |-> to]
  <2>1. m \in Request /\ m.op = "deploy"
    BY DEF Request
  <2>2. Ask(m)
    BY <1>5 DEF AskDeploy
  <2> HIDE DEF m
  <2> QED
    BY <2>1, <2>2, AskStep
<1>6. ASSUME NEW f \in Flag, NEW to \in Place, AskRedeploy(u, f, to)
      PROVE  ZoneInv'
  <2> DEFINE m == [op |-> "redeploy", flag |-> f, unit |-> u,
                   at |-> zone[f].place, to |-> to]
  <2>1. zone[f].place \in Place
    BY DEF ZoneInv, FlagsInv, Zone
  <2>2. m \in Request /\ m.op = "redeploy"
    BY <2>1 DEF Request
  <2>3. Ask(m)
    BY <1>6 DEF AskRedeploy
  <2> HIDE DEF m
  <2> QED
    BY <2>2, <2>3, AskStep
<1> QED
  BY <1>1, <1>2, <1>3, <1>4, <1>5, <1>6

LEMMA QueuedStep ==
  ASSUME ZoneInv, UNCHANGED <<micro, pinned, phase>>, net' \subseteq net,
         NEW m, Proper(m, micro), queue' = Append(queue, m)
  PROVE  RequestsInv'
<1>1. m \in Request /\ queue \in Seq(Request)
  BY DEF Proper, ZoneInv, RequestsInv
<1>2. queue' \in Seq(Request) /\ Len(queue') = Len(queue) + 1 /\ Len(queue) \in Nat
  BY <1>1
<1>3. ASSUME NEW i \in 1 .. Len(queue')
      PROVE  Proper(queue'[i], micro)
  <2>1. CASE i = Len(queue) + 1
    BY <1>1, <2>1
  <2>2. CASE i \in 1 .. Len(queue)
    <3>1. queue'[i] = queue[i]
      BY <1>1, <2>2
    <3> QED
      BY <2>2, <3>1 DEF ZoneInv, RequestsInv
  <2> QED
    BY <1>2, <2>1, <2>2
<1>4. net' \in SUBSET Request /\ \A n \in net' : Proper(n, micro)
  BY DEF ZoneInv, RequestsInv
<1>5. micro' = micro /\ pinned' = pinned /\ phase' = phase
  OBVIOUS
<1> QED
  BY <1>2, <1>3, <1>4, <1>5 DEF ZoneInv, RequestsInv

LEMMA ArriveStep ==
  ASSUME ZoneInv, NEW m \in net, Arrive(m)
  PROVE  ZoneInv'
<1>1. Proper(m, micro)
  BY DEF ZoneInv, RequestsInv
<1>2. RequestsInv'
  BY <1>1, QueuedStep DEF Arrive, params
<1>3. FlagsInv'
  BY FlagsStand DEF Arrive, ZoneInv, params, units, FlagsInv
<1> QED
  BY <1>2, <1>3 DEF ZoneInv

LEMMA CleanBodyStep ==
  ASSUME ZoneAssumption, ZoneInv, NEW u \in Unit, CleanBody(u)
  PROVE  ZoneInv'
<1> DEFINE m == [op |-> "body", flag |-> SideOf[u], unit |-> u,
                 at |-> "home", to |-> "home"]
<1>1. m \in Request /\ SideOf[m.unit] = m.flag /\ m.op = "body"
  BY DEF Request, ZoneAssumption, Place
<1>2. queue' = Append(queue, m) /\ UNCHANGED <<micro, pinned, phase, net>>
  BY DEF CleanBody, params
<1> HIDE DEF m
<1>3. Proper(m, micro)
  BY <1>1 DEF Proper
<1>4. RequestsInv'
  BY <1>2, <1>3, QueuedStep
<1>5. FlagsInv'
  BY FlagsStand DEF CleanBody, ZoneInv, params, FlagsInv
<1> QED
  BY <1>4, <1>5 DEF ZoneInv

LEMMA RespawnStep ==
  ASSUME ZoneInv, NEW u \in Unit, Respawn(u)
  PROVE  ZoneInv'
<1>1. /\ status' = [status EXCEPT ![u] = "alive"]
      /\ lock' = [lock EXCEPT ![u] = FALSE]
      /\ ~IsCarrier(u)
      /\ UNCHANGED <<micro, zone, cleaning>>
  BY DEF Respawn, params
<1>2. LockKept'
  <2> SUFFICES ASSUME NEW v \in Unit, status'[v] # "gone"
               PROVE  lock'[v] <=> \E g \in Flag : zone[g].carrier = v
    BY <1>1 DEF LockKept, IsCarrier
  <2>1. CASE v = u
    BY <1>1, <2>1 DEF ZoneInv, FlagsInv, IsCarrier
  <2>2. CASE v # u
    BY <1>1, <2>2 DEF ZoneInv, FlagsInv, LockKept, IsCarrier
  <2> QED
    BY <2>1, <2>2
<1>3. FlagsInv'
  BY <1>1, <1>2 DEF ZoneInv, FlagsInv
<1>4. RequestsInv'
  BY DEF Respawn, ZoneInv, RequestsInv, params
<1> QED
  BY <1>3, <1>4 DEF ZoneInv

LEMMA TickStep ==
  ASSUME ZoneAssumption, ZoneInv, Tick
  PROVE  ZoneInv'
<1> DEFINE older(f) == IF zone[f].age = ReadyTime THEN zone[f].age ELSE zone[f].age + 1
           y(f) == [zone[f] EXCEPT !.age = older(f)]
<1>1. /\ zone' = [f \in Flag |-> y(f)]
      /\ UNCHANGED <<micro, pinned, status, lock, cleaning, net, queue, phase>>
  BY DEF Tick, params, units
<1>2. ASSUME NEW f \in Flag
      PROVE  Kept(y(f), f, micro) /\ y(f).carrier = zone[f].carrier
  <2>1. Kept(zone[f], f, micro) /\ zone[f].age \in Ages
    BY DEF ZoneInv, FlagsInv, Kept, Zone
  <2>2. older(f) \in Ages
    BY <2>1 DEF Ages, ZoneAssumption
  <2>3. micro \in BOOLEAN
    BY DEF ZoneInv, RequestsInv
  <2> HIDE DEF older
  <2> QED
    BY <2>1, <2>2, <2>3, AgeKept
<1> HIDE DEF y
<1>3. /\ zone' \in [Flag -> Zone]
      /\ \A f \in Flag : Kept(zone'[f], f, micro') /\ zone'[f].carrier = zone[f].carrier
  <2>1. \A f \in Flag : y(f) \in Zone
    BY <1>2 DEF Kept
  <2> QED
    BY <1>1, <1>2, <2>1
<1>4. FlagsInv'
  <2>1. \A u \in Unit : IsCarrier(u)' <=> IsCarrier(u)
    BY <1>3 DEF IsCarrier
  <2>2. LockKept'
    BY <1>1, <2>1 DEF ZoneInv, FlagsInv, LockKept
  <2> QED
    BY <1>1, <1>3, <2>2 DEF ZoneInv, FlagsInv
<1>5. RequestsInv'
  BY <1>1 DEF ZoneInv, RequestsInv
<1> QED
  BY <1>4, <1>5 DEF ZoneInv
-----------------------------------------------------------------------------
LEMMA ZoneStarts ==
  ASSUME ZoneAssumption, Init
  PROVE  ZoneInv
<1> DEFINE z == [planted |-> TRUE, carrier |-> None, carrierPos |-> None,
                 ready |-> FALSE, activated |-> TRUE, destroyed |-> FALSE,
                 captured |-> CaptureTime, age |-> 0, place |-> "home",
                 percent |-> CaptureTime, scripts |-> 0, running |-> 0]
<1>1. z \in Zone
  BY Bounds DEF Zone, Place, ZoneAssumption, Ages, Levels
<1>2. \A f \in Flag : Kept(z, f, micro)
  BY <1>1 DEF Kept
<1>3. zone = [f \in Flag |-> z]
  BY DEF Init
<1>4. z.carrier = None
  OBVIOUS
<1> HIDE DEF z
<1>5. LockKept
  BY <1>3, <1>4 DEF Init, LockKept, IsCarrier, ZoneAssumption
<1>6. FlagsInv
  BY <1>1, <1>2, <1>3, <1>5 DEF Init, FlagsInv
<1>7. RequestsInv
  BY DEF Init, RequestsInv
<1> QED
  BY <1>6, <1>7 DEF ZoneInv

LEMMA ZoneStep ==
  ASSUME ZoneAssumption, ZoneInv, [Next]_vars
  PROVE  ZoneInv'
<1>1. CASE Frame
  BY <1>1, FlagZoneQueueStep, FlagZoneThreadStep DEF Frame
<1>2. CASE Tick
  BY <1>2, TickStep
<1>3. ASSUME NEW u \in Unit,
             \/ Die(u) \/ Leave(u) \/ StartClean(u) \/ CleanBody(u) \/ Respawn(u)
             \/ \E f \in Flag :
                  \/ AskUndeploy(u, f)
                  \/ \E to \in Place : AskDeploy(u, f, to) \/ AskRedeploy(u, f, to)
      PROVE  ZoneInv'
  BY <1>3, PlayerStep, CleanBodyStep, RespawnStep
<1>4. ASSUME NEW m \in net, Arrive(m)
      PROVE  ZoneInv'
  BY <1>4, ArriveStep
<1>5. CASE UNCHANGED vars
  BY <1>5 DEF vars, ZoneInv, FlagsInv, RequestsInv, LockKept, IsCarrier
<1> QED
  BY <1>1, <1>2, <1>3, <1>4, <1>5 DEF Next

(* In every state each flag either stands or has a carrier of its side, a  *)
(* place to fall at, and its carrier's body locked (DeployFlagZone.sqf,    *)
(* UnDeployFlagZone.sqf), however requests, deaths and departures of any   *)
(* number of players are interleaved.                                      *)
THEOREM ZoneCarrierKept == Spec => []CarrierKept
<1>1. Init => ZoneInv
  BY ZoneStarts, ZoneAssumption
<1>2. ZoneInv /\ [Next]_vars => ZoneInv'
  BY ZoneStep, ZoneAssumption
<1>3. ZoneInv => CarrierKept
  BY DEF ZoneInv, FlagsInv, LockKept, Kept, CarrierKept
<1> QED
  BY <1>1, <1>2, <1>3, PTL DEF Spec

(* The tickets of a flag come from at most one script, which the flag      *)
(* knows, and from none while it is carried or, where flags are not        *)
(* carried, after it has been destroyed (FLAG_ZONE_SCRIPTS).               *)
THEOREM ZoneOneGain == Spec => []OneGain
<1>1. Init => ZoneInv
  BY ZoneStarts, ZoneAssumption
<1>2. ZoneInv /\ [Next]_vars => ZoneInv'
  BY ZoneStep, ZoneAssumption
<1>3. ZoneInv => OneGain
  BY DEF ZoneInv, FlagsInv, RequestsInv, Kept, OneGain
<1> QED
  BY <1>1, <1>2, <1>3, PTL DEF Spec

(* The variables of flags, bodies, requests and the frame handler keep     *)
(* their types (CreateFlagZone.sqf:23-42): each is set whenever a handler  *)
(* reads it.                                                               *)
THEOREM ZoneTypeCorrect == Spec => []ZoneTypeOK
<1>1. Init => ZoneInv
  BY ZoneStarts, ZoneAssumption
<1>2. ZoneInv /\ [Next]_vars => ZoneInv'
  BY ZoneStep, ZoneAssumption
<1>3. ZoneInv => ZoneTypeOK
  BY DEF ZoneInv, FlagsInv, RequestsInv, ZoneTypeOK
<1> QED
  BY <1>1, <1>2, <1>3, PTL DEF Spec
-----------------------------------------------------------------------------
(* What the players are told of a flag is true: it is ready only when its  *)
(* time is over, and the broadcast state shows its level.                  *)
Told(z) == (z.ready => z.age = ReadyTime) /\ z.percent = z.captured

ToldInv == ZoneInv /\ \A f \in Flag : Told(zone[f])

(* What a step may turn the variables z of a flag into.                    *)
May(z, y) ==
  /\ Told(y)
  /\ z.planted /\ (~y.planted \/ y.place # z.place) =>
       z.age = ReadyTime \/ (y.planted /\ y.destroyed /\ y.age = 0)
  /\ pinned /\ z.planted /\ z.captured < CaptureTime =>
       y.planted /\ (y.place = z.place \/ y.captured = CaptureTime)

LEMMA StandsMay ==
  ASSUME NEW z \in Zone, Told(z)
  PROVE  May(z, z)
BY DEF May, Zone

LEMMA PutDownMay ==
  ASSUME NEW z \in Zone, ~z.planted, NEW to \in Place
  PROVE  May(z, Deployed(z, to)) /\ May(z, Fallen(z, to))
<1>1. ~Deployed(z, to).ready
      /\ Deployed(z, to).percent = Deployed(z, to).captured
  BY DEF Deployed, PutDown, TerminateScripts, SpawnTicketGain, UpdateVisualState, Zone
<1>2. ~Fallen(z, to).ready
      /\ Fallen(z, to).percent = Fallen(z, to).captured
  BY DEF Fallen, PutDown, TerminateScripts, SpawnTicketGain, UpdateVisualState,
         DestroyRepos, Zone
<1> QED
  BY <1>1, <1>2 DEF May, Told

LEMMA PickedUpMay ==
  ASSUME NEW z \in Zone, Told(z), z.ready, pinned => z.percent = CaptureTime,
         ZoneAssumption, NEW u, NEW at
  PROVE  May(z, PickedUp(z, u, at))
<1>1. PickedUp(z, u, at).ready = z.ready /\ PickedUp(z, u, at).age = z.age
      /\ PickedUp(z, u, at).percent = PickedUp(z, u, at).captured
  BY DEF PickedUp, TerminateScripts, UpdateVisualState, Zone
<1>2. ~(pinned /\ z.captured < CaptureTime)
  BY DEF Told, ZoneAssumption
<1> QED
  BY <1>1, <1>2 DEF May, Told

LEMMA MovedMay ==
  ASSUME NEW z \in Zone, Told(z), z.ready, pinned => z.percent = CaptureTime,
         ZoneAssumption, NEW to
  PROVE  May(z, Moved(z, to))
<1>1. ~Moved(z, to).ready /\ Moved(z, to).percent = Moved(z, to).captured
  BY DEF Moved, TerminateScripts, SpawnTicketGain, UpdateVisualState, Zone
<1>2. ~(pinned /\ z.captured < CaptureTime)
  BY DEF Told, ZoneAssumption
<1> QED
  BY <1>1, <1>2 DEF May, Told

LEMMA DestroyedMay ==
  ASSUME NEW z \in Zone, z.planted
  PROVE  May(z, Destroyed(z)) /\ Destroyed(z).planted
<1>1. LET y == Destroyed(z) IN
        /\ ~y.ready /\ y.percent = y.captured /\ y.destroyed /\ y.age = 0
        /\ y.planted /\ y.captured = CaptureTime
  BY DEF Destroyed, DestroyRepos, TerminateScripts, UpdateVisualState, Zone
<1> QED
  BY <1>1 DEF May, Told

(* The clock and the scan of the other flag only let it get older.         *)
LEMMA AgeMay ==
  ASSUME NEW z \in Zone, Told(z), NEW n, z.age = ReadyTime => n = ReadyTime
  PROVE  May(z, [z EXCEPT !.age = n])
BY DEF May, Told, Zone

LEMMA LevelMay ==
  ASSUME NEW z \in Zone, Told(z), NEW n
  PROVE  May(z, UpdateVisualState([z EXCEPT !.captured = n]))
<1>1. LET y == UpdateVisualState([z EXCEPT !.captured = n]) IN
        /\ y.ready = z.ready /\ y.age = z.age /\ y.percent = y.captured
        /\ y.planted = z.planted /\ y.place = z.place
  BY DEF UpdateVisualState, Zone
<1> QED
  BY <1>1 DEF May, Told

LEMMA ReadyMay ==
  ASSUME NEW z, NEW y \in Zone, May(z, y)
  PROVE  May(z, BecomeReady(y))
<1>1. LET w == BecomeReady(y) IN
        /\ w.ready => y.ready \/ y.age = ReadyTime
        /\ w.age = y.age /\ w.percent = y.percent /\ w.captured = y.captured
        /\ w.planted = y.planted /\ w.place = y.place /\ w.destroyed = y.destroyed
  BY DEF BecomeReady, Zone
<1> QED
  BY <1>1 DEF May, Told

(* One flag changes and the other stands.                                  *)
LEMMA OneMay ==
  ASSUME ToldInv, NEW f \in Flag, NEW y, May(zone[f], y),
         zone' = [zone EXCEPT ![f] = y]
  PROVE  \A g \in Flag : May(zone[g], zone'[g])
<1>1. zone \in [Flag -> Zone] /\ \A g \in Flag : zone[g] \in Zone /\ Told(zone[g])
  BY DEF ToldInv, ZoneInv, FlagsInv
<1>2. \A g \in Flag : zone'[g] = IF g = f THEN y ELSE zone[g]
  BY <1>1
<1> QED
  BY <1>1, <1>2, StandsMay

LEMMA StandMay ==
  ASSUME ToldInv, zone' = zone
  PROVE  \A g \in Flag : May(zone[g], zone'[g])
BY StandsMay DEF ToldInv, ZoneInv, FlagsInv

LEMMA QueueMay ==
  ASSUME ZoneAssumption, ToldInv, FlagZoneQueue
  PROVE  \A g \in Flag : May(zone[g], zone'[g])
<1> DEFINE m == Head(queue)
           z == zone[m.flag]
<1>1. Proper(m, micro)
  BY DEF ToldInv, ZoneInv, RequestsInv, FlagZoneQueue
<1>2. m.flag \in Flag /\ m.to \in Place /\ z \in Zone /\ Told(z)
  BY <1>1 DEF Proper, Request, ToldInv, ZoneInv, FlagsInv
<1>3. CASE Deploy(m)
  <2>1. CASE z.planted \/ z.carrier # m.unit \/ status[m.unit] = "gone" \/ m.to = "far"
    BY <1>3, <2>1, StandMay DEF Deploy
  <2>2. CASE ~(z.planted \/ z.carrier # m.unit \/ status[m.unit] = "gone" \/ m.to = "far")
    <3>1. zone' = [zone EXCEPT ![m.flag] = Deployed(z, m.to)]
      BY <1>3, <2>2 DEF Deploy
    <3>2. May(z, Deployed(z, m.to))
      BY <1>2, <2>2, PutDownMay
    <3> QED
      BY <1>2, <3>1, <3>2, OneMay
  <2> QED
    BY <2>1, <2>2
<1>4. CASE UnDeploy(m)
  <2>1. CASE ~(MayMove(m) /\ Alive(m.unit) /\ ~IsCarrier(m.unit))
    BY <1>4, <2>1, StandMay DEF UnDeploy
  <2>2. CASE MayMove(m) /\ Alive(m.unit) /\ ~IsCarrier(m.unit)
    <3>1. zone' = [zone EXCEPT ![m.flag] = PickedUp(z, m.unit, m.at)]
      BY <1>4, <2>2 DEF UnDeploy
    <3>2. May(z, PickedUp(z, m.unit, m.at))
      BY <1>2, <2>2, PickedUpMay DEF MayMove
    <3> QED
      BY <1>2, <3>1, <3>2, OneMay
  <2> QED
    BY <2>1, <2>2
<1>5. CASE ReDeploy(m)
  <2>1. CASE ~(MayMove(m) /\ m.to # "far")
    BY <1>5, <2>1, StandMay DEF ReDeploy
  <2>2. CASE MayMove(m) /\ m.to # "far"
    <3>1. zone' = [zone EXCEPT ![m.flag] = Moved(z, m.to)]
      BY <1>5, <2>2 DEF ReDeploy
    <3>2. May(z, Moved(z, m.to))
      BY <1>2, <2>2, MovedMay DEF MayMove
    <3> QED
      BY <1>2, <3>1, <3>2, OneMay
  <2> QED
    BY <2>1, <2>2
<1>6. CASE SafelyDeleteBody(m)
  BY <1>6, StandMay DEF SafelyDeleteBody
<1> QED
  BY <1>3, <1>4, <1>5, <1>6 DEF FlagZoneQueue

LEMMA WatchCarrierMay ==
  ASSUME ToldInv, NEW f \in Flag, ~zone[f].planted, WatchCarrier(f)
  PROVE  \A g \in Flag : May(zone[g], zone'[g])
<1> DEFINE z == zone[f]
<1>1. z \in Zone /\ Told(z)
  BY DEF ToldInv, ZoneInv, FlagsInv
<1>2. PICK at \in Place :
        \/ zone' = [zone EXCEPT ![f].carrierPos = at]
        \/ zone' = [zone EXCEPT ![f] = Fallen(@, at)]
  BY DEF WatchCarrier, DeployDead
<1>3. May(z, Fallen(z, at))
  BY <1>1, PutDownMay
<1>4. May(z, [z EXCEPT !.carrierPos = at])
  BY <1>1 DEF May, Told, Zone
<1> QED
  BY <1>2, <1>3, <1>4, OneMay

LEMMA WatchPlantedMay ==
  ASSUME ZoneAssumption, ToldInv, NEW f \in Flag, zone[f].planted, WatchPlanted(f)
  PROVE  \A g \in Flag : May(zone[g], zone'[g])
<1>1. PICK who \in DOMAIN Change :
        LET scanned == IF zone[f].activated THEN Scan(f, who) ELSE zone IN
          zone' = [scanned EXCEPT ![f] = BecomeReady(@)]
  BY DEF WatchPlanted
<1> DEFINE s == IF zone[f].activated THEN Scan(f, who) ELSE zone
           z == zone[f]
           o == Opponent(f)
           n == IF z.captured + Change[who] > CaptureTime THEN z.captured
                ELSE z.captured + Change[who]
<1>2. FlagsInv /\ micro \in BOOLEAN
  BY DEF ToldInv, ZoneInv, RequestsInv
<1>3. /\ zone \in [Flag -> Zone] /\ \A g \in Flag : zone[g] \in Zone /\ Told(zone[g])
      /\ o \in Flag /\ o # f
  BY DEF ToldInv, ZoneInv, FlagsInv, Opponent, Flag
<1>4. s \in [Flag -> Zone]
  BY <1>2, ScanStep DEF FlagsInv
<1>5. \A g \in Flag : May(zone[g], s[g])
  <2>1. CASE ~zone[f].activated
    BY <1>3, <2>1, StandsMay
  <2>2. CASE zone[f].activated /\ z.captured + Change[who] < 0
    <3> DEFINE y == Destroyed(z)
               w == [zone[o] EXCEPT !.age = ReadyTime]
    <3>1. May(z, y) /\ May(zone[o], w)
      BY <1>3, DestroyedMay, AgeMay
    <3>2. s = [zone EXCEPT ![f] = y, ![o] = w]
      BY <1>3, <2>2 DEF Scan
    <3> HIDE DEF y, w, s, o
    <3>3. \A g \in Flag : s[g] = IF g = f THEN y ELSE IF g = o THEN w ELSE zone[g]
      BY <1>3, <3>2
    <3> QED
      BY <1>3, <3>1, <3>3, StandsMay
  <2>3. CASE zone[f].activated /\ ~(z.captured + Change[who] < 0)
    <3> DEFINE y == UpdateVisualState([z EXCEPT !.captured = n])
    <3>1. May(z, y)
      BY <1>3, LevelMay
    <3>2. s = [zone EXCEPT ![f] = y]
      BY <2>3 DEF Scan
    <3> HIDE DEF y, s
    <3>3. \A g \in Flag : s[g] = IF g = f THEN y ELSE zone[g]
      BY <1>3, <3>2
    <3> QED
      BY <1>3, <3>1, <3>3, StandsMay
  <2> QED
    BY <2>1, <2>2, <2>3
<1>6. zone' = [s EXCEPT ![f] = BecomeReady(s[f])]
  BY <1>1
<1> HIDE DEF s
<1>7. \A g \in Flag : zone'[g] = IF g = f THEN BecomeReady(s[f]) ELSE s[g]
  BY <1>4, <1>6
<1>8. May(z, BecomeReady(s[f]))
  BY <1>4, <1>5, ReadyMay
<1> QED
  BY <1>5, <1>7, <1>8

LEMMA TickMay ==
  ASSUME ToldInv, Tick
  PROVE  \A g \in Flag : May(zone[g], zone'[g])
<1> TAKE g \in Flag
<1> DEFINE n == IF zone[g].age = ReadyTime THEN zone[g].age ELSE zone[g].age + 1
<1>1. zone[g] \in Zone /\ Told(zone[g])
  BY DEF ToldInv, ZoneInv, FlagsInv
<1>2. zone'[g] = [zone[g] EXCEPT !.age = n]
  BY DEF Tick
<1>3. zone[g].age = ReadyTime => n = ReadyTime
  OBVIOUS
<1> HIDE DEF n
<1> QED
  BY <1>1, <1>2, <1>3, AgeMay

LEMMA StepMay ==
  ASSUME ZoneAssumption, ToldInv, [Next]_vars
  PROVE  \A g \in Flag : May(zone[g], zone'[g])
<1>1. ASSUME NEW f \in Flag, FlagZoneThread(f)
      PROVE  \A g \in Flag : May(zone[g], zone'[g])
  BY <1>1, WatchCarrierMay, WatchPlantedMay DEF FlagZoneThread
<1>2. CASE FlagZoneQueue
  BY <1>2, QueueMay
<1>3. CASE Tick
  BY <1>3, TickMay
<1>4. CASE ~(Frame \/ Tick)
  <2>1. \A m : Ask(m) \/ Arrive(m) => zone' = zone
    BY DEF Ask, Arrive
  <2>2. \A u \in Unit : Die(u) \/ Leave(u) \/ StartClean(u) \/ CleanBody(u) \/ Respawn(u)
                        => zone' = zone
    BY DEF Die, Leave, StartClean, CleanBody, Respawn
  <2>3. \A u \in Unit, f \in Flag :
          /\ AskUndeploy(u, f) => zone' = zone
          /\ \A to \in Place : AskDeploy(u, f, to) \/ AskRedeploy(u, f, to)
                               => zone' = zone
    BY <2>1, Zenon DEF AskUndeploy, AskDeploy, AskRedeploy
  <2>4. UNCHANGED vars => zone' = zone
    BY DEF vars
  <2>5. zone' = zone
    BY <1>4, <2>1, <2>2, <2>3, <2>4 DEF Next
  <2> QED
    BY <2>5, StandMay
<1> QED
  BY <1>1, <1>2, <1>3, <1>4 DEF Frame

LEMMA ToldStarts ==
  ASSUME ZoneAssumption, Init
  PROVE  ToldInv
BY ZoneStarts DEF Init, ToldInv, Told

LEMMA ToldStep ==
  ASSUME ZoneAssumption, ToldInv, [Next]_vars
  PROVE  ToldInv'
<1>1. \A g \in Flag : Told(zone'[g])
  BY StepMay DEF May
<1>2. ZoneInv'
  BY ZoneStep DEF ToldInv
<1> QED
  BY <1>1, <1>2 DEF ToldInv, Told

(* Nobody picks up or moves a flag before OPFL_DEPLOY_READY_TIME is over   *)
(* (FlagZoneThread.sqf:89, UnDeployFlagZone.sqf:27 and the same test of     *)
(* ReDeployFlagZone.sqf), however long old requests have been under way.   *)
THEOREM ZoneWaitsOut == Spec => WaitsOut
<1>1. Init => ToldInv
  BY ToldStarts, ZoneAssumption
<1>2. ToldInv /\ [Next]_vars => ToldInv'
  BY ToldStep, ZoneAssumption
<1>3. ToldInv /\ [Next]_vars =>
        [\A f \in Flag :
           zone[f].planted /\ (~zone'[f].planted \/ zone'[f].place # zone[f].place) =>
             \/ zone[f].age = ReadyTime
             \/ zone'[f].planted /\ zone'[f].destroyed /\ zone'[f].age = 0]_vars
  BY StepMay, ZoneAssumption DEF May
<1> QED
  BY <1>1, <1>2, <1>3, PTL DEF Spec, WaitsOut

(* A pinned flag that is being captured is neither picked up nor moved     *)
(* (UnDeployFlagZone.sqf:27, ReDeployFlagZone.sqf:34): what the handlers   *)
(* test is the broadcast state, which is never behind the level.           *)
THEOREM ZonePinnedStays == Spec => PinnedStays
<1>1. Init => ToldInv
  BY ToldStarts, ZoneAssumption
<1>2. ToldInv /\ [Next]_vars => ToldInv'
  BY ToldStep, ZoneAssumption
<1>3. ToldInv /\ [Next]_vars =>
        [\A f \in Flag :
           pinned /\ zone[f].planted /\ zone[f].captured < CaptureTime =>
             /\ zone'[f].planted
             /\ zone'[f].place = zone[f].place \/ zone'[f].captured = CaptureTime]_vars
  BY StepMay, ZoneAssumption DEF May
<1> QED
  BY <1>1, <1>2, <1>3, PTL DEF Spec, PinnedStays
=============================================================================
