--------------------------- MODULE DiscoveryProofs ---------------------------
(***************************************************************************)
(* The peer table of the mesh, for any number of nodes, calls of Start and *)
(* intervals.                                                              *)
(***************************************************************************)
EXTENDS MeshDiscovery, TLAPS

(* An entry is as old as the beacon last processed, and a peer that was    *)
(* heard and has none was silent for longer than the timeout.              *)
TableInv ==
  /\ peers[Self] = None
  /\ \A n \in Remote :
       /\ peers[n] # None => heard[n] = peers[n]
       /\ peers[n] = None /\ heard[n] # None => Stale(heard[n])

(* Until Stop, one call of Start at most gets past m.running: the others   *)
(* see it set, so one pair of goroutines at most is alive, and before it   *)
(* was spawned nobody has been heard.                                      *)
ClaimInv ==
  ~Quit =>
    /\ \A s \in Starts : apc[s] \in {"unborn", "select", "evict"} /\ (apc[s] = "unborn" <=> lpc[s] = "unborn")
    /\ ~running => \A s \in Starts : spc[s] = "idle" /\ apc[s] = "unborn"
    /\ \A s \in Starts : spc[s] = "bind" =>
         \A t \in Starts : apc[t] = "unborn" /\ (t # s => spc[t] # "bind")
    /\ (\A s \in Starts : apc[s] = "unborn") => \A n \in Nodes : peers[n] = None
    /\ \A s \in Starts : tick[s] => apc[s] = "select"

(* No entry is older than the timeout and k intervals.                     *)
Fresh(k) == \A n \in Remote : peers[n] # None => now <= peers[n] + PeerTimeout + k

(* Each tick is followed by an eviction before the next one.               *)
TickInv ==
  ~Quit => \A s \in Starts : apc[s] \in {"select", "evict"} =>
    /\ Fresh(1)
    /\ apc[s] = "select" /\ ~tick[s] => Fresh(0)

DiscoveryInv == TypeOK /\ TableInv /\ ClaimInv /\ TickInv

-----------------------------------------------------------------------------
USE DEF stopVars, loopVars

(* An empty table.                                                         *)
LEMMA InitDiscovery == Init => DiscoveryInv
<1> SUFFICES ASSUME Init PROVE DiscoveryInv
  OBVIOUS
<1>1. TypeOK
  <2>1. \A s \in Starts : port # s /\ lpc[s] = "unborn"
    BY NoneAssumption, OtherAssumption DEF Init
  <2>2. now \in 0..MaxTime /\ port \in Starts \cup {"other", None}
    BY BoundsAssumption DEF Init
  <2>3. peers \in [Nodes -> 0..now \cup {None}] /\ heard \in [Remote -> 0..now \cup {None}]
    BY DEF Init
  <2> QED
    BY <2>1, <2>2, <2>3 DEF Init, TypeOK
<1>2. TableInv /\ ClaimInv /\ TickInv
  BY SelfAssumption DEF Init, TableInv, ClaimInv, TickInv, Nodes, Quit
<1> QED
  BY <1>1, <1>2 DEF DiscoveryInv

(* Every step keeps the types, and the port with the one listener.         *)
LEMMA TypeStep == DiscoveryInv /\ [Next]_vars => TypeOK'
<1> SUFFICES ASSUME TypeOK, ClaimInv, [Next]_vars PROVE TypeOK'
  BY DEF DiscoveryInv
<1>1. ASSUME NEW s \in Starts, StartClaim(s) \/ StartRefused(s) \/ StartBindFails(s) PROVE TypeOK'
  BY <1>1 DEF StartClaim, StartRefused, StartBindFails, TypeOK
<1>2. ASSUME NEW s \in Starts, StartBind(s) PROVE TypeOK'
  BY <1>2, NoneAssumption, OtherAssumption DEF StartBind, TypeOK
<1>3. ASSUME NEW s \in Starts, ListenQuit(s) PROVE TypeOK'
  BY <1>3, NoneAssumption, OtherAssumption DEF ListenQuit, TypeOK
<1>4. ASSUME NEW s \in Starts, ListenCheck(s) \/ ListenNothing(s) PROVE TypeOK'
  BY <1>4 DEF ListenCheck, ListenNothing, TypeOK
<1>5. ASSUME NEW s \in Starts, NEW n \in Nodes, ListenBeacon(s, n) PROVE TypeOK'
  <2>1. /\ peers' = IF n = Self THEN peers ELSE [peers EXCEPT ![n] = now]
        /\ heard' = [r \in Remote |-> IF r = n THEN now ELSE heard[r]]
        /\ network' \subseteq network /\ lpc[s] = "read" /\ lpc' = [lpc EXCEPT ![s] = "check"]
        /\ UNCHANGED <<stopVars, spc, port, apc, tick, now>>
    BY <1>5 DEF ListenBeacon, upsertPeer
  <2>2. now \in 0..now
    BY BoundsAssumption DEF TypeOK
  <2>3. peers' \in [Nodes -> 0..now \cup {None}] /\ heard' \in [Remote -> 0..now \cup {None}]
    BY <2>1, <2>2 DEF TypeOK
  <2> QED
    BY <2>1, <2>3 DEF TypeOK
<1>6. ASSUME NEW s \in Starts, AnnounceQuit(s) \/ AnnounceCancelled(s) \/ AnnounceStopped(s) PROVE TypeOK'
  BY <1>6 DEF AnnounceQuit, AnnounceCancelled, AnnounceStopped, TypeOK
<1>7. ASSUME NEW s \in Starts, broadcast(s) PROVE TypeOK'
  BY <1>7 DEF broadcast, TypeOK, Nodes
<1>8. ASSUME NEW s \in Starts, evictStalePeers(s) PROVE TypeOK'
  BY <1>8 DEF evictStalePeers, TypeOK
<1>9. CASE CloseQuit \/ ClearRunning \/ Cancel \/ UNCHANGED vars
  BY <1>9 DEF CloseQuit, ClearRunning, Cancel, vars, TypeOK
<1>10. CASE PortReleased
  <2>1. \A s \in Starts : port # s /\ port' # s
    BY <1>10, NoneAssumption, OtherAssumption DEF PortReleased
  <2>2. port' = None /\ UNCHANGED <<stopVars, spc, loopVars, peers, network, now, heard>>
    BY <1>10 DEF PortReleased
  <2> QED
    BY <2>1, <2>2 DEF TypeOK
<1>11. CASE (\E n \in Remote : RemoteAnnounce(n)) \/ (\E n \in Nodes : Lose(n))
  BY <1>11 DEF RemoteAnnounce, Lose, TypeOK, Nodes
<1>12. CASE Advance
  <2>1. /\ now < MaxTime /\ now' = now + 1 /\ tick' = [s \in Starts |-> apc[s] = "select"]
        /\ UNCHANGED <<stopVars, spc, port, lpc, apc, peers, network, heard>>
    BY <1>12 DEF Advance
  <2>2. now' \in 0..MaxTime /\ 0..now \subseteq 0..now'
    BY <2>1, BoundsAssumption DEF TypeOK
  <2> QED
    BY <2>1, <2>2 DEF TypeOK
<1> QED
  BY <1>1, <1>2, <1>3, <1>4, <1>5, <1>6, <1>7, <1>8, <1>9, <1>10, <1>11, <1>12
     DEF Next, StartStep, ListenStep, AnnounceStep, Environment

(* A beacon updates the entry and the history together; only an entry past *)
(* the timeout is evicted.                                                 *)
LEMMA TableStep == DiscoveryInv /\ [Next]_vars => TableInv'
<1> SUFFICES ASSUME TypeOK, TableInv, [Next]_vars PROVE TableInv'
  BY DEF DiscoveryInv
<1>1. now \in Nat /\ now \in 0..MaxTime /\ PeerTimeout = 3 /\ None \notin Nat /\ Self \notin Remote
  BY BoundsAssumption, NoneAssumption, SelfAssumption DEF TypeOK, PeerTimeout
<1>2. CASE UNCHANGED <<peers, heard, now>>
  BY <1>2 DEF TableInv, Stale
<1>3. ASSUME NEW s \in Starts, NEW n \in Nodes, ListenBeacon(s, n) PROVE TableInv'
  <2>1. /\ peers' = IF n = Self THEN peers ELSE [peers EXCEPT ![n] = now]
        /\ heard' = [r \in Remote |-> IF r = n THEN now ELSE heard[r]]
        /\ UNCHANGED now
    BY <1>3 DEF ListenBeacon, upsertPeer
  <2> QED
    BY <1>1, <2>1 DEF TableInv, TypeOK, Nodes, Stale
<1>4. ASSUME NEW s \in Starts, evictStalePeers(s) PROVE TableInv'
  <2>1. /\ peers' = [n \in Nodes |-> IF peers[n] # None /\ Stale(peers[n]) THEN None ELSE peers[n]]
        /\ UNCHANGED <<heard, now>>
    BY <1>4 DEF evictStalePeers
  <2> QED
    BY <1>1, <2>1 DEF TableInv, TypeOK, Nodes, Stale
<1>5. CASE Advance
  <2>1. now' = now + 1 /\ UNCHANGED <<peers, heard>>
    BY <1>5 DEF Advance
  <2>2. \A n \in Remote : heard[n] # None => heard[n] \in Nat
    BY <1>1 DEF TypeOK
  <2> QED
    BY <1>1, <2>1, <2>2 DEF TableInv, Stale
<1> QED
  BY <1>2, <1>3, <1>4, <1>5 DEF Next, vars, StartStep, StartClaim, StartRefused, StartBind, StartBindFails,
     ListenStep, ListenQuit, ListenCheck, ListenNothing, AnnounceStep, AnnounceQuit, AnnounceCancelled,
     AnnounceStopped, broadcast, Environment, CloseQuit, ClearRunning, Cancel, PortReleased, RemoteAnnounce, Lose

(* m.running keeps a second call of Start out until Stop.                  *)
LEMMA ClaimStep == DiscoveryInv /\ [Next]_vars => ClaimInv'
<1> SUFFICES ASSUME TypeOK, ClaimInv, [Next]_vars, ~Quit' PROVE ClaimInv'
  BY DEF DiscoveryInv, ClaimInv
<1>1. ~Quit
  BY DEF Quit, Next, vars, StartStep, StartClaim, StartRefused, StartBind, StartBindFails,
     ListenStep, ListenQuit, ListenCheck, ListenNothing, ListenBeacon, AnnounceStep, AnnounceQuit,
     AnnounceCancelled, AnnounceStopped, broadcast, evictStalePeers, Environment, CloseQuit, ClearRunning,
     Cancel, PortReleased, RemoteAnnounce, Lose, Advance
<1>2. /\ \A s \in Starts : apc[s] \in {"unborn", "select", "evict"} /\ (apc[s] = "unborn" <=> lpc[s] = "unborn")
      /\ ~running => \A s \in Starts : spc[s] = "idle" /\ apc[s] = "unborn"
      /\ \A s \in Starts : spc[s] = "bind" =>
           \A t \in Starts : apc[t] = "unborn" /\ (t # s => spc[t] # "bind")
      /\ (\A s \in Starts : apc[s] = "unborn") => \A n \in Nodes : peers[n] = None
      /\ \A s \in Starts : tick[s] => apc[s] = "select"
  BY <1>1 DEF ClaimInv
<1>3. /\ running \in BOOLEAN /\ spc \in [Starts -> {"idle", "bind", "returned"}]
      /\ lpc \in [Starts -> {"unborn", "check", "read", "exited"}]
      /\ apc \in [Starts -> {"unborn", "select", "evict", "stopping", "exited"}]
      /\ tick \in [Starts -> BOOLEAN] /\ peers = [n \in Nodes |-> peers[n]]
  BY DEF TypeOK
<1>4. CASE UNCHANGED <<running, spc, lpc, apc, tick, peers>>
  BY <1>2, <1>4 DEF ClaimInv
<1>5. ASSUME NEW s \in Starts, StartClaim(s) PROVE ClaimInv'
  <2>1. ~running /\ running' /\ spc' = [spc EXCEPT ![s] = "bind"] /\ UNCHANGED <<lpc, apc, tick, peers>>
    BY <1>5 DEF StartClaim
  <2> QED
    BY <1>2, <1>3, <2>1 DEF ClaimInv
<1>6. ASSUME NEW s \in Starts, StartRefused(s) \/ StartBindFails(s) PROVE ClaimInv'
  <2>1. /\ spc[s] \in {"idle", "bind"} /\ (spc[s] = "idle" => running)
        /\ spc' = [spc EXCEPT ![s] = "returned"] /\ UNCHANGED <<running, lpc, apc, tick, peers>>
    BY <1>6 DEF StartRefused, StartBindFails
  <2> QED
    BY <1>2, <1>3, <2>1 DEF ClaimInv
<1>7. ASSUME NEW s \in Starts, StartBind(s) PROVE ClaimInv'
  <2>1. /\ spc[s] = "bind" /\ spc' = [spc EXCEPT ![s] = "returned"] /\ lpc' = [lpc EXCEPT ![s] = "check"]
        /\ apc' = [apc EXCEPT ![s] = "select"] /\ UNCHANGED <<running, tick, peers>>
    BY <1>7 DEF StartBind
  <2>2. running /\ apc'[s] # "unborn" /\ \A t \in Starts : spc'[t] # "bind"
    BY <1>2, <1>3, <2>1
  <2> QED
    BY <1>2, <1>3, <2>1, <2>2 DEF ClaimInv
<1>8. ASSUME NEW s \in Starts, ListenCheck(s) \/ ListenNothing(s) PROVE ClaimInv'
  <2>1. /\ lpc[s] \in {"check", "read"} /\ UNCHANGED <<running, spc, apc, tick, peers>>
        /\ \E x \in {"check", "read"} : lpc' = [lpc EXCEPT ![s] = x]
    BY <1>8 DEF ListenCheck, ListenNothing
  <2> QED
    BY <1>2, <1>3, <2>1 DEF ClaimInv
<1>9. ASSUME NEW s \in Starts, NEW n \in Nodes, ListenBeacon(s, n) PROVE ClaimInv'
  <2>1. /\ lpc[s] = "read" /\ lpc' = [lpc EXCEPT ![s] = "check"] /\ UNCHANGED <<running, spc, apc, tick>>
    BY <1>9 DEF ListenBeacon
  <2>2. apc[s] # "unborn"
    BY <1>2, <2>1
  <2> QED
    BY <1>2, <1>3, <2>1, <2>2 DEF ClaimInv
<1>10. ASSUME NEW s \in Starts, broadcast(s) PROVE ClaimInv'
  <2>1. /\ apc[s] = "select" /\ tick' = [tick EXCEPT ![s] = FALSE] /\ apc' = [apc EXCEPT ![s] = "evict"]
        /\ UNCHANGED <<running, spc, lpc, peers>>
    BY <1>10 DEF broadcast
  <2> QED
    BY <1>2, <1>3, <2>1 DEF ClaimInv
<1>11. ASSUME NEW s \in Starts, evictStalePeers(s) PROVE ClaimInv'
  <2>1. /\ apc[s] = "evict" /\ apc' = [apc EXCEPT ![s] = "select"] /\ UNCHANGED <<running, spc, lpc, tick>>
    BY <1>11 DEF evictStalePeers
  <2> QED
    BY <1>2, <1>3, <2>1 DEF ClaimInv
<1>12. CASE Advance
  <2>1. tick' = [s \in Starts |-> apc[s] = "select"] /\ UNCHANGED <<running, spc, lpc, apc, peers>>
    BY <1>12 DEF Advance
  <2> QED
    BY <1>2, <1>3, <2>1 DEF ClaimInv
<1> QED
  BY <1>1, <1>4, <1>5, <1>6, <1>7, <1>8, <1>9, <1>10, <1>11, <1>12 DEF Next, vars, StartStep, ListenStep,
     ListenQuit, AnnounceStep, AnnounceQuit, AnnounceCancelled, AnnounceStopped, Quit, Environment, CloseQuit,
     ClearRunning, Cancel, PortReleased, RemoteAnnounce, Lose

(* Between two ticks the eviction of the first one has been done.          *)
LEMMA TickStep == DiscoveryInv /\ [Next]_vars => TickInv'
<1> SUFFICES ASSUME TypeOK, ClaimInv, TickInv, [Next]_vars, ~Quit' PROVE TickInv'
  BY DEF DiscoveryInv, TickInv
<1>1. ~Quit
  BY DEF Quit, Next, vars, StartStep, StartClaim, StartRefused, StartBind, StartBindFails,
     ListenStep, ListenQuit, ListenCheck, ListenNothing, ListenBeacon, AnnounceStep, AnnounceQuit,
     AnnounceCancelled, AnnounceStopped, broadcast, evictStalePeers, Environment, CloseQuit, ClearRunning,
     Cancel, PortReleased, RemoteAnnounce, Lose, Advance
<1>2. now \in Nat /\ PeerTimeout = 3 /\ None \notin Nat
      /\ \A n \in Remote : n \in Nodes /\ (peers[n] # None => peers[n] \in Nat)
      /\ apc \in [Starts -> {"unborn", "select", "evict", "stopping", "exited"}]
      /\ tick \in [Starts -> BOOLEAN]
  BY BoundsAssumption, NoneAssumption DEF TypeOK, PeerTimeout, Nodes
<1>3. \A s \in Starts : apc[s] \in {"select", "evict"} => Fresh(1) /\ (apc[s] = "select" /\ ~tick[s] => Fresh(0))
  BY <1>1 DEF TickInv
<1>4. CASE UNCHANGED <<apc, tick, peers, now>>
  BY <1>3, <1>4 DEF TickInv, Fresh
<1>5. ASSUME NEW s \in Starts, StartBind(s) PROVE TickInv'
  <2>1. \A n \in Nodes : peers[n] = None
    BY <1>1, <1>5 DEF StartBind, ClaimInv
  <2>2. \A n \in Remote : peers'[n] = None
    BY <1>2, <1>5, <2>1 DEF StartBind
  <2> QED
    BY <2>2 DEF TickInv, Fresh
<1>6. ASSUME NEW s \in Starts, NEW n \in Nodes, ListenBeacon(s, n) PROVE TickInv'
  <2>1. /\ \A r \in Remote : peers'[r] = peers[r] \/ peers'[r] = now
        /\ UNCHANGED <<apc, tick, now>>
    BY <1>2, <1>6 DEF ListenBeacon, upsertPeer, TypeOK
  <2>2. (Fresh(0) => Fresh(0)') /\ (Fresh(1) => Fresh(1)')
    BY <1>2, <2>1 DEF Fresh
  <2> QED
    BY <1>3, <2>1, <2>2 DEF TickInv
<1>7. ASSUME NEW s \in Starts, broadcast(s) PROVE TickInv'
  <2>1. /\ tick' = [tick EXCEPT ![s] = FALSE] /\ apc' = [apc EXCEPT ![s] = "evict"] /\ apc[s] = "select"
        /\ UNCHANGED <<peers, now>>
    BY <1>7 DEF broadcast
  <2>2. (Fresh(0) => Fresh(0)') /\ (Fresh(1) => Fresh(1)')
    BY <2>1 DEF Fresh
  <2>3. Fresh(1)'
    BY <1>3, <2>1, <2>2
  <2>4. ASSUME NEW t \in Starts, apc'[t] = "select", ~tick'[t] PROVE Fresh(0)'
    <3>1. apc \in [Starts -> {"unborn", "select", "evict", "stopping", "exited"}] /\ tick \in [Starts -> BOOLEAN]
      BY DEF TypeOK
    <3>2. apc' = [apc EXCEPT ![s] = "evict"] /\ tick' = [tick EXCEPT ![s] = FALSE]
      BY <2>1
    <3>3. t # s
      BY <2>4, <3>1, <3>2
    <3>4. apc[t] = "select" /\ tick'[t] = tick[t]
      BY <2>4, <3>1, <3>2, <3>3
    <3> QED
      BY <1>3, <2>2, <2>4, <3>4
  <2> QED
    BY <2>3, <2>4 DEF TickInv
<1>8. ASSUME NEW s \in Starts, evictStalePeers(s) PROVE TickInv'
  <2>1. /\ \A n \in Remote : peers'[n] = IF peers[n] # None /\ peers[n] + PeerTimeout < now THEN None ELSE peers[n]
        /\ UNCHANGED now
    BY <1>2, <1>8 DEF evictStalePeers, Stale
  <2>2. Fresh(0)' /\ Fresh(1)'
    BY <1>2, <2>1 DEF Fresh
  <2> QED
    BY <2>2 DEF TickInv
<1>9. CASE Advance
  <2>1. /\ now' = now + 1 /\ tick' = [s \in Starts |-> apc[s] = "select"] /\ UNCHANGED <<apc, peers>>
        /\ \A s \in Starts : ~tick[s] /\ apc[s] # "evict"
    BY <1>9 DEF Advance
  <2>2. Fresh(0) => Fresh(1)'
    BY <1>2, <2>1 DEF Fresh
  <2> QED
    BY <1>3, <2>1, <2>2 DEF TickInv
<1> QED
  BY <1>1, <1>4, <1>5, <1>6, <1>7, <1>8, <1>9 DEF Next, vars, StartStep, StartClaim, StartRefused,
     StartBindFails, ListenStep, ListenQuit, ListenCheck, ListenNothing, AnnounceStep, AnnounceQuit,
     AnnounceCancelled, AnnounceStopped, Quit, Environment, CloseQuit, ClearRunning, Cancel, PortReleased,
     RemoteAnnounce, Lose

(* The discovery invariant holds in every reachable state.                 *)
THEOREM DiscoveryCorrect == Spec => []DiscoveryInv
<1>1. DiscoveryInv /\ [Next]_vars => DiscoveryInv'
  BY TypeStep, TableStep, ClaimStep, TickStep DEF DiscoveryInv
<1> QED
  BY <1>1, InitDiscovery, PTL DEF Spec

(* A peer heard within the timeout is listed, and the node itself is not,  *)
(* for any number of peers, however beacons are lost, delayed, duplicated. *)
THEOREM HeardPeersAreListed == Spec => []HeardIsListed
<1>1. ASSUME TypeOK, TableInv PROVE HeardIsListed
  <2>1. ASSUME NEW n \in Remote, heard[n] # None, peers[n] = None PROVE ~(now <= heard[n] + PeerTimeout)
    <3>1. heard[n] \in Nat /\ now \in Nat /\ heard[n] + PeerTimeout < now
      BY <1>1, <2>1, BoundsAssumption DEF TypeOK, TableInv, Stale
    <3> QED
      BY <3>1 DEF PeerTimeout
  <2> QED
    BY <1>1, <2>1 DEF HeardIsListed, TableInv
<1>2. DiscoveryInv => HeardIsListed
  BY <1>1 DEF DiscoveryInv
<1> QED
  BY <1>2, DiscoveryCorrect, PTL

(* A silent peer is evicted at most one interval after its timeout, also   *)
(* when broadcasts fail and Start is called again, until Stop.             *)
THEOREM SilentPeersAreEvicted == Spec => []SilentIsEvicted
<1>1. DiscoveryInv => SilentIsEvicted
  BY DEF DiscoveryInv, TickInv, SilentIsEvicted, Fresh
<1> QED
  BY <1>1, DiscoveryCorrect, PTL
=============================================================================
