---------------------------- MODULE MeshDiscovery ----------------------------
(***************************************************************************)
(* core/mesh_discovery.go: the table of peers one node keeps from the UDP  *)
(* beacons it hears.  A listen goroutine upserts peers, an announce        *)
(* goroutine broadcasts the node's own beacon every five seconds and       *)
(* evicts the peers that were silent for fifteen.  Datagrams are lost,     *)
(* duplicated and delayed, and the node hears its own.  What a beacon says *)
(* beside its sender, the address and the version, is left out.            *)
(*                                                                         *)
(* Time is counted in broadcast intervals of five seconds.  Each call of   *)
(* Start has an identifier, and so do the two goroutines it spawns.        *)
(***************************************************************************)
EXTENDS Naturals

CONSTANTS
  Self,       \* m.beacon.NodeID
  Remote,     \* ids of the other nodes
  Starts,     \* calls of Start
  MaxTime,    \* bound: intervals modelled
  None

ASSUME SelfAssumption == Self \notin Remote
ASSUME NoneAssumption == None \notin Starts /\ None \notin Nat
ASSUME OtherAssumption == "other" \notin Starts
ASSUME BoundsAssumption == MaxTime \in Nat

VARIABLES
  running,    \* m.running
  stopOnce,   \* m.stopOnce: "new", "closing" (quit is closed), "done"
  cancelled,  \* whether the context given to Start was cancelled
  spc,        \* where each call of Start is
  port,       \* who holds the UDP port: a call of Start, "other" or None
  lpc,        \* where each listenLoop is
  apc,        \* where each announceLoop is
  tick,       \* whether the ticker of each announceLoop has fired
  peers,      \* m.peers: LastSeen of each peer, or None
  network,    \* beacons in flight, by their sender
  now,        \* the clock
  heard       \* history: when a beacon of each peer was last processed

stopVars == <<running, stopOnce, cancelled>>
loopVars == <<lpc, apc, tick>>
vars == <<stopVars, spc, port, loopVars, peers, network, now, heard>>

Nodes == Remote \cup {Self}
Quit == stopOnce # "new"

(* meshPeerTimeout, in intervals.                                          *)
PeerTimeout == 3

Init ==
  /\ running = FALSE
  /\ stopOnce = "new"
  /\ cancelled = FALSE
  /\ spc = [s \in Starts |-> "idle"]
  /\ port \in {None, "other"}
  /\ lpc = [s \in Starts |-> "unborn"]
  /\ apc = [s \in Starts |-> "unborn"]
  /\ tick = [s \in Starts |-> FALSE]
  /\ peers = [n \in Nodes |-> None]
  /\ network = {}
  /\ now = 0
  /\ heard = [n \in Remote |-> None]

-----------------------------------------------------------------------------
(* Start claims m.running, or returns ErrMeshAlreadyRunning.               *)
StartClaim(s) ==
  /\ spc[s] = "idle"
  /\ ~running
  /\ running' = TRUE
  /\ spc' = [spc EXCEPT ![s] = "bind"]
  /\ UNCHANGED <<stopOnce, cancelled, port, loopVars, peers, network, now, heard>>

StartRefused(s) ==
  /\ spc[s] = "idle"
  /\ running
  /\ spc' = [spc EXCEPT ![s] = "returned"]
  /\ UNCHANGED <<stopVars, port, loopVars, peers, network, now, heard>>

(* net.ListenPacket succeeds when the port is free; both goroutines start. *)
StartBind(s) ==
  /\ spc[s] = "bind"
  /\ port = None
  /\ port' = s
  /\ lpc' = [lpc EXCEPT ![s] = "check"]
  /\ apc' = [apc EXCEPT ![s] = "select"]
  /\ spc' = [spc EXCEPT ![s] = "returned"]
  /\ UNCHANGED <<stopVars, tick, peers, network, now, heard>>

(* Operators whose name ends in _Bug are mistakes the properties below are *)
(* tested against; no specification uses them.                             *)

(* The port is taken: Start returns the error and leaves m.running set.    *)
StartBindFails(s) ==
  /\ spc[s] = "bind"
  /\ port # None
  /\ spc' = [spc EXCEPT ![s] = "returned"]
  /\ UNCHANGED <<stopVars, port, loopVars, peers, network, now, heard>>

(* Another process releases the port.                                      *)
PortReleased ==
  /\ port = "other"
  /\ port' = None
  /\ UNCHANGED <<stopVars, spc, loopVars, peers, network, now, heard>>

(* Stop: close(quit), then running = false under the lock, once.           *)
CloseQuit ==
  /\ stopOnce = "new"
  /\ stopOnce' = "closing"
  /\ UNCHANGED <<running, cancelled, spc, port, loopVars, peers, network, now, heard>>

ClearRunning ==
  /\ stopOnce = "closing"
  /\ stopOnce' = "done"
  /\ running' = FALSE
  /\ UNCHANGED <<cancelled, spc, port, loopVars, peers, network, now, heard>>

Cancel ==
  /\ ~cancelled
  /\ \E s \in Starts : spc[s] # "idle"
  /\ cancelled' = TRUE
  /\ UNCHANGED <<running, stopOnce, spc, port, loopVars, peers, network, now, heard>>

-----------------------------------------------------------------------------
(* only a cancelled context ends the loop *)
ListenQuit_ContextOnlyBug(s) ==
  /\ lpc[s] = "check"
  /\ Quit
  /\ cancelled
  /\ lpc' = [lpc EXCEPT ![s] = "exited"]
  /\ port' = None
  /\ UNCHANGED <<stopVars, spc, apc, tick, peers, network, now, heard>>

(* The head of listenLoop.                                                 *)
ListenQuit(s) ==
  /\ lpc[s] = "check"
  /\ Quit
  /\ lpc' = [lpc EXCEPT ![s] = "exited"]
  /\ port' = None
  /\ UNCHANGED <<stopVars, spc, apc, tick, peers, network, now, heard>>

ListenCheck(s) ==
  /\ lpc[s] = "check"
  /\ ~Quit
  /\ lpc' = [lpc EXCEPT ![s] = "read"]
  /\ UNCHANGED <<stopVars, spc, port, apc, tick, peers, network, now, heard>>

(* The read deadline of two seconds, a read error, or a datagram that does *)
(* not parse: back to the head of the loop.                                *)
ListenNothing(s) ==
  /\ lpc[s] = "read"
  /\ lpc' = [lpc EXCEPT ![s] = "check"]
  /\ UNCHANGED <<stopVars, spc, port, apc, tick, peers, network, now, heard>>

(* LastSeen is only set when the peer is new *)
upsertPeer_NoRefreshBug(n) ==
  /\ peers' = IF n = Self \/ peers[n] # None THEN peers ELSE [peers EXCEPT ![n] = now]
  /\ heard' = [r \in Remote |-> IF r = n THEN now ELSE heard[r]]

(* A new peer gets an entry, that of a known one is refreshed.             *)
upsertPeer(n) ==
  /\ peers' = IF n = Self THEN peers ELSE [peers EXCEPT ![n] = now]
  /\ heard' = [r \in Remote |-> IF r = n THEN now ELSE heard[r]]

(* A datagram arrives, perhaps not for the last time.                      *)
ListenBeacon(s, n) ==
  /\ lpc[s] = "read"
  /\ n \in network
  /\ upsertPeer(n)
  /\ network' \in {network, network \ {n}}
  /\ lpc' = [lpc EXCEPT ![s] = "check"]
  /\ UNCHANGED <<stopVars, spc, port, apc, tick, now>>

-----------------------------------------------------------------------------
(* The cases of announceLoop's select.                                     *)
AnnounceQuit(s) ==
  /\ apc[s] = "select"
  /\ Quit
  /\ apc' = [apc EXCEPT ![s] = "exited"]
  /\ tick' = [tick EXCEPT ![s] = FALSE]
  /\ UNCHANGED <<stopVars, spc, port, lpc, peers, network, now, heard>>

(* ctx.Done: the loop calls Stop itself.                                   *)
AnnounceCancelled(s) ==
  /\ apc[s] = "select"
  /\ cancelled
  /\ stopOnce' = IF Quit THEN stopOnce ELSE "closing"
  /\ apc' = [apc EXCEPT ![s] = "stopping"]
  /\ tick' = [tick EXCEPT ![s] = FALSE]
  /\ UNCHANGED <<running, cancelled, spc, port, lpc, peers, network, now, heard>>

AnnounceStopped(s) ==
  /\ apc[s] = "stopping"
  /\ stopOnce = "done"
  /\ apc' = [apc EXCEPT ![s] = "exited"]
  /\ UNCHANGED <<stopVars, spc, port, lpc, tick, peers, network, now, heard>>

(* a failed broadcast ends the tick before the eviction *)
broadcast_ReturnBug(s) ==
  /\ apc[s] = "select"
  /\ tick[s]
  /\ network' = network
  /\ tick' = [tick EXCEPT ![s] = FALSE]
  /\ apc' = apc
  /\ UNCHANGED <<stopVars, spc, port, lpc, peers, now, heard>>

(* The tick: broadcast may fail, and evictStalePeers follows all the same. *)
broadcast(s) ==
  /\ apc[s] = "select"
  /\ tick[s]
  /\ network' \in {network, network \cup {Self}}
  /\ tick' = [tick EXCEPT ![s] = FALSE]
  /\ apc' = [apc EXCEPT ![s] = "evict"]
  /\ UNCHANGED <<stopVars, spc, port, lpc, peers, now, heard>>

(* p.LastSeen.Before(now - meshPeerTimeout).                               *)
Stale(lastSeen) == lastSeen + PeerTimeout < now

evictStalePeers(s) ==
  /\ apc[s] = "evict"
  /\ peers' = [n \in Nodes |->
                 IF peers[n] # None /\ Stale(peers[n]) THEN None ELSE peers[n]]
  /\ apc' = [apc EXCEPT ![s] = "select"]
  /\ UNCHANGED <<stopVars, spc, port, lpc, tick, network, now, heard>>

-----------------------------------------------------------------------------
(* The other nodes, the network and the clock.                             *)
RemoteAnnounce(n) ==
  /\ network' = network \cup {n}
  /\ UNCHANGED <<stopVars, spc, port, loopVars, peers, now, heard>>

Lose(n) ==
  /\ n \in network
  /\ network' = network \ {n}
  /\ UNCHANGED <<stopVars, spc, port, loopVars, peers, now, heard>>

(* Five seconds pass.  An announceLoop is done with a tick by the next.    *)
Advance ==
  /\ now < MaxTime
  /\ \A s \in Starts : ~tick[s] /\ apc[s] # "evict"
  /\ now' = now + 1
  /\ tick' = [s \in Starts |-> apc[s] = "select"]
  /\ UNCHANGED <<stopVars, spc, port, lpc, apc, peers, network, heard>>

-----------------------------------------------------------------------------
ListenStep(s) ==
  \/ ListenQuit(s)
  \/ ListenCheck(s)
  \/ ListenNothing(s)
  \/ \E n \in Nodes : ListenBeacon(s, n)

StartStep(s) ==
  \/ StartClaim(s)
  \/ StartRefused(s)
  \/ StartBind(s)
  \/ StartBindFails(s)

AnnounceStep(s) ==
  \/ AnnounceQuit(s)
  \/ AnnounceCancelled(s)
  \/ AnnounceStopped(s)
  \/ broadcast(s)
  \/ evictStalePeers(s)

Environment ==
  \/ PortReleased
  \/ Cancel
  \/ \E n \in Remote : RemoteAnnounce(n)
  \/ \E n \in Nodes : Lose(n)
  \/ Advance

Next ==
  \/ \E s \in Starts : StartStep(s) \/ ListenStep(s) \/ AnnounceStep(s)
  \/ CloseQuit
  \/ ClearRunning
  \/ Environment

Spec == Init /\ [][Next]_vars

(* The goroutines run; ReadFrom returns by its deadline; select is random, *)
(* so a case that is ready again and again is taken.                       *)
FairSpec ==
  /\ Spec
  /\ WF_vars(ClearRunning)
  /\ \A s \in Starts :
       /\ WF_vars(StartBind(s) \/ StartBindFails(s))
       /\ WF_vars(ListenStep(s))
       /\ SF_vars(AnnounceQuit(s))
       /\ SF_vars(AnnounceCancelled(s))
       /\ WF_vars(AnnounceStopped(s))
       /\ WF_vars(evictStalePeers(s))

-----------------------------------------------------------------------------
(* Type invariant; a listener holds the port as long as it runs.           *)
TypeOK ==
  /\ running \in BOOLEAN
  /\ stopOnce \in {"new", "closing", "done"}
  /\ cancelled \in BOOLEAN
  /\ spc \in [Starts -> {"idle", "bind", "returned"}]
  /\ port \in Starts \cup {"other", None}
  /\ lpc \in [Starts -> {"unborn", "check", "read", "exited"}]
  /\ \A s \in Starts : port = s <=> lpc[s] \in {"check", "read"}
  /\ apc \in [Starts -> {"unborn", "select", "evict", "stopping", "exited"}]
  /\ tick \in [Starts -> BOOLEAN]
  /\ peers \in [Nodes -> 0..now \cup {None}]
  /\ network \subseteq Nodes
  /\ now \in 0..MaxTime
  /\ heard \in [Remote -> 0..now \cup {None}]

(* A peer whose beacon was processed within the last fifteen seconds is    *)
(* listed, whatever was lost and however the two goroutines interleave;    *)
(* the node itself never is, although it hears its own broadcast.          *)
HeardIsListed ==
  /\ TypeOK /\ peers[Self] = None
  /\ \A n \in Remote : heard[n] # None /\ now <= heard[n] + PeerTimeout => peers[n] # None

(* While the mesh runs a silent peer disappears: at most one interval      *)
(* after its timeout, also when no broadcast succeeds.                     *)
SilentIsEvicted ==
  ~Quit /\ (\E s \in Starts : apc[s] \in {"select", "evict"})
    => \A n \in Remote : peers[n] # None => now <= peers[n] + PeerTimeout + 1

(* "Cancel ctx or call Stop() to shut down cleanly" (:77): both goroutines *)
(* exit and the port is free again.                                        *)
ShutsDown ==
  (Quit \/ cancelled) ~>
    (\A s \in Starts : lpc[s] \in {"unborn", "exited"} /\ apc[s] \in {"unborn", "exited"} /\ port # s)
=============================================================================
