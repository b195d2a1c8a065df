---------------------------- MODULE MeshNetwork ----------------------------
(***************************************************************************)
(* The mesh of pkg/p2p/mesh.go: the peers it knows, under MeshNetwork.mu,  *)
(* and the routing, latency and owner tables, under router.mu.  An         *)
(* operation writes the topology first and the tables after, holding both; *)
(* the routing pass holds router.mu only and reads the topology meanwhile. *)
(* What it reads of a map that is being written is undefined: the pass     *)
(* goes on with the old value or the new one, or the runtime ends the      *)
(* process, as the loops' end does, with nothing left to say.              *)
(*                                                                         *)
(* A definition named Faulty... is the one after it with a plausible bug;  *)
(* no action uses it, and each breaks one property below.                  *)
(***************************************************************************)
CONSTANTS
  Peers, Prefixes,       \* peer ids, and the addresses a peer may announce
  Covers,                \* pairs: the first prefix holds the second, a single address
  NoPeer

ASSUME MeshAssumption ==
  /\ Covers \subseteq Prefixes \X Prefixes
  /\ Peers \cap Prefixes = {} /\ NoPeer \notin Peers

Dests == Peers \cup Prefixes

VARIABLES
  known, up, announces,  \* topology.ConnectedPeers, .IsConnected and .AllowedIPs
  route, owner, timed,   \* routingTable, ownerIndex, and the domain of latencyTable
  meshOp,                \* the operation that holds MeshNetwork.mu between its two writes
  pass                   \* the routing pass: destinations to visit, and its next write

topology == <<known, up, announces>>
tables == <<route, owner, timed>>
meshVars == <<topology, tables, meshOp, pass>>

NoOp == [kind |-> "none", peer |-> NoPeer]
NoPass == [running |-> FALSE, todo |-> {}, dest |-> NoPeer, hop |-> NoPeer]

MeshInit ==
  /\ known = {}
  /\ up = [p \in Peers |-> FALSE] /\ announces = [p \in Peers |-> {}]
  /\ route = [d \in Dests |-> NoPeer] /\ owner = [d \in Dests |-> NoPeer] /\ timed = {}
  /\ meshOp = NoOp /\ pass = NoPass

-----------------------------------------------------------------------------
(* The operations. *)

\* Where the peer stands in the topology.
Know(p, prefixes, connected) ==
  /\ known' = known \cup {p}
  /\ up' = [up EXCEPT ![p] = connected]
  /\ announces' = [announces EXCEPT ![p] = prefixes]

\* Discovery makes a new peer of every answer, and replaces the old one.
AddPeer(p, prefixes, connected) ==
  /\ meshOp = NoOp
  /\ Know(p, prefixes, connected)
  /\ meshOp' = [kind |-> "announce", peer |-> p]
  /\ UNCHANGED <<tables, pass>>

\* An update that announces nothing keeps what the peer announced before.
UpsertPeer(p, prefixes, connected) ==
  /\ meshOp = NoOp
  /\ Know(p, IF p \in known /\ prefixes = {} THEN announces[p] ELSE prefixes, connected)
  /\ meshOp' = [kind |-> "announce", peer |-> p]
  /\ UNCHANGED <<tables, pass>>

UpdatePeerLatency(p) ==
  /\ meshOp = NoOp /\ p \in known
  /\ meshOp' = [kind |-> "time", peer |-> p]
  /\ UNCHANGED <<topology, tables, pass>>

RemovePeer(p) ==
  /\ meshOp = NoOp /\ p \in known
  /\ known' = known \ {p}
  /\ up' = [up EXCEPT ![p] = FALSE] /\ announces' = [announces EXCEPT ![p] = {}]
  /\ meshOp' = [kind |-> "remove", peer |-> p]
  /\ UNCHANGED <<tables, pass>>

\* updateTopology: peers that have been silent for too long are down.
UpdateTopology(silent) ==
  /\ meshOp = NoOp /\ silent \subseteq known
  /\ up' = [p \in Peers |-> up[p] /\ p \notin silent]
  /\ UNCHANGED <<known, announces, tables, meshOp, pass>>

-----------------------------------------------------------------------------
(* Their second half, once router.mu is free. *)

\* A peer that comes back does not take its old destinations back.
FaultyUpdateRoutingForPeer(p) ==
  LET mine == {p} \cup announces[p]
  IN /\ meshOp.kind = "announce"
     /\ route' = [d \in Dests |-> IF d \in mine /\ owner[d] # p THEN p ELSE route[d]]
     /\ owner' = [d \in Dests |-> IF d \in mine THEN p ELSE owner[d]]
     /\ timed' = timed \cup mine

\* updateRoutingForPeer: a peer owns its id and whatever it announced last.
UpdateRoutingForPeer(p) ==
  LET mine == {p} \cup announces[p]
  IN /\ meshOp.kind = "announce"
     /\ route' = [d \in Dests |-> IF d \in mine THEN p ELSE route[d]]
     /\ owner' = [d \in Dests |-> IF d \in mine THEN p ELSE owner[d]]
     /\ timed' = timed \cup mine

\* Goes by the routes, and so misses a destination with a detour.
FaultyRemoveRoutingForPeer(p) ==
  LET gone == {p} \cup {d \in Dests : route[d] = p}
  IN /\ meshOp.kind = "remove"
     /\ route' = [d \in Dests |-> IF d \in gone THEN NoPeer ELSE route[d]]
     /\ owner' = [d \in Dests |-> IF d \in gone THEN NoPeer ELSE owner[d]]
     /\ timed' = timed \ gone

\* removeRoutingForPeer: what the peer owns goes, detours through it stay.
RemoveRoutingForPeer(p) ==
  LET gone == {p} \cup {d \in Dests : owner[d] = p}
  IN /\ meshOp.kind = "remove"
     /\ route' = [d \in Dests |-> IF d \in gone THEN NoPeer ELSE route[d]]
     /\ owner' = [d \in Dests |-> IF d \in gone THEN NoPeer ELSE owner[d]]
     /\ timed' = timed \ gone

RecordLatency(p) ==
  /\ meshOp.kind = "time"
  /\ timed' = timed \cup {p}
  /\ UNCHANGED <<route, owner>>

WriteTables ==
  /\ ~pass.running
  /\ \/ UpdateRoutingForPeer(meshOp.peer) \/ RemoveRoutingForPeer(meshOp.peer)
     \/ RecordLatency(meshOp.peer)
  /\ meshOp' = NoOp
  /\ UNCHANGED <<topology, pass>>

-----------------------------------------------------------------------------
(* updateRouting. *)

BeginPass ==
  /\ ~pass.running
  /\ pass' = [NoPass EXCEPT !.running = TRUE, !.todo = {d \in Dests : route[d] # NoPeer}]
  /\ UNCHANGED <<topology, tables, meshOp>>

\* findAlternativeRoute: connected peers that announce the destination or its network.
Alternatives(d, excluded) ==
  {p \in known \ {excluded} : /\ up[p]
                              /\ \E a \in announces[p] : a = d \/ <<a, d>> \in Covers}

\* One destination: if its first hop is down, the pass looks for another.
FindDetour(d) ==
  LET others == IF route[d] \in known /\ ~up[route[d]] THEN Alternatives(d, route[d]) ELSE {}
  IN /\ d \in pass.todo /\ pass.dest = NoPeer
     /\ \/ others = {} /\ pass' = [pass EXCEPT !.todo = @ \ {d}]
        \/ \E p \in others : pass' = [pass EXCEPT !.todo = @ \ {d}, !.dest = d, !.hop = p]
     /\ UNCHANGED <<topology, tables, meshOp>>

SetDetour ==
  /\ pass.dest # NoPeer
  /\ route' = [route EXCEPT ![pass.dest] = pass.hop]
  /\ pass' = [pass EXCEPT !.dest = NoPeer, !.hop = NoPeer]
  /\ UNCHANGED <<topology, owner, timed, meshOp>>

EndPass ==
  /\ pass.running /\ pass.todo = {} /\ pass.dest = NoPeer
  /\ pass' = NoPass
  /\ UNCHANGED <<topology, tables, meshOp>>

-----------------------------------------------------------------------------
MeshNext ==
  \/ \E p \in Peers, prefixes \in SUBSET Prefixes, connected \in BOOLEAN :
       AddPeer(p, prefixes, connected) \/ UpsertPeer(p, prefixes, connected)
  \/ \E p \in Peers : UpdatePeerLatency(p) \/ RemovePeer(p)
  \/ \E silent \in SUBSET known \ {{}} : UpdateTopology(silent)
  \/ WriteTables
  \/ BeginPass \/ (\E d \in Dests : FindDetour(d)) \/ SetDetour \/ EndPass

MeshSpec == MeshInit /\ [][MeshNext]_meshVars

-----------------------------------------------------------------------------
(* Properties. *)

\* What the topology, the tables and the pass may hold.
MeshTypeOK ==
  /\ known \in SUBSET Peers /\ up \in [Peers -> BOOLEAN]
  /\ announces \in [Peers -> SUBSET Prefixes]
  /\ route \in [Dests -> Peers \cup {NoPeer}] /\ owner \in [Dests -> Peers \cup {NoPeer}]
  /\ timed \in SUBSET Dests
  /\ meshOp \in [kind : {"none", "announce", "time", "remove"}, peer : Peers \cup {NoPeer}]
  /\ pass \in [running : BOOLEAN, todo : SUBSET Dests, dest : Dests \cup {NoPeer},
               hop : Peers \cup {NoPeer}]

\* The three tables never fall apart: one destination has a route, a latency
\* and an owner or none of them, and no route outlives its owner's removal,
\* detours and re-announcements in between or not.
RoutesAreOwned ==
  \A d \in Dests :
    /\ route[d] = NoPeer <=> owner[d] = NoPeer
    /\ route[d] = NoPeer <=> d \notin timed
    /\ owner[d] # NoPeer =>
         owner[d] \in known \/ meshOp = [kind |-> "remove", peer |-> owner[d]]

\* A pass that still sees a peer down cannot divert what the peer has
\* announced again: a detour lasts only while the owner is down, or no longer
\* announces the destination, or is about to take it back.
DetoursAreNeeded ==
  \A d \in Dests :
    LET o == owner[d]
    IN route[d] # o => \/ ~up[o] \/ d \notin announces[o]
                       \/ meshOp = [kind |-> "announce", peer |-> o]

=============================================================================
