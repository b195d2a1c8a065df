---------------------------- MODULE TunnelManager ----------------------------
(***************************************************************************)
(* The tunnel manager of pkg/tunnel/manager.go: the table of tunnels, one  *)
(* proxy goroutine per tunnel that accepts local connections, one handler  *)
(* goroutine per connection with a goroutine per direction, and the pool   *)
(* of buffers those take and return.                                       *)
(*                                                                         *)
(* Manager.mu is held over Register's port check, so a registration is two *)
(* steps with the port bound in between.  Bytes are not modelled: a buffer *)
(* is dirty once something was read into it.                               *)
(*                                                                         *)
(* A definition named Faulty... is the one after it with a plausible bug;  *)
(* no action uses it, and each breaks one property below.                  *)
(***************************************************************************)
EXTENDS Naturals, FiniteSets

CONSTANTS
  Ids, Ports,      \* tunnel identifiers and local ports
  Tuns,            \* Tunnel objects, each with its proxy goroutine
  Conns,           \* local connections, each with its handler goroutine
  Bufs,            \* buffers
  MaxBuffers,      \* capacity of a tunnel's pool (100 in the code)
  None, Other      \* no value; another process

ASSUME TunnelAssumption ==
  /\ MaxBuffers \in Nat \ {0}
  /\ IsFiniteSet(Conns) /\ IsFiniteSet(Bufs)
  /\ None \notin Tuns \cup Ids \cup Ports \cup Bufs
  /\ Other \notin Tuns \cup {None}

Dirs == {"out", "in"}     \* local to remote, remote to local

VARIABLES
  tunnels,         \* Manager.tunnels: id -> Tunnel or None
  probe,           \* the registration that is checking its port, or NoProbe
  bound,           \* who listens on each port: a proxy, another process or None
  port, active,    \* Tunnel.LocalPort and Tunnel.Active
  proxy,           \* startTunnelProxy: where it is
  pool,            \* BufferManager.BufferPool
  dirty,           \* the buffers that hold a connection's bytes
  count,           \* TunnelStats.ActiveConnections
  handler,         \* each connection: its tunnel and where its handler is
  dir,             \* each direction: where it is, its tunnel and its buffer
  late             \* history: connections accepted by a tunnel that was removed

table == <<tunnels, probe, port, active>>
proxies == <<bound, proxy, late>>
buffers == <<pool, dirty>>
relays == <<count, handler, dir>>
vars == <<table, proxies, buffers, relays>>

NoProbe == [id |-> None, port |-> None]
NoHandler == [tun |-> None, at |-> "none"]
Off == [at |-> "off", tun |-> None, buf |-> None]

ProxyPlaces == {"none", "starting", "head", "accepting"}
HandlerPlaces == {"none", "accepted", "dialing", "relaying"}
DirPlaces == {"off", "starting", "copying", "returning"}

Registered == {tunnels[i] : i \in Ids} \ {None}
FreshBufs == {b \in Bufs : /\ \A t \in Tuns : b \notin pool[t]
                          /\ \A c \in Conns, d \in Dirs : dir[c][d].buf # b}

\* The connections whose handler has counted itself and not returned.
Counted(t) == {c \in Conns : handler[c].tun = t /\ handler[c].at \in {"dialing", "relaying"}}

Init ==
  /\ tunnels = [i \in Ids |-> None] /\ probe = NoProbe
  /\ bound \in [Ports -> {None, Other}]
  /\ port = [t \in Tuns |-> None] /\ active = [t \in Tuns |-> FALSE]
  /\ proxy = [t \in Tuns |-> "none"]
  /\ pool = [t \in Tuns |-> {}] /\ dirty = {}
  /\ count = [t \in Tuns |-> 0]
  /\ handler = [c \in Conns |-> NoHandler]
  /\ dir = [c \in Conns |-> [d \in Dirs |-> Off]]
  /\ late = [t \in Tuns |-> 0]

-----------------------------------------------------------------------------
(* The table. *)

\* Tries the port and forgets the tunnels whose proxy does not listen yet.
FaultyPortIsTaken(p) == bound[p] # None

\* isPortInUse: an active tunnel has the port, or it cannot be bound.
PortIsTaken(p) ==
  \/ bound[p] # None
  \/ \E t \in Registered : port[t] = p /\ active[t]

\* RegisterTunnelWithEndpoint: the parameters are checked, which binds the port.
BeginRegister(i, p) ==
  /\ probe = NoProbe
  /\ ~PortIsTaken(p)
  /\ probe' = [id |-> i, port |-> p]
  /\ UNCHANGED <<tunnels, port, active, proxies, buffers, relays>>

\* A Tunnel object nobody refers to any more stands for a new one.
NewTuns ==
  {t \in Tuns \ Registered : /\ proxy[t] = "none"
                             /\ \A c \in Conns : /\ handler[c].tun # t
                                                /\ \A d \in Dirs : dir[c][d].tun # t}

\* The port is released, and a new tunnel entered and its proxy spawned.
Register(t) ==
  /\ probe # NoProbe /\ t \in NewTuns
  /\ tunnels[probe.id] = None
  /\ tunnels' = [tunnels EXCEPT ![probe.id] = t]
  /\ port' = [port EXCEPT ![t] = probe.port]
  /\ active' = [active EXCEPT ![t] = TRUE]
  /\ proxy' = [proxy EXCEPT ![t] = "starting"]
  /\ \E made \in SUBSET FreshBufs :
       /\ Cardinality(made) = MaxBuffers
       /\ pool' = [pool EXCEPT ![t] = made]
       /\ dirty' = dirty \ made
  /\ count' = [count EXCEPT ![t] = 0]
  /\ late' = [late EXCEPT ![t] = 0]
  /\ probe' = NoProbe
  /\ UNCHANGED <<bound, handler, dir>>

\* The identifier is in use.
RegisterRefused ==
  /\ probe # NoProbe /\ tunnels[probe.id] # None
  /\ probe' = NoProbe
  /\ UNCHANGED <<tunnels, port, active, proxies, buffers, relays>>

\* UnregisterTunnel leaves the listener to its proxy.
Unregister(i) ==
  /\ probe = NoProbe /\ tunnels[i] # None
  /\ active' = [active EXCEPT ![tunnels[i]] = FALSE]
  /\ tunnels' = [tunnels EXCEPT ![i] = None]
  /\ UNCHANGED <<probe, port, proxies, buffers, relays>>

-----------------------------------------------------------------------------
(* The proxy of a tunnel, and other processes on the same ports. *)

\* A proxy that cannot listen only says so: its tunnel stays in the table.
Listen(t) ==
  /\ proxy[t] = "starting"
  /\ IF bound[port[t]] = None /\ probe.port # port[t]
     THEN bound' = [bound EXCEPT ![port[t]] = t] /\ proxy' = [proxy EXCEPT ![t] = "head"]
     ELSE proxy' = [proxy EXCEPT ![t] = "none"] /\ UNCHANGED bound
  /\ UNCHANGED <<table, late, buffers, relays>>

\* Accepts for ever, whatever becomes of the tunnel.
FaultyLoopHead(t) ==
  /\ proxy[t] = "head"
  /\ proxy' = [proxy EXCEPT ![t] = "accepting"]
  /\ UNCHANGED <<table, bound, late, buffers, relays>>

\* The loop reads Active before each Accept, and closes the listener when it ends.
LoopHead(t) ==
  /\ proxy[t] = "head"
  /\ IF active[t]
     THEN proxy' = [proxy EXCEPT ![t] = "accepting"] /\ UNCHANGED bound
     ELSE proxy' = [proxy EXCEPT ![t] = "none"] /\ bound' = [bound EXCEPT ![port[t]] = None]
  /\ UNCHANGED <<table, late, buffers, relays>>

\* A local connection arrives, or Accept fails.
Accept(t, c) ==
  /\ proxy[t] = "accepting" /\ handler[c] = NoHandler
  /\ \A d \in Dirs : dir[c][d] = Off
  /\ proxy' = [proxy EXCEPT ![t] = "head"]
  /\ \/ /\ handler' = [handler EXCEPT ![c] = [tun |-> t, at |-> "accepted"]]
        /\ late' = [late EXCEPT ![t] = IF active[t] THEN @ ELSE @ + 1]
     \/ UNCHANGED <<handler, late>>
  /\ UNCHANGED <<table, bound, buffers, count, dir>>

OtherProcess(p) ==
  /\ bound[p] \in {None, Other} /\ probe.port # p
  /\ bound' = [bound EXCEPT ![p] = IF @ = None THEN Other ELSE None]
  /\ UNCHANGED <<table, proxy, late, buffers, relays>>

-----------------------------------------------------------------------------
(* The handler of a connection. *)

Count(c) ==
  /\ handler[c].at = "accepted"
  /\ handler' = [handler EXCEPT ![c].at = "dialing"]
  /\ count' = [count EXCEPT ![handler[c].tun] = @ + 1]
  /\ UNCHANGED <<table, proxies, buffers, dir>>

\* Returns without the decrement.
FaultyDialFails(c) ==
  /\ handler[c].at = "dialing"
  /\ handler' = [handler EXCEPT ![c] = NoHandler]
  /\ UNCHANGED <<table, proxies, buffers, count, dir>>

DialFails(c) ==
  /\ handler[c].at = "dialing"
  /\ handler' = [handler EXCEPT ![c] = NoHandler]
  /\ count' = [count EXCEPT ![handler[c].tun] = @ - 1]
  /\ UNCHANGED <<table, proxies, buffers, dir>>

DialSucceeds(c) ==
  /\ handler[c].at = "dialing"
  /\ handler' = [handler EXCEPT ![c].at = "relaying"]
  /\ dir' = [dir EXCEPT ![c] =
               [d \in Dirs |-> [at |-> "starting", tun |-> handler[c].tun, buf |-> None]]]
  /\ UNCHANGED <<table, proxies, buffers, count>>

\* Both directions have signalled: the connections are closed.
HandlerReturns(c) ==
  /\ handler[c].at = "relaying"
  /\ \A d \in Dirs : dir[c][d].at \in {"returning", "off"}
  /\ handler' = [handler EXCEPT ![c] = NoHandler]
  /\ count' = [count EXCEPT ![handler[c].tun] = @ - 1]
  /\ UNCHANGED <<table, proxies, buffers, dir>>

-----------------------------------------------------------------------------
(* The two directions of a connection. *)

\* Hands out a pooled buffer and leaves it in the pool.
FaultyGetBuffer(c, d, b) ==
  LET t == dir[c][d].tun IN
  /\ dir[c][d].at = "starting"
  /\ b \in IF pool[t] = {} THEN FreshBufs ELSE pool[t]
  /\ dirty' = IF pool[t] = {} THEN dirty \ {b} ELSE dirty
  /\ dir' = [dir EXCEPT ![c][d] = [at |-> "copying", tun |-> t, buf |-> b]]
  /\ UNCHANGED <<table, proxies, pool, count, handler>>

\* A buffer of the pool, or a new one when the pool is empty.
GetBuffer(c, d, b) ==
  LET t == dir[c][d].tun IN
  /\ dir[c][d].at = "starting"
  /\ b \in IF pool[t] = {} THEN FreshBufs ELSE pool[t]
  /\ pool' = [pool EXCEPT ![t] = @ \ {b}]
  /\ dirty' = IF pool[t] = {} THEN dirty \ {b} ELSE dirty
  /\ dir' = [dir EXCEPT ![c][d] = [at |-> "copying", tun |-> t, buf |-> b]]
  /\ UNCHANGED <<table, proxies, count, handler>>

Copy(c, d) ==
  /\ dir[c][d].at = "copying"
  /\ dirty' = dirty \cup {dir[c][d].buf}
  /\ UNCHANGED <<table, proxies, pool, relays>>

\* The read or the write fails, and the direction signals before it returns.
CopyEnds(c, d) ==
  /\ dir[c][d].at = "copying"
  /\ dir' = [dir EXCEPT ![c][d] = [at |-> "returning", tun |-> @.tun, buf |-> @.buf]]
  /\ UNCHANGED <<table, proxies, buffers, count, handler>>

\* The buffer is zeroed, and returned or, when the pool is full, discarded.
ReturnBuffer(c, d) ==
  LET t == dir[c][d].tun IN
  /\ dir[c][d].at = "returning"
  /\ dirty' = dirty \ {dir[c][d].buf}
  /\ pool' = [pool EXCEPT ![t] = IF Cardinality(@) < MaxBuffers
                                 THEN @ \cup {dir[c][d].buf} ELSE @]
  /\ dir' = [dir EXCEPT ![c][d] = Off]
  /\ UNCHANGED <<table, proxies, count, handler>>

-----------------------------------------------------------------------------

Next ==
  \/ RegisterRefused
  \/ \E i \in Ids : Unregister(i) \/ \E p \in Ports : BeginRegister(i, p)
  \/ \E p \in Ports : OtherProcess(p)
  \/ \E t \in Tuns : Register(t) \/ Listen(t) \/ LoopHead(t) \/ \E c \in Conns : Accept(t, c)
  \/ \E c \in Conns :
       \/ Count(c) \/ DialFails(c) \/ DialSucceeds(c) \/ HandlerReturns(c)
       \/ \E d \in Dirs :
            \/ Copy(c, d) \/ CopyEnds(c, d) \/ ReturnBuffer(c, d)
            \/ \E b \in Bufs : GetBuffer(c, d, b)

Spec == Init /\ [][Next]_vars

-----------------------------------------------------------------------------

\* What the variables may hold; a pool never exceeds the channel's capacity.
TypeOK ==
  /\ tunnels \in [Ids -> Tuns \cup {None}]
  /\ probe \in [id : Ids, port : Ports] \cup {NoProbe}
  /\ bound \in [Ports -> Tuns \cup {None, Other}]
  /\ port \in [Tuns -> Ports \cup {None}] /\ active \in [Tuns -> BOOLEAN]
  /\ proxy \in [Tuns -> ProxyPlaces]
  /\ pool \in [Tuns -> SUBSET Bufs] /\ dirty \subseteq Bufs
  /\ \A t \in Tuns : Cardinality(pool[t]) <= MaxBuffers
  /\ count \in [Tuns -> Nat] /\ late \in [Tuns -> Nat]
  /\ handler \in [Conns -> [tun : Tuns \cup {None}, at : HandlerPlaces]]
  /\ dir \in [Conns -> [Dirs -> [at : DirPlaces, tun : Tuns \cup {None}, buf : Bufs \cup {None}]]]

\* Two tunnels of the table never share a local port, though a proxy begins to
\* listen long after the check that found its port free.
OneTunnelPerPort ==
  \A i, j \in Ids :
    tunnels[i] # None /\ tunnels[j] # None /\ port[tunnels[i]] = port[tunnels[j]] => i = j

\* A buffer has one user: one direction of one connection, or one pool; directions
\* that outlive their handler still hold theirs.
BuffersAreNotShared ==
  /\ \A c, e \in Conns, d, f \in Dirs :
       dir[c][d].buf # None /\ dir[c][d].buf = dir[e][f].buf => c = e /\ d = f
  /\ \A c \in Conns, d \in Dirs, t \in Tuns : dir[c][d].buf \notin pool[t]
  /\ \A t, u \in Tuns : t # u => pool[t] \cap pool[u] = {}

\* A pooled buffer holds nothing of the connection that used it last.
PoolIsClean == \A t \in Tuns : pool[t] \cap dirty = {}

\* ActiveConnections counts the handlers that are dialing or relaying, whichever
\* way each of them returns.
CountIsExact == \A t \in Tuns : count[t] = Cardinality(Counted(t))

\* A tunnel that was removed takes at most the one connection its proxy was
\* already waiting for.
OneLateConnection == \A t \in Tuns : late[t] <= 1

\* The port each identifier has, and the buffer each direction copies through.
PortOf == [i \in Ids |-> IF tunnels[i] = None THEN None ELSE port[tunnels[i]]]
BufferOf == [r \in Conns \X Dirs |-> dir[r[1]][r[2]].buf]

\* However the proxies, handlers and directions interleave, an identifier enters the
\* table only with a port nobody there has, and a direction that begins to copy gets
\* a buffer that no other has and that holds nothing, until it hands it back.
Promise == INSTANCE TunnelPromise
  WITH Names <- Ids, Places <- Ports, Relays <- Conns \X Dirs, Buffers <- Bufs,
       Nothing <- None, route <- PortOf, lent <- BufferOf, soiled <- dirty

TunnelKeepsPromise == Promise!Spec

\* A registered tunnel has a proxy that listens or is about to
\* ("registers a local TCP listener").
TunnelIsServed == \A t \in Registered : proxy[t] # "none"
=============================================================================
