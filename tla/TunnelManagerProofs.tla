------------------------- MODULE TunnelManagerProofs -------------------------
(***************************************************************************)
(* The safety properties of TunnelManager, proved for any number of        *)
(* tunnels, ports and connections and any capacity of the pools.           *)
(*                                                                         *)
(* The inductive invariant adds three facts to the invariants of the run:  *)
(* a registration under way has found its port free among the tunnels of   *)
(* the table, all of which are active (TableOK); a tunnel that was removed *)
(* and has taken its late connection is past its last Accept (LateOK); and *)
(* a direction has a buffer exactly between its two pool operations (DirOK *)
(* and HandlerOK say so of the two kinds of goroutine).  That the manager  *)
(* implements TunnelPromise needs RelaysInv besides: only a buffer in use  *)
(* holds bytes, so that a new one never does.                              *)
(***************************************************************************)
EXTENDS TunnelManager, FiniteSetTheorems, TLAPS

\* The table names each tunnel once, holds active tunnels only, and a port that is
\* being probed belongs to none of them.
TableOK ==
  /\ \A i, j \in Ids : tunnels[i] # None /\ tunnels[i] = tunnels[j] => i = j
  /\ \A i \in Ids : tunnels[i] # None =>
       active[tunnels[i]] /\ port[tunnels[i]] \in Ports \ {probe.port}

\* A late connection leaves the proxy nothing to do but to end.
LateOK ==
  \A t \in Tuns : late[t] = 0 \/ (late[t] = 1 /\ ~active[t] /\ proxy[t] \in {"head", "none"})

\* A direction that runs belongs to a tunnel, and has a buffer from GetBuffer on.
DirOK ==
  \A c \in Conns, d \in Dirs :
    /\ dir[c][d].at # "off" => dir[c][d].tun \in Tuns
    /\ dir[c][d].at \in {"copying", "returning"} => dir[c][d].buf \in Bufs

\* A handler that runs belongs to a tunnel.
HandlerOK == \A c \in Conns : handler[c].at # "none" => handler[c].tun \in Tuns

Inv ==
  /\ TypeOK
  /\ TableOK /\ OneTunnelPerPort
  /\ LateOK
  /\ DirOK /\ BuffersAreNotShared /\ PoolIsClean
  /\ HandlerOK /\ CountIsExact

-----------------------------------------------------------------------------
(* What a step leaves alone. *)

\* A pool, and the handlers a tunnel has counted, are finite sets.
LEMMA FiniteParts ==
  ASSUME TypeOK, NEW t \in Tuns
  PROVE  IsFiniteSet(pool[t]) /\ IsFiniteSet(Counted(t))
<1>1. pool[t] \in SUBSET Bufs /\ Counted(t) \in SUBSET Conns
  BY DEF TypeOK, Counted
<1> QED BY <1>1, FS_Subset, TunnelAssumption

\* One buffer less, or one more while there is room, keeps a pool within its capacity.
LEMMA RoomInPool ==
  ASSUME NEW S, NEW x, IsFiniteSet(S), Cardinality(S) <= MaxBuffers
  PROVE  /\ Cardinality(S \ {x}) <= MaxBuffers
         /\ Cardinality(S) < MaxBuffers => Cardinality(S \cup {x}) <= MaxBuffers
<1>1. Cardinality(S) \in Nat /\ MaxBuffers \in Nat
  BY FS_CardinalityType, TunnelAssumption
<1>2. Cardinality(S \ {x}) = IF x \in S THEN Cardinality(S) - 1 ELSE Cardinality(S)
  BY FS_RemoveElement
<1>3. Cardinality(S \cup {x}) = IF x \in S THEN Cardinality(S) ELSE Cardinality(S) + 1
  BY FS_AddElement
<1> QED BY <1>1, <1>2, <1>3

\* The table stays as it is.
LEMMA TableKept ==
  ASSUME Inv, UNCHANGED table
  PROVE  TableOK' /\ OneTunnelPerPort'
BY DEF Inv, TableOK, OneTunnelPerPort, table

\* The proxies stay where they are.
LEMMA LateKept ==
  ASSUME Inv, UNCHANGED <<active, proxy, late>>
  PROVE  LateOK'
BY DEF Inv, LateOK

\* The buffers stay where they are.
LEMMA BuffersKept ==
  ASSUME Inv, UNCHANGED <<buffers, dir>>
  PROVE  DirOK' /\ BuffersAreNotShared' /\ PoolIsClean'
BY DEF Inv, DirOK, BuffersAreNotShared, PoolIsClean, buffers

\* The handlers stay where they are.
LEMMA CountKept ==
  ASSUME Inv, UNCHANGED <<count, handler>>
  PROVE  HandlerOK' /\ CountIsExact'
BY DEF Inv, HandlerOK, CountIsExact, Counted

\* The initial states.
LEMMA InitInv == Init => Inv
<1> SUFFICES ASSUME Init PROVE Inv
  OBVIOUS
<1> USE TunnelAssumption DEF Init
<1>1. TypeOK
  BY FS_EmptySet DEF TypeOK, NoProbe, NoHandler, Off, ProxyPlaces, HandlerPlaces, DirPlaces, Dirs
<1>2. TableOK /\ OneTunnelPerPort /\ LateOK
  BY DEF TableOK, OneTunnelPerPort, LateOK
<1>3. DirOK /\ BuffersAreNotShared /\ PoolIsClean /\ HandlerOK
  BY DEF DirOK, BuffersAreNotShared, PoolIsClean, HandlerOK, Off, NoHandler
<1>4. CountIsExact
  <2>1. \A t \in Tuns : Counted(t) = {}
    BY DEF Counted, NoHandler
  <2> QED BY <2>1, FS_EmptySet DEF CountIsExact
<1> QED BY <1>1, <1>2, <1>3, <1>4 DEF Inv

-----------------------------------------------------------------------------
(* The table. *)

\* A port that passes the check belongs to no tunnel of the table.
LEMMA BeginRegisterInv ==
  ASSUME Inv, NEW i \in Ids, NEW p \in Ports, BeginRegister(i, p) PROVE Inv'
<1> USE DEF Inv, BeginRegister
<1>1. TypeOK'
  BY DEF TypeOK, proxies, buffers, relays
<1>2. TableOK' /\ OneTunnelPerPort'
  BY DEF TableOK, OneTunnelPerPort, PortIsTaken, Registered, TypeOK
<1> QED BY <1>1, <1>2, LateKept, BuffersKept, CountKept DEF proxies, buffers, relays

\* A refused registration only ends its probe, whose port no tunnel had.
LEMMA RegisterRefusedInv == ASSUME Inv, RegisterRefused PROVE Inv'
<1> USE DEF Inv, RegisterRefused
<1>1. TypeOK'
  BY DEF TypeOK, proxies, buffers, relays
<1>2. TableOK' /\ OneTunnelPerPort'
  <2>1. probe'.port \notin Ports
    BY TunnelAssumption DEF NoProbe
  <2> QED BY <2>1 DEF TableOK, OneTunnelPerPort
<1> QED BY <1>1, <1>2, LateKept, BuffersKept, CountKept DEF proxies, buffers, relays

\* A removed tunnel leaves the table and is no longer active.
LEMMA UnregisterInv == ASSUME Inv, NEW i \in Ids, Unregister(i) PROVE Inv'
<1> USE DEF Inv, Unregister
<1>1. TypeOK'
  BY DEF TypeOK, proxies, buffers, relays
<1>2. TableOK' /\ OneTunnelPerPort'
  BY DEF TableOK, OneTunnelPerPort, TypeOK
<1>3. LateOK'
  BY DEF LateOK, TypeOK, proxies
<1> QED BY <1>1, <1>2, <1>3, BuffersKept, CountKept DEF buffers, relays

\* A new tunnel has the probed port, clean new buffers and no handler.
LEMMA RegisterInv == ASSUME Inv, NEW t \in Tuns, Register(t) PROVE Inv'
<1> USE DEF Inv, Register
<1>0. PICK made \in SUBSET FreshBufs :
        Cardinality(made) = MaxBuffers /\ pool' = [pool EXCEPT ![t] = made] /\ dirty' = dirty \ made
  OBVIOUS
<1>1. /\ probe.id \in Ids /\ probe.port \in Ports /\ tunnels[probe.id] = None
      /\ \A i \in Ids : tunnels[i] # t
      /\ \A c \in Conns : handler[c].tun # t
  BY TunnelAssumption DEF TypeOK, NewTuns, Registered
<1>2. TypeOK'
  <2>1. tunnels' \in [Ids -> Tuns \cup {None}] /\ probe' \in [id : Ids, port : Ports] \cup {NoProbe}
    BY <1>1 DEF TypeOK
  <2>2. /\ port' \in [Tuns -> Ports \cup {None}] /\ active' \in [Tuns -> BOOLEAN]
        /\ proxy' \in [Tuns -> ProxyPlaces] /\ count' \in [Tuns -> Nat] /\ late' \in [Tuns -> Nat]
    BY <1>1 DEF TypeOK, ProxyPlaces
  <2>3. /\ pool' \in [Tuns -> SUBSET Bufs] /\ dirty' \subseteq Bufs
        /\ \A u \in Tuns : Cardinality(pool'[u]) <= MaxBuffers
    BY <1>0, TunnelAssumption DEF TypeOK, FreshBufs
  <2> QED BY <2>1, <2>2, <2>3 DEF TypeOK
<1>3. TableOK' /\ OneTunnelPerPort'
  <2>1. \A i \in Ids : /\ tunnels'[i] = IF i = probe.id THEN t ELSE tunnels[i]
                       /\ tunnels[i] # None => tunnels[i] \in Tuns
    BY DEF TypeOK
  <2>2. /\ active'[t] /\ port'[t] = probe.port
        /\ \A u \in Tuns : u # t => active'[u] = active[u] /\ port'[u] = port[u]
    BY DEF TypeOK
  <2>3. probe'.port = None
    BY DEF NoProbe
  <2>4. \A i \in Ids : tunnels[i] # None => /\ active[tunnels[i]] /\ tunnels[i] # t
                                           /\ port[tunnels[i]] \in Ports \ {probe.port}
    BY <1>1 DEF TableOK
  <2>5. TableOK'
    <3>1. \A i \in Ids : tunnels'[i] # None =>
            active'[tunnels'[i]] /\ port'[tunnels'[i]] \in Ports \ {probe'.port}
      BY <1>1, <2>1, <2>2, <2>3, <2>4, TunnelAssumption
    <3>2. \A i, j \in Ids : tunnels'[i] # None /\ tunnels'[i] = tunnels'[j] => i = j
      BY <2>1, <2>4 DEF TableOK
    <3> QED BY <3>1, <3>2 DEF TableOK
  <2>6. OneTunnelPerPort'
    <3> SUFFICES ASSUME NEW i \in Ids, NEW j \in Ids, tunnels'[i] # None, tunnels'[j] # None,
                        port'[tunnels'[i]] = port'[tunnels'[j]]
                 PROVE  i = j
      BY DEF OneTunnelPerPort
    <3> QED BY <1>1, <2>1, <2>2, <2>4 DEF OneTunnelPerPort
  <2> QED BY <2>5, <2>6
<1>4. LateOK'
  BY DEF LateOK, TypeOK
<1>5. DirOK' /\ BuffersAreNotShared' /\ PoolIsClean'
  <2>1. \A u \in Tuns : pool'[u] = IF u = t THEN made ELSE pool[u]
    BY <1>0 DEF TypeOK
  <2> QED BY <1>0, <2>1 DEF DirOK, BuffersAreNotShared, PoolIsClean, FreshBufs
<1>6. HandlerOK' /\ CountIsExact'
  <2>1. Counted(t) = {} /\ \A u \in Tuns : Counted(u)' = Counted(u)
    BY <1>1 DEF Counted
  <2> QED BY <2>1, FS_EmptySet DEF HandlerOK, CountIsExact, TypeOK
<1> QED BY <1>2, <1>3, <1>4, <1>5, <1>6

-----------------------------------------------------------------------------
(* The proxies. *)

\* A proxy begins to listen, goes round its loop or ends.
LEMMA ProxyInv == ASSUME Inv, NEW t \in Tuns, Listen(t) \/ LoopHead(t) PROVE Inv'
<1>1. UNCHANGED <<table, late, buffers, relays>>
  BY DEF Listen, LoopHead
<1>2. TypeOK'
  <2>1. bound' \in [Ports -> Tuns \cup {None, Other}] /\ proxy' \in [Tuns -> ProxyPlaces]
    BY DEF Inv, TypeOK, Listen, LoopHead, ProxyPlaces
  <2> QED BY <1>1, <2>1 DEF Inv, TypeOK, table, buffers, relays
<1>3. LateOK'
  BY <1>1 DEF Inv, LateOK, TypeOK, table, Listen, LoopHead
<1> QED BY <1>1, <1>2, <1>3, TableKept, BuffersKept, CountKept DEF Inv, relays

\* Another process binds or releases a port.
LEMMA OtherProcessInv == ASSUME Inv, NEW p \in Ports, OtherProcess(p) PROVE Inv'
<1>1. TypeOK'
  BY DEF Inv, TypeOK, OtherProcess, table, buffers, relays
<1> QED BY <1>1, TableKept, LateKept, BuffersKept, CountKept DEF Inv, OtherProcess, table, relays

\* A connection is accepted and not yet counted; it is late when the tunnel is gone.
LEMMA AcceptInv == ASSUME Inv, NEW t \in Tuns, NEW c \in Conns, Accept(t, c) PROVE Inv'
<1> USE DEF Inv, Accept
<1>0. /\ handler[c] = NoHandler
      /\ handler'[c] = NoHandler \/ handler'[c] = [tun |-> t, at |-> "accepted"]
      /\ \A e \in Conns : e # c => handler'[e] = handler[e]
      /\ handler' = [handler EXCEPT ![c] = handler'[c]]
  BY DEF TypeOK
<1>1. TypeOK'
  <2>1. handler' \in [Conns -> [tun : Tuns \cup {None}, at : HandlerPlaces]]
    BY <1>0 DEF TypeOK, HandlerPlaces, NoHandler
  <2>2. late' \in [Tuns -> Nat] /\ proxy' \in [Tuns -> ProxyPlaces]
    BY DEF TypeOK, ProxyPlaces
  <2> QED BY <2>1, <2>2 DEF TypeOK, table, buffers
<1>2. LateOK'
  BY DEF LateOK, TypeOK, table
<1>3. HandlerOK' /\ CountIsExact'
  <2>1. \A u \in Tuns : Counted(u)' = Counted(u)
    BY <1>0 DEF Counted, NoHandler
  <2> QED BY <1>0, <2>1 DEF HandlerOK, CountIsExact, NoHandler
<1> QED BY <1>1, <1>2, <1>3, TableKept, BuffersKept

-----------------------------------------------------------------------------
(* The handlers. *)

\* A handler counts itself once.
LEMMA CountInv == ASSUME Inv, NEW c \in Conns, Count(c) PROVE Inv'
<1> USE DEF Inv, Count
<1> DEFINE t == handler[c].tun
<1>1. t \in Tuns /\ c \notin Counted(t)
  BY DEF HandlerOK, Counted
<1>2. /\ handler'[c] = [tun |-> t, at |-> "dialing"]
      /\ \A e \in Conns : e # c => handler'[e] = handler[e]
  BY DEF TypeOK
<1>3. TypeOK'
  BY <1>1 DEF TypeOK, HandlerPlaces, table, proxies, buffers
<1>4. HandlerOK' /\ CountIsExact'
  <2>1. Counted(t)' = Counted(t) \cup {c} /\ \A u \in Tuns : u # t => Counted(u)' = Counted(u)
    BY <1>2 DEF Counted
  <2>2. Cardinality(Counted(t) \cup {c}) = Cardinality(Counted(t)) + 1
    BY <1>1, FiniteParts, FS_AddElement
  <2>3. CountIsExact'
    BY <1>1, <2>1, <2>2 DEF CountIsExact, TypeOK
  <2> QED BY <1>1, <1>2, <2>3 DEF HandlerOK
<1> QED BY <1>3, <1>4, TableKept, LateKept, BuffersKept DEF table, proxies

\* A handler that returns is counted no longer, whichever way it returns.
LEMMA ReturnInv == ASSUME Inv, NEW c \in Conns, DialFails(c) \/ HandlerReturns(c) PROVE Inv'
<1> USE DEF Inv, DialFails, HandlerReturns
<1>1. PICK t \in Tuns : t = handler[c].tun /\ c \in Counted(t)
  BY DEF HandlerOK, Counted
<1>2. /\ handler' = [handler EXCEPT ![c] = NoHandler]
      /\ count' = [count EXCEPT ![t] = @ - 1]
      /\ UNCHANGED <<table, proxies, buffers, dir>>
      /\ handler'[c] = NoHandler /\ \A e \in Conns : e # c => handler'[e] = handler[e]
      /\ \A u \in Tuns : count'[u] = IF u = t THEN count[t] - 1 ELSE count[u]
  BY <1>1 DEF TypeOK
<1>3. /\ IsFiniteSet(Counted(t)) /\ Cardinality(Counted(t)) \in Nat
      /\ Cardinality(Counted(t) \ {c}) = Cardinality(Counted(t)) - 1
      /\ Cardinality(Counted(t) \ {c}) \in Nat
  BY <1>1, FiniteParts, FS_RemoveElement, FS_CardinalityType
<1>4. TypeOK'
  <2>1. count[t] - 1 \in Nat
    BY <1>1, <1>3 DEF CountIsExact
  <2>2. count' \in [Tuns -> Nat]
    BY <1>2, <2>1 DEF TypeOK
  <2>3. handler' \in [Conns -> [tun : Tuns \cup {None}, at : HandlerPlaces]]
    BY <1>2 DEF TypeOK, NoHandler, HandlerPlaces
  <2> QED BY <1>2, <2>2, <2>3 DEF TypeOK, table, proxies, buffers
<1>5. HandlerOK' /\ CountIsExact'
  <2>1. Counted(t)' = Counted(t) \ {c} /\ \A u \in Tuns : u # t => Counted(u)' = Counted(u)
    BY <1>1, <1>2 DEF Counted, NoHandler
  <2>2. CountIsExact'
    BY <1>1, <1>2, <1>3, <2>1 DEF CountIsExact
  <2> QED BY <1>2, <2>2 DEF HandlerOK, TypeOK, NoHandler
<1> QED BY <1>2, <1>4, <1>5, TableKept, LateKept, BuffersKept DEF table, proxies

\* A handler that has its remote connection starts its directions without buffers.
LEMMA DialSucceedsInv == ASSUME Inv, NEW c \in Conns, DialSucceeds(c) PROVE Inv'
<1> USE DEF Inv, DialSucceeds
<1> DEFINE t == handler[c].tun
<1>1. t \in Tuns
  BY DEF HandlerOK
<1>2. /\ handler'[c] = [tun |-> t, at |-> "relaying"]
      /\ \A e \in Conns : e # c => handler'[e] = handler[e]
      /\ \A d \in Dirs : dir'[c][d] = [at |-> "starting", tun |-> t, buf |-> None]
      /\ \A e \in Conns : e # c => dir'[e] = dir[e]
  BY DEF TypeOK
<1>3. TypeOK'
  <2>1. handler' \in [Conns -> [tun : Tuns \cup {None}, at : HandlerPlaces]]
    BY <1>1 DEF TypeOK, HandlerPlaces
  <2>2. dir' \in [Conns -> [Dirs -> [at : DirPlaces, tun : Tuns \cup {None}, buf : Bufs \cup {None}]]]
    BY <1>1 DEF TypeOK, DirPlaces
  <2> QED BY <2>1, <2>2 DEF TypeOK, table, proxies, buffers
<1>4. HandlerOK' /\ CountIsExact'
  <2>1. \A u \in Tuns : Counted(u)' = Counted(u)
    BY <1>2 DEF Counted
  <2> QED BY <1>1, <1>2, <2>1 DEF HandlerOK, CountIsExact
<1>5. DirOK'
  BY <1>1, <1>2 DEF DirOK
<1>6. BuffersAreNotShared' /\ PoolIsClean'
  BY <1>2, TunnelAssumption DEF BuffersAreNotShared, PoolIsClean, buffers, TypeOK
<1> QED BY <1>3, <1>4, <1>5, <1>6, TableKept, LateKept DEF table, proxies

-----------------------------------------------------------------------------
(* The directions. *)

\* A direction takes a buffer that no pool and no other direction has.
LEMMA GetBufferInv ==
  ASSUME Inv, NEW c \in Conns, NEW d \in Dirs, NEW b \in Bufs, GetBuffer(c, d, b) PROVE Inv'
<1> USE DEF Inv, GetBuffer
<1> DEFINE t == dir[c][d].tun
<1>1. t \in Tuns
  BY DEF DirOK
<1>2. /\ dir'[c][d] = [at |-> "copying", tun |-> t, buf |-> b]
      /\ \A e \in Conns, f \in Dirs : e # c \/ f # d => dir'[e][f] = dir[e][f]
  BY DEF TypeOK
<1>3. /\ pool'[t] = pool[t] \ {b}
      /\ \A u \in Tuns : u # t => pool'[u] = pool[u]
  BY <1>1 DEF TypeOK
<1>4. b \notin dirty' /\ dirty' \subseteq dirty
  BY <1>1 DEF PoolIsClean, FreshBufs
<1>5. TypeOK'
  <2>0. IsFiniteSet(pool[t]) /\ Cardinality(pool[t]) <= MaxBuffers
    BY <1>1, FiniteParts DEF TypeOK
  <2>1. Cardinality(pool[t] \ {b}) <= MaxBuffers
    BY <2>0, RoomInPool
  <2>2. pool' \in [Tuns -> SUBSET Bufs] /\ \A u \in Tuns : Cardinality(pool'[u]) <= MaxBuffers
    BY <1>3, <2>1 DEF TypeOK
  <2>3. dir' \in [Conns -> [Dirs -> [at : DirPlaces, tun : Tuns \cup {None}, buf : Bufs \cup {None}]]]
    BY <1>1 DEF TypeOK, DirPlaces
  <2> QED BY <1>4, <2>2, <2>3 DEF TypeOK, table, proxies
<1>6. DirOK' /\ PoolIsClean'
  BY <1>1, <1>2, <1>3, <1>4 DEF DirOK, PoolIsClean
<1>7. BuffersAreNotShared'
  <2>1. \A e \in Conns, f \in Dirs : dir[e][f].buf # b
    BY <1>1 DEF BuffersAreNotShared, FreshBufs
  <2>2. \A u \in Tuns : b \notin pool'[u]
    BY <1>1, <1>3 DEF BuffersAreNotShared, FreshBufs
  <2> QED BY <1>2, <1>3, <2>1, <2>2 DEF BuffersAreNotShared
<1> QED BY <1>5, <1>6, <1>7, TableKept, LateKept, CountKept DEF table, proxies

\* A direction dirties the buffer it holds, or ends.
LEMMA CopyInv == ASSUME Inv, NEW c \in Conns, NEW d \in Dirs, Copy(c, d) \/ CopyEnds(c, d) PROVE Inv'
<1> DEFINE b == dir[c][d].buf
<1>1. /\ b \in Bufs /\ dir[c][d].tun \in Tuns
      /\ \A t \in Tuns : b \notin pool[t]
  BY DEF Inv, DirOK, BuffersAreNotShared, Copy, CopyEnds
<1>2. CASE Copy(c, d)
  <2> USE <1>2 DEF Inv, Copy
  <2>1. TypeOK' /\ PoolIsClean'
    BY <1>1 DEF TypeOK, PoolIsClean, table, proxies, relays
  <2>2. DirOK' /\ BuffersAreNotShared'
    BY DEF DirOK, BuffersAreNotShared, relays
  <2> QED BY <2>1, <2>2, TableKept, LateKept, CountKept DEF table, proxies, relays
<1>3. CASE CopyEnds(c, d)
  <2> USE <1>3 DEF Inv, CopyEnds
  <2>1. /\ dir'[c][d] = [at |-> "returning", tun |-> dir[c][d].tun, buf |-> b]
        /\ \A e \in Conns, f \in Dirs : e # c \/ f # d => dir'[e][f] = dir[e][f]
    BY DEF TypeOK
  <2>2. TypeOK'
    <3>1. dir' \in [Conns -> [Dirs -> [at : DirPlaces, tun : Tuns \cup {None}, buf : Bufs \cup {None}]]]
      BY DEF TypeOK, DirPlaces
    <3> QED BY <3>1 DEF TypeOK, table, proxies, buffers
  <2>3. DirOK' /\ BuffersAreNotShared' /\ PoolIsClean'
    BY <1>1, <2>1 DEF DirOK, BuffersAreNotShared, PoolIsClean, buffers
  <2> QED BY <2>2, <2>3, TableKept, LateKept, CountKept DEF table, proxies
<1> QED BY <1>2, <1>3

\* A buffer goes back clean, and only while the pool has room.
LEMMA ReturnBufferInv ==
  ASSUME Inv, NEW c \in Conns, NEW d \in Dirs, ReturnBuffer(c, d) PROVE Inv'
<1> USE DEF Inv, ReturnBuffer
<1> DEFINE t == dir[c][d].tun  b == dir[c][d].buf
<1>1. t \in Tuns /\ b \in Bufs /\ b # None
  BY TunnelAssumption DEF DirOK
<1>2. /\ dir'[c][d] = Off
      /\ \A e \in Conns, f \in Dirs : e # c \/ f # d => dir'[e][f] = dir[e][f]
  BY DEF TypeOK
<1>3. /\ pool'[t] = IF Cardinality(pool[t]) < MaxBuffers THEN pool[t] \cup {b} ELSE pool[t]
      /\ \A u \in Tuns : u # t => pool'[u] = pool[u]
  BY <1>1 DEF TypeOK
<1>4. TypeOK'
  <2>0. IsFiniteSet(pool[t]) /\ Cardinality(pool[t]) <= MaxBuffers
    BY <1>1, FiniteParts DEF TypeOK
  <2>1. Cardinality(pool'[t]) <= MaxBuffers
    BY <1>1, <1>3, <2>0, RoomInPool DEF TypeOK
  <2>2. pool' \in [Tuns -> SUBSET Bufs] /\ \A u \in Tuns : Cardinality(pool'[u]) <= MaxBuffers
    BY <1>1, <1>3, <2>1 DEF TypeOK
  <2>3. dir' \in [Conns -> [Dirs -> [at : DirPlaces, tun : Tuns \cup {None}, buf : Bufs \cup {None}]]]
    BY DEF TypeOK, DirPlaces, Off
  <2> QED BY <2>2, <2>3 DEF TypeOK, table, proxies
<1>5. DirOK' /\ PoolIsClean'
  BY <1>2, <1>3 DEF DirOK, PoolIsClean, Off
<1>6. BuffersAreNotShared'
  <2>1. \A e \in Conns, f \in Dirs : e # c \/ f # d => dir[e][f].buf # b
    BY <1>1 DEF BuffersAreNotShared
  <2>2. \A u \in Tuns : None \notin pool'[u]
    BY <1>4, TunnelAssumption DEF TypeOK
  <2>3. \A u \in Tuns : b \notin pool[u]
    BY DEF BuffersAreNotShared
  <2> QED BY <1>1, <1>2, <1>3, <2>1, <2>2, <2>3 DEF BuffersAreNotShared, Off
<1> QED BY <1>4, <1>5, <1>6, TableKept, LateKept, CountKept DEF table, proxies

-----------------------------------------------------------------------------

\* The inductive invariant holds in every state of every behaviour.
THEOREM Invariance == Spec => []Inv
<1>1. Inv /\ [Next]_vars => Inv'
  <2> SUFFICES ASSUME Inv, [Next]_vars PROVE Inv'
    OBVIOUS
  <2>1. CASE UNCHANGED vars
    <3>1. TypeOK'
      BY <2>1 DEF Inv, TypeOK, vars, table, proxies, buffers, relays
    <3> QED BY <2>1, <3>1, TableKept, LateKept, BuffersKept, CountKept
            DEF Inv, vars, table, proxies, relays
  <2>2. ASSUME NEW c \in Conns,
               \/ Count(c) \/ DialFails(c) \/ DialSucceeds(c) \/ HandlerReturns(c)
               \/ \E d \in Dirs : \/ Copy(c, d) \/ CopyEnds(c, d) \/ ReturnBuffer(c, d)
                                  \/ \E b \in Bufs : GetBuffer(c, d, b)
        PROVE  Inv'
    BY <2>2, CountInv, ReturnInv, DialSucceedsInv, CopyInv, ReturnBufferInv, GetBufferInv
  <2>3. ASSUME NEW t \in Tuns,
               Register(t) \/ Listen(t) \/ LoopHead(t) \/ \E c \in Conns : Accept(t, c)
        PROVE  Inv'
    BY <2>3, RegisterInv, ProxyInv, AcceptInv
  <2> QED BY <2>1, <2>2, <2>3, BeginRegisterInv, RegisterRefusedInv, UnregisterInv, OtherProcessInv
          DEF Next
<1> QED BY <1>1, InitInv, PTL DEF Spec

\* The variables keep their types, and no pool outgrows its channel.
THEOREM TypeCorrect == Spec => []TypeOK
BY Invariance, PTL DEF Inv

\* However slow the proxies are to listen, no two tunnels of the table share a port.
THEOREM PortsAreExclusive == Spec => []OneTunnelPerPort
BY Invariance, PTL DEF Inv

\* However many connections there are, a buffer has one user, and the next user of a
\* pooled buffer finds nothing of the last one in it.
THEOREM BuffersAreSafe == Spec => []BuffersAreNotShared /\ []PoolIsClean
BY Invariance, PTL DEF Inv

\* The count of active connections is exact.
THEOREM ConnectionsAreCounted == Spec => []CountIsExact
BY Invariance, PTL DEF Inv

\* A removed tunnel takes at most one connection.
THEOREM RemovedTunnelsWindDown == Spec => []OneLateConnection
<1>1. Inv => OneLateConnection
  BY DEF Inv, LateOK, OneLateConnection
<1> QED BY <1>1, Invariance, PTL

-----------------------------------------------------------------------------
(* The tunnel manager implements TunnelPromise.                            *)

\* A connection has no directions before its handler starts them, a direction that
\* has not begun to copy has no buffer, and only a buffer in use holds bytes.
RelaysInv ==
  /\ \A c \in Conns : handler[c].at \in {"accepted", "dialing"} => \A d \in Dirs : dir[c][d] = Off
  /\ \A c \in Conns, d \in Dirs : dir[c][d].at \in {"off", "starting"} => dir[c][d].buf = None
  /\ \A b \in dirty : \E c \in Conns, d \in Dirs : dir[c][d].buf = b

\* What the promise shows.
Shown == <<PortOf, BufferOf, dirty>>

\* A step of a handler moves it on, and starts its directions or leaves them alone.
LEMMA HandlerKeepsRelays ==
  ASSUME Inv, RelaysInv, NEW c \in Conns,
         \/ Count(c) \/ DialFails(c) \/ DialSucceeds(c) \/ HandlerReturns(c)
         \/ \E t \in Tuns : Accept(t, c)
  PROVE  RelaysInv'
<1> USE DEF RelaysInv, Inv, TypeOK
<1>1. CASE \/ Count(c) \/ DialFails(c) \/ HandlerReturns(c)
           \/ \E t \in Tuns : Accept(t, c)
  <2>1. UNCHANGED <<dir, dirty>>
    BY <1>1 DEF Count, DialFails, HandlerReturns, Accept, buffers
  <2>2. \A e \in Conns : e # c => handler'[e] = handler[e]
    BY <1>1 DEF Count, DialFails, HandlerReturns, Accept
  <2>3. handler'[c].at \in {"accepted", "dialing"} => \A d \in Dirs : dir[c][d] = Off
    <3>1. CASE Count(c)
      BY <3>1 DEF Count
    <3>2. CASE DialFails(c) \/ HandlerReturns(c)
      BY <3>2 DEF DialFails, HandlerReturns, NoHandler
    <3>3. CASE \E t \in Tuns : Accept(t, c)
      BY <3>3 DEF Accept
    <3> QED BY <1>1, <3>1, <3>2, <3>3
  <2> QED BY <2>1, <2>2, <2>3
<1>3. CASE DialSucceeds(c)
  <2>1. /\ handler'[c].at = "relaying"
        /\ \A e \in Conns : e # c => handler'[e] = handler[e] /\ dir'[e] = dir[e]
        /\ \A d \in Dirs : dir'[c][d].at = "starting" /\ dir'[c][d].buf = None
    BY <1>3 DEF DialSucceeds
  <2>2. \A b \in dirty : \E e \in Conns, d \in Dirs : dir[e][d].buf = b /\ e # c
    BY <1>3, TunnelAssumption DEF DialSucceeds, Off
  <2> QED BY <1>3, <2>1, <2>2 DEF DialSucceeds, buffers
<1> QED BY <1>1, <1>3

\* A direction soils the buffer it has, and hands it back clean.
LEMMA DirectionKeepsRelays ==
  ASSUME Inv, RelaysInv, NEW c \in Conns, NEW d \in Dirs,
         \/ Copy(c, d) \/ CopyEnds(c, d) \/ ReturnBuffer(c, d)
         \/ \E b \in Bufs : GetBuffer(c, d, b)
  PROVE  RelaysInv'
<1> USE DEF RelaysInv, Inv, TypeOK
<1>1. CASE Copy(c, d)
  BY <1>1 DEF Copy, relays
<1>2. CASE CopyEnds(c, d) \/ ReturnBuffer(c, d)
  <2>1. /\ \A e \in Conns, f \in Dirs : e # c \/ f # d => dir'[e][f] = dir[e][f]
        /\ \/ dir'[c][d] = Off
           \/ dir'[c][d].at = "returning" /\ dir'[c][d].buf = dir[c][d].buf
        /\ dir'[c][d] = Off => dirty' = dirty \ {dir[c][d].buf}
        /\ dirty' \subseteq dirty /\ handler' = handler /\ dir[c][d] # Off
    BY <1>2 DEF CopyEnds, ReturnBuffer, Off, buffers
  <2> HIDE DEF Inv, TypeOK, RelaysInv
  <2>2. \A e \in Conns : handler'[e].at \in {"accepted", "dialing"} =>
          \A f \in Dirs : dir'[e][f] = Off
    BY <2>1 DEF RelaysInv
  <2>3. \A e \in Conns, f \in Dirs : dir'[e][f].at \in {"off", "starting"} => dir'[e][f].buf = None
    BY <2>1 DEF RelaysInv, Off
  <2>4. \A b \in dirty' : \E e \in Conns, f \in Dirs : dir'[e][f].buf = b
    <3> SUFFICES ASSUME NEW b \in dirty' PROVE \E e \in Conns, f \in Dirs : dir'[e][f].buf = b
      OBVIOUS
    <3>1. PICK e \in Conns, f \in Dirs : dir[e][f].buf = b
      BY <2>1 DEF RelaysInv
    <3>2. CASE e = c /\ f = d
      BY <2>1, <3>1, <3>2
    <3>3. CASE e # c \/ f # d
      BY <2>1, <3>1, <3>3
    <3> QED BY <3>2, <3>3
  <2> QED BY <2>2, <2>3, <2>4 DEF RelaysInv
<1>3. CASE \E b \in Bufs : GetBuffer(c, d, b)
  <2>1. PICK b \in Bufs : GetBuffer(c, d, b)
    BY <1>3
  <2>2. /\ \A e \in Conns, f \in Dirs : e # c \/ f # d => dir'[e][f] = dir[e][f]
        /\ dir'[c][d].at = "copying" /\ dir[c][d].at = "starting"
        /\ dirty' \subseteq dirty /\ handler' = handler
    BY <2>1 DEF GetBuffer
  <2>3. \A x \in dirty : \E e \in Conns, f \in Dirs : dir'[e][f].buf = x
    <3> SUFFICES ASSUME NEW x \in dirty PROVE \E e \in Conns, f \in Dirs : dir'[e][f].buf = x
      OBVIOUS
    <3>1. PICK e \in Conns, f \in Dirs : dir[e][f].buf = x
      OBVIOUS
    <3>2. e # c \/ f # d
      BY <2>2, <3>1, TunnelAssumption
    <3> QED BY <2>2, <3>1, <3>2
  <2> HIDE DEF Inv, TypeOK, RelaysInv
  <2>4. \A e \in Conns, f \in Dirs : dir'[e][f].at \in {"off", "starting"} => dir'[e][f].buf = None
    BY <2>2 DEF RelaysInv
  <2>5. \A e \in Conns : handler'[e].at \in {"accepted", "dialing"} =>
          \A f \in Dirs : dir'[e][f] = Off
    BY <2>2 DEF RelaysInv, Off
  <2> QED BY <2>2, <2>3, <2>4, <2>5 DEF RelaysInv
<1> QED BY <1>1, <1>2, <1>3

\* The other steps leave the relays alone; a registration only takes clean buffers.
LEMMA OthersKeepRelays ==
  ASSUME Inv, RelaysInv, dirty' \subseteq dirty, UNCHANGED <<handler, dir>>
  PROVE  RelaysInv'
BY DEF RelaysInv

\* Each step keeps what is said of the relays.
LEMMA RelaysStepInv == ASSUME Inv, RelaysInv, [Next]_vars PROVE RelaysInv'
<1> USE DEF table, proxies, buffers, relays
<1>1. CASE RegisterRefused \/ UNCHANGED vars
  BY <1>1, OthersKeepRelays DEF RegisterRefused, vars
<1>2. ASSUME NEW p \in Ports, OtherProcess(p) \/ \E i \in Ids : BeginRegister(i, p)
      PROVE  RelaysInv'
  BY <1>2, OthersKeepRelays DEF BeginRegister, OtherProcess
<1>3. ASSUME NEW t \in Tuns, Register(t) \/ Listen(t) \/ LoopHead(t) PROVE RelaysInv'
  BY <1>3, OthersKeepRelays DEF Register, Listen, LoopHead
<1>4. ASSUME NEW i \in Ids, Unregister(i) PROVE RelaysInv'
  BY <1>4, OthersKeepRelays DEF Unregister
<1> QED BY <1>1, <1>2, <1>3, <1>4, HandlerKeepsRelays, DirectionKeepsRelays DEF Next

\* A step of one direction changes the buffer of that direction alone.
LEMMA BufferOfMoves ==
  ASSUME Inv, Inv', NEW c \in Conns, NEW d \in Dirs,
         dir' = [dir EXCEPT ![c][d] = dir'[c][d]]
  PROVE  BufferOf' = [BufferOf EXCEPT ![<<c, d>>] = dir'[c][d].buf]
<1>1. \A r \in Conns \X Dirs :
        BufferOf'[r] = IF r = <<c, d>> THEN dir'[c][d].buf ELSE BufferOf[r]
  BY DEF BufferOf, Inv, TypeOK
<1> QED BY <1>1 DEF BufferOf

\* A direction gets a buffer nobody has, in which there is nothing; soils it; and
\* hands it back.
LEMMA DirectionIsPromised ==
  ASSUME Inv, Inv', RelaysInv, NEW c \in Conns, NEW d \in Dirs,
         \/ Copy(c, d) \/ CopyEnds(c, d) \/ ReturnBuffer(c, d)
         \/ \E b \in Bufs : GetBuffer(c, d, b)
  PROVE  [Promise!Next]_Shown
<1> DEFINE r == <<c, d>>
<1>0. /\ r \in Conns \X Dirs /\ BufferOf[r] = dir[c][d].buf
      /\ UNCHANGED <<tunnels, port>>
  BY DEF BufferOf, Copy, CopyEnds, ReturnBuffer, GetBuffer, table
<1>1. PortOf' = PortOf
  BY <1>0 DEF PortOf
<1>2. CASE Copy(c, d)
  <2>1. BufferOf[r] # None /\ BufferOf' = BufferOf
    BY <1>0, <1>2, TunnelAssumption DEF Copy, relays, Inv, DirOK, BufferOf
  <2>2. Promise!Soil(r)
    BY <1>0, <1>1, <1>2, <2>1 DEF Copy, Promise!Soil
  <2> QED BY <1>0, <2>2 DEF Promise!Next
<1>3. CASE CopyEnds(c, d)
  <2>1. dir'[c][d].buf = dir[c][d].buf
    BY <1>3 DEF CopyEnds, Inv, TypeOK
  <2>2. \A e \in Conns, f \in Dirs : dir'[e][f].buf = dir[e][f].buf
    BY <1>3, <2>1 DEF CopyEnds, Inv, TypeOK
  <2>3. BufferOf' = BufferOf
    BY <2>2 DEF BufferOf
  <2> QED BY <1>1, <1>3, <2>3 DEF CopyEnds, buffers, Shown
<1>4. CASE ReturnBuffer(c, d)
  <2>1. dir' = [dir EXCEPT ![c][d] = dir'[c][d]] /\ dir'[c][d].buf = None
    BY <1>4 DEF ReturnBuffer, Inv, TypeOK, Off
  <2>2. BufferOf[r] # None
    BY <1>0, <1>4, TunnelAssumption DEF ReturnBuffer, Inv, DirOK
  <2>3. Promise!TakeBack(r)
    BY <1>0, <1>1, <1>4, <2>1, <2>2, BufferOfMoves DEF ReturnBuffer, Promise!TakeBack
  <2> QED BY <1>0, <2>3 DEF Promise!Next
<1>5. ASSUME NEW b \in Bufs, GetBuffer(c, d, b) PROVE [Promise!Next]_Shown
  <2>1. dir' = [dir EXCEPT ![c][d] = dir'[c][d]] /\ dir'[c][d].buf = b
    BY <1>5 DEF GetBuffer, Inv, TypeOK
  <2>2. dir[c][d].buf = None /\ dir[c][d].tun \in Tuns
    BY <1>5 DEF GetBuffer, RelaysInv, Inv, DirOK
  <2>3. \A e \in Conns, f \in Dirs : dir[e][f].buf # b
    BY <1>5, <2>2 DEF GetBuffer, FreshBufs, Inv, BuffersAreNotShared
  <2>4. b \notin dirty
    BY <2>3 DEF RelaysInv
  <2>5. \A q \in Conns \X Dirs : BufferOf[q] # b
    BY <2>3 DEF BufferOf
  <2>6. dirty' = dirty
    BY <1>5, <2>4 DEF GetBuffer
  <2>7. Promise!Lend(r, b)
    BY <1>0, <1>1, <2>1, <2>2, <2>4, <2>5, <2>6, BufferOfMoves DEF Promise!Lend
  <2> QED BY <1>0, <2>7 DEF Promise!Next
<1> QED BY <1>2, <1>3, <1>4, <1>5

\* The steps of handlers and proxies are not visible.
LEMMA HandlerIsHidden ==
  ASSUME Inv, Inv', RelaysInv, NEW c \in Conns,
         \/ Count(c) \/ DialFails(c) \/ DialSucceeds(c) \/ HandlerReturns(c)
         \/ \E t \in Tuns : Accept(t, c)
  PROVE  UNCHANGED Shown
<1> USE DEF table, buffers
<1>1. PortOf' = PortOf /\ dirty' = dirty
  BY DEF Count, DialFails, DialSucceeds, HandlerReturns, Accept, PortOf
<1>2. \A e \in Conns, d \in Dirs : dir'[e][d].buf = dir[e][d].buf
  <2>1. CASE DialSucceeds(c)
    BY <2>1 DEF DialSucceeds, RelaysInv, Off, Inv, TypeOK
  <2>2. CASE Count(c) \/ DialFails(c) \/ HandlerReturns(c) \/ \E t \in Tuns : Accept(t, c)
    BY <2>2 DEF Count, DialFails, HandlerReturns, Accept
  <2> QED BY <2>1, <2>2
<1> QED BY <1>1, <1>2 DEF Shown, BufferOf

\* A registration enters an identifier with a port that no other has, though the port
\* was checked in an earlier step, and takes no buffer that holds bytes.
LEMMA RegisterIsPromised ==
  ASSUME Inv, Inv', RelaysInv, NEW t \in Tuns, Register(t)
  PROVE  [Promise!Next]_Shown
<1> USE DEF Inv, TypeOK, Register
<1> DEFINE i == probe.id  p == probe.port
<1>1. /\ i \in Ids /\ p \in Ports /\ tunnels[i] = None
      /\ \A j \in Ids : tunnels[j] # t
  BY TunnelAssumption DEF NewTuns, Registered
<1>2. PortOf[i] = None /\ \A j \in Ids : PortOf[j] # p
  BY <1>1, TunnelAssumption DEF PortOf, TableOK
<1>3. PortOf' = [PortOf EXCEPT ![i] = p]
  <2>1. /\ tunnels'[i] = t /\ port'[t] = p /\ t # None
        /\ \A j \in Ids : j # i => tunnels'[j] = tunnels[j]
        /\ \A u \in Tuns : u # t => port'[u] = port[u]
    BY <1>1, TunnelAssumption
  <2>2. \A j \in Ids : j # i => PortOf'[j] = PortOf[j]
    BY <1>1, <2>1 DEF PortOf
  <2>3. PortOf'[i] = p
    BY <1>1, <2>1 DEF PortOf
  <2> QED BY <2>2, <2>3 DEF PortOf
<1>4. dirty' = dirty
  <2>1. PICK made \in SUBSET FreshBufs : dirty' = dirty \ made
    OBVIOUS
  <2> QED BY <2>1 DEF FreshBufs, RelaysInv
<1>5. BufferOf' = BufferOf
  BY DEF BufferOf
<1>6. Promise!Enter(i, p)
  BY <1>2, <1>3, <1>4, <1>5 DEF Promise!Enter
<1> QED BY <1>1, <1>6 DEF Promise!Next

\* A tunnel is removed.
LEMMA UnregisterIsPromised ==
  ASSUME Inv, NEW i \in Ids, Unregister(i)
  PROVE  [Promise!Next]_Shown
<1>1. UNCHANGED <<port, dirty, dir>> /\ BufferOf' = BufferOf
  BY DEF Unregister, BufferOf, buffers, relays
<1>2. \A j \in Ids : PortOf'[j] = IF j = i THEN None ELSE PortOf[j]
  BY <1>1 DEF Unregister, PortOf, Inv, TypeOK
<1>3. PortOf' = [PortOf EXCEPT ![i] = None]
  BY <1>2 DEF PortOf
<1>4. Promise!Remove(i)
  BY <1>1, <1>3 DEF Promise!Remove
<1> QED BY <1>4 DEF Promise!Next

\* The other steps of the table, of the proxies and of other processes are not visible.
LEMMA OthersAreHidden ==
  ASSUME \/ RegisterRefused \/ UNCHANGED vars
         \/ \E p \in Ports : OtherProcess(p) \/ \E i \in Ids : BeginRegister(i, p)
         \/ \E t \in Tuns : Listen(t) \/ LoopHead(t)
  PROVE  UNCHANGED Shown
<1>1. UNCHANGED <<tunnels, port, dirty, dir>>
  BY DEF RegisterRefused, BeginRegister, OtherProcess, Listen, LoopHead, vars,
         table, proxies, buffers, relays
<1> QED BY <1>1 DEF Shown, PortOf, BufferOf

\* Any step is a step of the promise, or is not visible in it.
LEMMA StepIsPromised ==
  ASSUME Inv, Inv', RelaysInv, [Next]_vars
  PROVE  [Promise!Next]_Shown
<1>1. ASSUME NEW c \in Conns,
             \/ Count(c) \/ DialFails(c) \/ DialSucceeds(c) \/ HandlerReturns(c)
             \/ \E t \in Tuns : Accept(t, c)
      PROVE  [Promise!Next]_Shown
  BY <1>1, HandlerIsHidden
<1>2. ASSUME NEW c \in Conns, NEW d \in Dirs,
             \/ Copy(c, d) \/ CopyEnds(c, d) \/ ReturnBuffer(c, d)
             \/ \E b \in Bufs : GetBuffer(c, d, b)
      PROVE  [Promise!Next]_Shown
  BY <1>2, DirectionIsPromised
<1> QED BY <1>1, <1>2, RegisterIsPromised, UnregisterIsPromised, OthersAreHidden DEF Next

\* However many registrations, proxies and connections interleave, an identifier enters
\* the table only with a port nobody there has, and a direction copies through a buffer
\* of its own that held nothing when it got it.
THEOREM TunnelImplementsPromise == Spec => TunnelKeepsPromise
<1>1. Init => RelaysInv
  BY DEF Init, RelaysInv, Off, NoHandler
<1>2. Init => Promise!Init
  <2> SUFFICES ASSUME Init PROVE Promise!Init
    OBVIOUS
  <2>1. PortOf = [i \in Ids |-> None]
    BY DEF Init, PortOf
  <2>2. BufferOf = [r \in Conns \X Dirs |-> None]
    BY DEF Init, BufferOf, Off
  <2> QED BY <2>1, <2>2 DEF Init, Promise!Init
<1>3. Inv /\ Inv' /\ RelaysInv /\ [Next]_vars => RelaysInv' /\ [Promise!Next]_Shown
  BY RelaysStepInv, StepIsPromised
<1>4. Spec => []RelaysInv
  BY <1>1, <1>3, Invariance, PTL DEF Spec
<1>5. [Promise!Next]_Shown => [Promise!Next]_(Promise!vars)
  BY DEF Promise!vars, Shown
<1> QED BY <1>2, <1>3, <1>4, <1>5, Invariance, PTL DEF Spec, TunnelKeepsPromise, Promise!Spec

\* Manager and BufferManager as applications see them who know the promise only: no two
\* share a port or a buffer, and what a buffer held is gone when it is lent again.
THEOREM ApplicationsAreKeptApart == Spec => []Promise!KeptApart
<1> DEFINE T == /\ PortOf = [n \in Ids |-> PortOf[n]]
                /\ BufferOf = [r \in Conns \X Dirs |-> BufferOf[r]]
<1>1. Promise!Init => Promise!KeptApart
  BY DEF Promise!Init, Promise!KeptApart
<1>2. ASSUME Promise!KeptApart, [Promise!Next]_(Promise!vars), T, T'
      PROVE  Promise!KeptApart'
  <2>1. CASE UNCHANGED Promise!vars
    BY <1>2, <2>1 DEF Promise!vars, Promise!KeptApart
  <2>2. ASSUME NEW n \in Ids, Promise!Remove(n) \/ \E p \in Ports : Promise!Enter(n, p)
        PROVE  Promise!KeptApart'
    BY <1>2, <2>2 DEF Promise!Remove, Promise!Enter, Promise!KeptApart
  <2>3. ASSUME NEW r \in Conns \X Dirs,
               \/ Promise!Soil(r) \/ Promise!TakeBack(r)
               \/ \E b \in Bufs : Promise!Lend(r, b)
        PROVE  Promise!KeptApart'
    <3>1. CASE Promise!Soil(r)
      BY <1>2, <2>3, <3>1 DEF Promise!Soil, Promise!KeptApart
    <3>2. CASE Promise!TakeBack(r)
      <4>1. \A q \in Conns \X Dirs : BufferOf'[q] = IF q = r THEN None ELSE BufferOf[q]
        BY <1>2, <2>3, <3>2 DEF Promise!TakeBack
      <4> QED BY <1>2, <3>2, <4>1 DEF Promise!TakeBack, Promise!KeptApart
    <3>3. ASSUME NEW b \in Bufs, Promise!Lend(r, b) PROVE Promise!KeptApart'
      <4>1. \A q \in Conns \X Dirs : BufferOf'[q] = IF q = r THEN b ELSE BufferOf[q]
        BY <1>2, <2>3, <3>3 DEF Promise!Lend
      <4> QED BY <1>2, <2>3, <3>3, <4>1 DEF Promise!Lend, Promise!KeptApart
    <3> QED BY <2>3, <3>1, <3>2, <3>3
  <2> QED BY <1>2, <2>1, <2>2, <2>3 DEF Promise!Next
<1>3. T
  BY DEF PortOf, BufferOf
<1> QED
  BY <1>1, <1>2, <1>3, TunnelImplementsPromise, PTL DEF TunnelKeepsPromise, Promise!Spec
=============================================================================
