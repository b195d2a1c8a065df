-------------------------- MODULE LifecycleProofs --------------------------
(***************************************************************************)
(* What the control-plane manager, the P2P manager above it, the QUIC      *)
(* connection, the reload of the configuration and the commands guarantee  *)
(* for any number of goroutines, registrations, connections,               *)
(* configurations and retries.  Each part has an inductive invariant of    *)
(* its own.                                                                *)
(***************************************************************************)
EXTENDS ApiManager, P2PManager, QuicConnection, ConfigReload, CommandLine, TLAPS

-----------------------------------------------------------------------------
(* The control-plane manager. *)

\* Identifiers come in pairs, from the answer that brings them to the beat that
\* presents them.
IdsArePairs ==
  /\ \E n \in RegIds \cup {NoReg} : ids = Issued(n)
  /\ \A p \in ApiProcs :
       /\ \E n \in RegIds \cup {NoReg} : held[p] = Issued(n)
       /\ apiAt[p] = "store" => held[p] # Issued(NoReg)
  /\ apiAt[Loop] = "beat" => held[Loop] # Issued(NoReg)

\* The loop is spawned by an owner that has registered.
LoopIsRegistered ==
  \/ ids # Issued(NoReg)
  \/ apiAt[Loop] = "idle" /\ apiAt[Owner] \in {"idle", "register", "store"}

\* A manager is running from the end of Start to the end of Stop, and is not
\* cancelled then, nor while Start has an answer in its hands.
Serving ==
  /\ apiAt[Owner] \in {"register", "store", "session", "open", "spawn", "run"} => ~apiRunning
  /\ apiAt[Owner] \in {"store", "session", "open", "spawn", "run", "closing"} => ~apiCancelled
  /\ apiAt[Owner] = "closing" => apiRunning
  /\ apiRunning => ~apiCancelled /\ ids # Issued(NoReg)

\* Each goroutine has its own places to be.
InPlace ==
  /\ apiAt[Owner] \in {"idle", "register", "store", "session", "open", "spawn", "run", "closing"}
  /\ \A p \in Registrars : apiAt[p] \in {"idle", "register", "store"}

ApiInv == ApiTypeOK /\ IdsArePairs /\ LoopIsRegistered /\ Serving /\ InPlace

\* The manager as it is made.
LEMMA ApiInitInv == ApiInit => ApiInv
<1> SUFFICES ASSUME ApiInit PROVE ApiInv
  OBVIOUS
<1> USE ApiAssumption DEF ApiInit, ApiProcs
<1>1. ApiTypeOK
  <2>1. Issued(NoReg) \in Registrations
    BY DEF Registrations, Issued
  <2>2. ids \in Registrations /\ held \in [ApiProcs -> Registrations]
    BY <2>1
  <2>3. fails \in 0..2 /\ remembers \in SUBSET RegIds
    OBVIOUS
  <2>4. /\ apiLocked \in BOOLEAN /\ apiRunning \in BOOLEAN /\ apiCancelled \in BOOLEAN
        /\ session \in BOOLEAN /\ relayUp \in BOOLEAN /\ tokenGood \in BOOLEAN
    OBVIOUS
  <2> QED
    BY <2>2, <2>3, <2>4 DEF ApiTypeOK
<1>2. IdsArePairs
  BY DEF IdsArePairs
<1>3. LoopIsRegistered /\ Serving /\ InPlace
  BY DEF LoopIsRegistered, Serving, InPlace
<1> QED
  BY <1>1, <1>2, <1>3 DEF ApiInv

\* A registration, whoever asks for it.
LEMMA RegistrationInv ==
  ASSUME ApiInv, NEW p \in ApiProcs,
         RegisterAnswered(p) \/ RegisterFails(p) \/ StoreIds(p)
  PROVE  ApiInv'
<1> USE ApiAssumption DEF ApiInv, apiFlags, apiEnv, ApiProcs
<1>1. CASE RegisterAnswered(p)
  <2>1. PICK n \in RegIds : held' = [held EXCEPT ![p] = Issued(n)]
                            /\ remembers' = (remembers \cap Named) \cup {n}
    BY <1>1 DEF RegisterAnswered, FreshIds
  <2> USE <1>1, <2>1 DEF RegisterAnswered
  <2>2. ApiTypeOK'
    BY DEF ApiTypeOK, Registrations, Issued
  <2>3. Issued(n) # Issued(NoReg)
    BY DEF Issued
  <2>4. IdsArePairs'
    BY <2>3 DEF IdsArePairs, ApiTypeOK
  <2>5. LoopIsRegistered' /\ Serving' /\ InPlace'
    BY DEF LoopIsRegistered, Serving, InPlace, ApiTypeOK
  <2> QED
    BY <2>2, <2>4, <2>5
<1>2. CASE RegisterFails(p)
  <2> USE <1>2 DEF RegisterFails
  <2>1. ApiTypeOK'
    BY DEF ApiTypeOK
  <2>2. IdsArePairs'
    BY DEF IdsArePairs, ApiTypeOK
  <2>3. LoopIsRegistered' /\ Serving' /\ InPlace'
    BY DEF LoopIsRegistered, Serving, InPlace, ApiTypeOK
  <2> QED
    BY <2>1, <2>2, <2>3
<1>3. CASE StoreIds(p)
  <2> USE <1>3 DEF StoreIds
  <2>1. AfterStore(p) = IF p = Owner THEN "session" ELSE IF p = Loop THEN "renew" ELSE "idle"
    BY DEF AfterStore
  <2> USE <2>1
  <2>2. ApiTypeOK'
    BY DEF ApiTypeOK, Registrations, Issued
  <2>3. IdsArePairs' /\ ids' # Issued(NoReg)
    BY DEF IdsArePairs, ApiTypeOK
  <2>4. LoopIsRegistered' /\ Serving' /\ InPlace'
    BY <2>3 DEF LoopIsRegistered, Serving, InPlace, ApiTypeOK
  <2> QED
    BY <2>2, <2>3, <2>4
<1> QED
  BY <1>1, <1>2, <1>3

\* Start and Stop, and a caller of RegisterPeerWith.
LEMMA OwnerInv ==
  ASSUME ApiInv,
         \/ \E p \in Registrars : RegisterPeerWith(p)
         \/ StartBegin \/ NameSession \/ (\E p \in {Owner, Loop} : OpenReturns(p))
         \/ SpawnLoop \/ MarkRunning \/ StopBegin \/ StopEnds
  PROVE  ApiInv'
<1> USE ApiAssumption
    DEF ApiInv, apiFlags, apiEnv, ApiProcs, ApiTypeOK, IdsArePairs, LoopIsRegistered, Serving,
        InPlace
<1>1. CASE \E p \in Registrars : RegisterPeerWith(p)
  BY <1>1 DEF RegisterPeerWith
<1>2. CASE StartBegin
  BY <1>2 DEF StartBegin
<1>3. CASE NameSession
  BY <1>3 DEF NameSession
<1>4. CASE \E p \in {Owner, Loop} : OpenReturns(p)
  BY <1>4 DEF OpenReturns
<1>5. CASE SpawnLoop
  BY <1>5 DEF SpawnLoop
<1>6. CASE MarkRunning
  BY <1>6 DEF MarkRunning
<1>7. CASE StopBegin
  BY <1>7 DEF StopBegin
<1>8. CASE StopEnds
  BY <1>8 DEF StopEnds
<1> QED
  BY <1>1, <1>2, <1>3, <1>4, <1>5, <1>6, <1>7, <1>8

\* The loop, the relay and the clock.
LEMMA BeatInv ==
  ASSUME ApiInv,
         \/ BeatBegin \/ BeatAccepted \/ BeatFails \/ SessionCloseReturns
         \/ RenewSession \/ LoopEnds \/ RelayTurns \/ RelayForgets \/ TokenExpires
  PROVE  ApiInv'
<1> USE ApiAssumption DEF ApiInv, apiFlags, apiEnv, ApiProcs
<1>1. CASE BeatBegin
  <2> USE <1>1 DEF BeatBegin
  <2>1. ApiTypeOK'
    BY DEF ApiTypeOK
  <2>2. ids # Issued(NoReg)
    BY DEF LoopIsRegistered
  <2>3. IdsArePairs'
    BY <2>2 DEF IdsArePairs, ApiTypeOK
  <2>4. LoopIsRegistered' /\ Serving' /\ InPlace'
    BY DEF LoopIsRegistered, Serving, InPlace, ApiTypeOK
  <2> QED
    BY <2>1, <2>3, <2>4
<1>2. ASSUME NEW stage \in {"wait", "close", "register"}, NEW n \in 0..2,
             apiAt' = [apiAt EXCEPT ![Loop] = stage], fails' = n,
             held' \in {held, [held EXCEPT ![Loop] = Issued(NoReg)]},
             apiAt[Loop] # "idle", UNCHANGED <<apiFlags, ids, apiEnv>>
      PROVE  ApiInv'
  <2> USE <1>2
  <2>1. Issued(NoReg) \in Registrations
    BY DEF Registrations, Issued
  <2>2. ApiTypeOK'
    BY <2>1 DEF ApiTypeOK
  <2>3. IdsArePairs'
    BY DEF IdsArePairs, ApiTypeOK
  <2>4. LoopIsRegistered' /\ Serving' /\ InPlace'
    BY DEF LoopIsRegistered, Serving, InPlace, ApiTypeOK
  <2> QED
    BY <2>2, <2>3, <2>4
<1>3. CASE BeatAccepted
  BY <1>2, <1>3 DEF BeatAccepted
<1>4. CASE BeatFails
  <2>1. fails \in 0..2
    BY DEF ApiTypeOK
  <2> QED
    BY <1>2, <1>4, <2>1 DEF BeatFails, LoopWaits, Reregister
<1>5. CASE SessionCloseReturns
  <2>1. fails \in 0..2
    BY DEF ApiTypeOK
  <2> QED
    BY <1>2, <1>5, <2>1 DEF SessionCloseReturns, LoopWaits, Reregister
<1>6. CASE RenewSession
  BY <1>6 DEF RenewSession, LoopWaits, ApiTypeOK, IdsArePairs, LoopIsRegistered, Serving, InPlace
<1>7. CASE LoopEnds
  BY <1>7 DEF LoopEnds, ApiTypeOK, IdsArePairs, LoopIsRegistered, Serving, InPlace
<1>8. CASE RelayTurns \/ RelayForgets \/ TokenExpires
  <2>1. UNCHANGED <<apiFlags, ids, apiAt, held, fails>>
    BY <1>8 DEF RelayTurns, RelayForgets, TokenExpires
  <2>2. relayUp' \in BOOLEAN /\ remembers' \in SUBSET RegIds /\ tokenGood' \in BOOLEAN
    BY <1>8 DEF RelayTurns, RelayForgets, TokenExpires, ApiTypeOK
  <2>3. ApiTypeOK'
    BY <2>1, <2>2 DEF ApiTypeOK
  <2> QED
    BY <2>1, <2>3 DEF IdsArePairs, LoopIsRegistered, Serving, InPlace
<1> QED
  BY <1>1, <1>3, <1>4, <1>5, <1>6, <1>7, <1>8

\* Every step of the owner, the loop and the registrars keeps the invariant.
LEMMA ApiStepInv == ApiInv /\ [ApiNext]_apiVars => ApiInv'
<1> SUFFICES ASSUME ApiInv, [ApiNext]_apiVars PROVE ApiInv'
  OBVIOUS
<1>1. CASE OwnerStep
  BY <1>1, RegistrationInv, OwnerInv DEF OwnerStep, ApiProcs
<1>2. CASE LoopStep
  BY <1>2, RegistrationInv, OwnerInv, BeatInv DEF LoopStep, ApiProcs
<1>3. CASE \E p \in Registrars : RegisterPeerWith(p) \/ RegistrarStep(p)
  BY <1>3, RegistrationInv, OwnerInv DEF RegistrarStep, ApiProcs
<1>4. CASE UNCHANGED apiVars
  BY <1>4 DEF apiVars, apiFlags, apiEnv, ApiInv, ApiTypeOK, IdsArePairs, LoopIsRegistered,
     Serving, InPlace
<1> QED
  BY <1>1, <1>2, <1>3, <1>4, OwnerInv, BeatInv DEF ApiNext

\* sendHeartbeat, for any number of goroutines that register: the beat carries
\* the two identifiers of one registration.
THEOREM BeatsAreWhole == ApiSpec => []OneRegistrationPerBeat
<1>1. ApiInv => OneRegistrationPerBeat
  <2> SUFFICES ASSUME ApiInv, apiAt[Loop] = "beat"
               PROVE  \E n \in RegIds : held[Loop] = Issued(n)
    BY DEF OneRegistrationPerBeat
  <2> QED
    BY DEF ApiInv, IdsArePairs, ApiProcs
<1> QED
  BY <1>1, ApiInitInv, ApiStepInv, PTL DEF ApiSpec

\* The manager registers, serves and retires as promised: each of its steps is
\* one of ApiPromise's, or changes nothing that is promised.
LEMMA ApiStepRefines ==
  ASSUME ApiInv, [ApiNext]_apiVars
  PROVE  [Promise!Next]_<<apiRunning, apiCancelled, ids.peer>>
<1> USE ApiAssumption DEF apiFlags, apiEnv
<1> DEFINE Same == UNCHANGED <<apiRunning, apiCancelled, ids>>
<1>1. ASSUME NEW p \in ApiProcs, StoreIds(p)
      PROVE  ids'.peer \in RegIds /\ UNCHANGED <<apiRunning, apiCancelled>>
  <2>1. PICK n \in RegIds \cup {NoReg} : held[p] = Issued(n)
    BY DEF ApiInv, IdsArePairs
  <2>2. n # NoReg
    BY <1>1, <2>1 DEF StoreIds, ApiInv, IdsArePairs
  <2> QED
    BY <1>1, <2>1, <2>2 DEF StoreIds, Issued
<1>2. CASE MarkRunning
  <2>1. ids.peer # NoReg
    BY <1>2 DEF MarkRunning, ApiInv, LoopIsRegistered, IdsArePairs, Issued
  <2> QED
    BY <1>2, <2>1 DEF MarkRunning, ApiInv, Serving, Promise!Next, Promise!Serve
<1>3. CASE StopEnds
  BY <1>3 DEF StopEnds, ApiInv, Serving, Promise!Next, Promise!Retire
<1>4. CASE \E p \in ApiProcs : StoreIds(p)
  BY <1>1, <1>4 DEF Promise!Next, Promise!Register
<1>5. CASE OwnerStep
  <2>1. StoreIds(Owner) \/ MarkRunning \/ StopEnds \/ Same
    BY <1>5 DEF OwnerStep, RegisterAnswered, RegisterFails, NameSession, OpenReturns, SpawnLoop
  <2> QED
    BY <1>2, <1>3, <1>4, <2>1 DEF ApiProcs
<1>6. CASE LoopStep
  <2>1. StoreIds(Loop) \/ Same
    BY <1>6 DEF LoopStep, BeatBegin, BeatAccepted, BeatFails, SessionCloseReturns,
       RegisterAnswered, RegisterFails, RenewSession, OpenReturns, LoopEnds
  <2> QED
    BY <1>4, <2>1 DEF ApiProcs
<1>7. CASE \E p \in Registrars : RegisterPeerWith(p) \/ RegistrarStep(p)
  <2>1. (\E p \in Registrars : StoreIds(p)) \/ Same
    BY <1>7 DEF RegistrarStep, RegisterPeerWith, RegisterAnswered, RegisterFails
  <2> QED
    BY <1>4, <2>1 DEF ApiProcs
<1>8. CASE StartBegin \/ StopBegin \/ RelayTurns \/ RelayForgets \/ TokenExpires
  BY <1>8 DEF StartBegin, StopBegin, RelayTurns, RelayForgets, TokenExpires
<1>9. CASE UNCHANGED apiVars
  BY <1>9 DEF apiVars
<1> QED
  BY <1>5, <1>6, <1>7, <1>8, <1>9 DEF ApiNext

\* api.Manager, for any number of goroutines and registrations, is what its owner
\* may take it for.
THEOREM ApiImplementsPromise == ApiSpec => ApiKeepsPromise
<1>1. ApiInit => Promise!Init
  BY DEF ApiInit, Issued, Promise!Init
<1> QED
  BY <1>1, ApiInitInv, ApiStepInv, ApiStepRefines, PTL
     DEF ApiSpec, ApiKeepsPromise, Promise!Spec

-----------------------------------------------------------------------------
(* The QUIC connection. *)

\* The write lock belongs to the one that is between asking for it and releasing
\* it: no return path keeps it.
WriterIsAtWork ==
  /\ qWriter = Keeper <=> keeperAt # "idle"
  /\ \A c \in Callers : qWriter = c <=> callerAt[c] = "storing"

\* A connection that is there has been dialled, and has its monitor.
ConnectionIsWatched == conn # NoConn => conn \in used /\ quicMonitor

\* A stream that is recorded, or about to be, belongs to a connection that was dialled.
StreamsWereDialled ==
  \A c \in Callers :
    /\ streams[c] # NoConn => streams[c] \in used
    /\ callerAt[c] # "idle" => callerConn[c] \in used

QuicInv ==
  /\ QuicTypeOK /\ WaitsOnLiveConnection
  /\ WriterIsAtWork /\ ConnectionIsWatched /\ StreamsWereDialled

\* The steps of a caller.
LEMMA CallerKeepsQuic ==
  ASSUME QuicInv, NEW c \in Callers, StreamBegins(c) \/ CallerStep(c) \/ StreamCloses(c)
  PROVE  QuicInv'
<1> USE QuicAssumption DEF QuicInv, CallerGoes
<1>1. UNCHANGED <<conn, used, keeperAt, quicMonitor>>
  BY DEF StreamBegins, CallerStep, StreamFails, StreamOpens, StreamUnlocks, StreamAsksToWrite,
         StreamStored, StreamReturns, StreamCloses
<1>2. QuicTypeOK' /\ WaitsOnLiveConnection'
  <2> USE DEF QuicTypeOK, WaitsOnLiveConnection
  <2>1. CASE StreamBegins(c) \/ StreamFails(c) \/ StreamOpens(c)
    BY <2>1 DEF StreamBegins, StreamFails, StreamOpens
  <2>2. CASE StreamUnlocks(c) \/ StreamAsksToWrite(c)
    BY <2>2 DEF StreamUnlocks, StreamAsksToWrite
  <2>3. CASE StreamStored(c) \/ StreamReturns(c) \/ StreamCloses(c)
    BY <2>3 DEF StreamStored, StreamReturns, StreamCloses
  <2> QED BY <2>1, <2>2, <2>3 DEF CallerStep
<1>3. WriterIsAtWork'
  <2> USE DEF QuicTypeOK, WriterIsAtWork
  <2>1. CASE StreamBegins(c) \/ StreamFails(c) \/ StreamOpens(c) \/ StreamUnlocks(c)
    BY <2>1 DEF StreamBegins, StreamFails, StreamOpens, StreamUnlocks
  <2>2. CASE StreamAsksToWrite(c) \/ StreamStored(c)
    BY <2>2 DEF StreamAsksToWrite, StreamStored, Writes
  <2>3. CASE StreamReturns(c) \/ StreamCloses(c)
    BY <2>3 DEF StreamReturns, StreamCloses
  <2> QED BY <2>1, <2>2, <2>3 DEF CallerStep
<1>4. ConnectionIsWatched'
  BY <1>1 DEF ConnectionIsWatched
<1>5. StreamsWereDialled'
  <2> USE DEF QuicTypeOK, StreamsWereDialled
  <2>1. CASE StreamBegins(c)
    BY <2>1 DEF StreamBegins, ConnectionIsWatched
  <2>2. CASE StreamFails(c) \/ StreamOpens(c) \/ StreamUnlocks(c) \/ StreamAsksToWrite(c)
    BY <2>2 DEF StreamFails, StreamOpens, StreamUnlocks, StreamAsksToWrite
  <2>3. CASE StreamStored(c) \/ StreamReturns(c) \/ StreamCloses(c)
    BY <2>3 DEF StreamStored, StreamReturns, StreamCloses
  <2> QED BY <2>1, <2>2, <2>3 DEF CallerStep
<1> QED BY <1>2, <1>3, <1>4, <1>5

\* The steps of the keeper, which change the connection when nobody reads.
LEMMA KeeperKeepsQuic ==
  ASSUME QuicInv,
         KeeperStep \/ MonitorEnds \/ \E stage \in {"dialing", "closing"} : KeeperAsks(stage)
  PROVE  QuicInv'
<1> USE QuicAssumption
    DEF QuicInv, QuicTypeOK, WaitsOnLiveConnection, WriterIsAtWork, ConnectionIsWatched,
        StreamsWereDialled
<1>1. ASSUME NEW stage \in {"dialing", "closing"}, KeeperAsks(stage) PROVE QuicInv'
  BY <1>1 DEF KeeperAsks
<1>2. ASSUME NEW k \in Conns, Connected(k) PROVE QuicInv'
  BY <1>2 DEF Connected, KeeperReturns, Writes, Readers
<1>3. CASE DialFails
  BY <1>3 DEF DialFails, KeeperReturns, Writes, Readers
<1>4. CASE Closed
  BY <1>4 DEF Closed, KeeperReturns, Writes, Readers
<1>5. CASE MonitorEnds
  BY <1>5 DEF MonitorEnds
<1> QED BY <1>1, <1>2, <1>3, <1>4, <1>5 DEF KeeperStep

\* Every step does.
LEMMA QuicStepInv == QuicInv /\ [QuicNext]_quicVars => QuicInv'
<1> SUFFICES ASSUME QuicInv, [QuicNext]_quicVars PROVE QuicInv'
  OBVIOUS
<1>1. CASE UNCHANGED quicVars
  BY <1>1 DEF quicVars, QuicInv, QuicTypeOK, WaitsOnLiveConnection, WriterIsAtWork,
              ConnectionIsWatched, StreamsWereDialled
<1> QED BY <1>1, CallerKeepsQuic, KeeperKeepsQuic DEF QuicNext

\* The connection as it is made.
LEMMA QuicInitInv == QuicInit => QuicInv
BY QuicAssumption
   DEF QuicInit, QuicInv, QuicTypeOK, WaitsOnLiveConnection, WriterIsAtWork,
       ConnectionIsWatched, StreamsWereDialled

\* CreateStream and AcceptStream, for any number of callers and connections: who
\* waits for a stream waits on the connection that is the current one.
THEOREM WaitersHoldTheConnection == QuicSpec => []WaitsOnLiveConnection
<1>1. QuicInv => WaitsOnLiveConnection
  BY DEF QuicInv
<1> QED
  BY <1>1, QuicInitInv, QuicStepInv, PTL DEF QuicSpec

\* q.mu as CreateStream, AcceptStream, Connect and Close use it: the writer is the one
\* goroutine that is between its Lock and its Unlock, so that what keeps a caller from
\* the lock is always somebody at work.
THEOREM WritersAreAtWork == QuicSpec => []QuicTypeOK /\ []WriterIsAtWork
<1>1. QuicInv => QuicTypeOK /\ WriterIsAtWork
  BY DEF QuicInv
<1> QED
  BY <1>1, QuicInitInv, QuicStepInv, PTL DEF QuicSpec

-----------------------------------------------------------------------------
(* The reload of the configuration. *)

\* The same in what the watcher compares.
Alike(c, d) == c.relay = d.relay /\ c.secret = d.secret

\* A reload that has the client to call is the only one, and holds what is
\* current, unless two overlapped there.
CallsInOrder ==
  /\ \A r \in Reloads : reloadAt[r] \in {"swap", "call"} => new[r] \in Configs
  /\ ~crossed => \A r \in Reloads : reloadAt[r] = "call" =>
       /\ Alike(new[r], current)
       /\ \A s \in Reloads : reloadAt[s] = "call" => s = r

ReloadInv == ReloadTypeOK /\ CallsInOrder /\ ClientFollows

\* The watcher as it begins.
LEMMA ReloadInitInv == ReloadInit => ReloadInv
BY DEF ReloadInit, ReloadInv, ReloadTypeOK, CallsInOrder, ClientFollows

\* A reload makes what it has read current.
LEMMA SwapInv ==
  ASSUME ReloadInv, NEW r \in Reloads, SwapConfig(r)
  PROVE  ReloadInv'
<1> USE DEF SwapConfig, ReloadInv
<1>1. new[r] \in Configs /\ current \in Configs
  BY DEF CallsInOrder, ReloadTypeOK
<1>2. DetectChanges(current, new[r]) = {} => Alike(current, new[r])
  BY DEF DetectChanges, Alike
<1>3. CASE DetectChanges(current, new[r]) = {}
  <2> USE <1>1, <1>2, <1>3 DEF ReloadEnds, ReloadGoes
  <2>1. ReloadTypeOK'
    BY DEF ReloadTypeOK
  <2>2. CallsInOrder'
    BY DEF CallsInOrder, ReloadTypeOK, Alike
  <2>3. ClientFollows'
    BY DEF ClientFollows, ReloadTypeOK, Alike
  <2> QED
    BY <2>1, <2>2, <2>3
<1>4. CASE DetectChanges(current, new[r]) # {}
  <2> USE <1>1, <1>4 DEF ReloadGoes
  <2>1. ReloadTypeOK'
    BY DEF ReloadTypeOK
  <2>2. CallsInOrder'
    BY DEF CallsInOrder, ReloadTypeOK, Alike
  <2>3. ClientFollows'
    BY DEF ClientFollows, ReloadTypeOK
  <2> QED
    BY <2>1, <2>2, <2>3
<1> QED
  BY <1>3, <1>4

\* A reload hands the client what it has read.
LEMMA CallClientInv ==
  ASSUME ReloadInv, NEW r \in Reloads, CallClient(r)
  PROVE  ReloadInv'
<1> USE DEF CallClient, ReloadInv, ReloadEnds, ReloadGoes
<1>1. ReloadTypeOK'
  <2>1. clientConfig' \in Configs
    BY DEF CallsInOrder
  <2> QED
    BY <2>1 DEF ReloadTypeOK, timer
<1>2. CallsInOrder'
  BY DEF CallsInOrder, ReloadTypeOK
<1>3. ClientFollows'
  BY DEF ClientFollows, CallsInOrder, Alike
<1> QED
  BY <1>1, <1>2, <1>3

\* Every step of the watcher, its timer and the reloads keeps the invariant.
LEMMA ReloadStepInv == ReloadInv /\ [ReloadNext]_reloadVars => ReloadInv'
<1> SUFFICES ASSUME ReloadInv, [ReloadNext]_reloadVars PROVE ReloadInv'
  OBVIOUS
<1>1. ASSUME /\ file' \in Configs \cup {Unreadable} /\ fileEvent' \in BOOLEAN
             /\ watching' \in BOOLEAN /\ armed' \in BOOLEAN /\ early' \in SUBSET Reloads,
             UNCHANGED <<current, told>>,
             \/ UNCHANGED reloads
             \/ \E r \in Reloads : reloadAt[r] = "idle" /\ ReloadGoes(r, "load") /\ UNCHANGED new
             \/ \E r \in Reloads : /\ reloadAt[r] = "load" /\ ReloadGoes(r, "idle")
                                   /\ UNCHANGED new
             \/ \E r \in Reloads : /\ reloadAt[r] = "load" /\ ReloadGoes(r, "swap")
                                   /\ file \in Configs /\ new' = [new EXCEPT ![r] = file]
      PROVE  ReloadInv'
  <2> USE <1>1 DEF ReloadInv, reloads, told, ReloadGoes
  <2>1. ReloadTypeOK'
    BY DEF ReloadTypeOK
  <2>2. CallsInOrder' /\ ClientFollows'
    BY DEF CallsInOrder, ClientFollows, ReloadTypeOK
  <2> QED
    BY <2>1, <2>2
<1>2. CASE \E c \in Configs \cup {Unreadable} : FileWritten(c)
  BY <1>1, <1>2 DEF FileWritten, timer, ReloadInv, ReloadTypeOK
<1>3. CASE HandleFileEvent
  BY <1>1, <1>3 DEF HandleFileEvent, Unswapped, ReloadInv, ReloadTypeOK
<1>4. CASE StopWatching
  BY <1>1, <1>4 DEF StopWatching, ReloadInv, ReloadTypeOK
<1>5. CASE \E r \in Reloads : TimerFires(r)
  BY <1>1, <1>5 DEF TimerFires, ReloadInv, ReloadTypeOK
<1>6. CASE \E r \in Reloads : ForceReload(r)
  BY <1>1, <1>6 DEF ForceReload, timer, ReloadInv, ReloadTypeOK
<1>7. CASE \E r \in Reloads : LoadConfig(r)
  <2>1. PICK r \in Reloads : LoadConfig(r)
    BY <1>7
  <2>2. /\ file' \in Configs \cup {Unreadable} /\ fileEvent' \in BOOLEAN
        /\ watching' \in BOOLEAN /\ armed' \in BOOLEAN /\ early' \in SUBSET Reloads
        /\ UNCHANGED <<current, told>>
    BY <2>1 DEF LoadConfig, ReloadInv, ReloadTypeOK
  <2>3. CASE ~Loads(file)
    BY <1>1, <2>1, <2>2, <2>3 DEF LoadConfig
  <2>4. CASE Loads(file)
    <3>1. file \in Configs
      BY <2>4 DEF Loads, ReloadInv, ReloadTypeOK
    <3> QED
      BY <1>1, <2>1, <2>2, <2>4, <3>1 DEF LoadConfig
  <2> QED
    BY <2>3, <2>4
<1>8. CASE UNCHANGED reloadVars
  BY <1>1, <1>8 DEF reloadVars, timer, reloads, ReloadInv, ReloadTypeOK
<1> QED
  BY <1>2, <1>3, <1>4, <1>5, <1>6, <1>7, <1>8, SwapInv, CallClientInv DEF ReloadNext, ReloadStep

\* ConfigWatcher.reloadConfig, for any number of reloads and configurations: the
\* client has what is current, or a reload is about to tell it, or two crossed.
THEOREM ClientKeepsUp == ReloadSpec => []ClientFollows
<1>1. ReloadInv => ClientFollows
  BY DEF ReloadInv
<1> QED
  BY <1>1, ReloadInitInv, ReloadStepInv, PTL DEF ReloadSpec

\* A reload that holds what the file no longer says is one the timer waits for.
StaleIsEarly ==
  watching => \A r \in Reloads :
    reloadAt[r] = "swap" /\ new[r] # file => fileEvent \/ (armed /\ r \in early)

PendingInv == ReloadInv /\ StaleIsEarly /\ BehindIsPending

\* The watcher as it begins is not behind.
LEMMA PendingInitInv == ReloadInit => PendingInv
BY ReloadInitInv DEF ReloadInit, PendingInv, StaleIsEarly, BehindIsPending, Behind

\* Writes and the events of the loop: what is stale then is marked.
LEMMA EventKeepsPending ==
  ASSUME PendingInv,
         (\E c \in Configs \cup {Unreadable} : FileWritten(c)) \/ HandleFileEvent \/ StopWatching
  PROVE  StaleIsEarly' /\ BehindIsPending'
<1> USE DEF PendingInv, StaleIsEarly, BehindIsPending, Behind, timer, reloads, told
<1>1. CASE \E c \in Configs \cup {Unreadable} : FileWritten(c)
  BY <1>1 DEF FileWritten
<1>2. CASE HandleFileEvent
  BY <1>2 DEF HandleFileEvent, Unswapped
<1>3. CASE StopWatching
  BY <1>3 DEF StopWatching
<1> QED
  BY <1>1, <1>2, <1>3

\* A reload: it reads the file after the timer has fired, and whoever swaps in
\* something older leaves the timer armed or an event behind.
LEMMA ReloadKeepsPending ==
  ASSUME PendingInv, NEW r \in Reloads, TimerFires(r) \/ ForceReload(r) \/ ReloadStep(r)
  PROVE  StaleIsEarly' /\ BehindIsPending'
<1> USE DEF PendingInv, StaleIsEarly, BehindIsPending, Behind, ReloadInv, ReloadTypeOK,
            ReloadGoes, ReloadEnds, timer, reloads, told
<1>1. CASE TimerFires(r)
  BY <1>1 DEF TimerFires
<1>2. CASE ForceReload(r)
  BY <1>2 DEF ForceReload
<1>3. CASE LoadConfig(r)
  BY <1>3 DEF LoadConfig
<1>4. CASE SwapConfig(r)
  BY <1>4 DEF SwapConfig
<1>5. CASE CallClient(r)
  BY <1>5 DEF CallClient
<1> QED
  BY <1>1, <1>2, <1>3, <1>4, <1>5 DEF ReloadStep

\* Every step keeps what is pending.
LEMMA PendingStepInv == PendingInv /\ [ReloadNext]_reloadVars => PendingInv'
<1> SUFFICES ASSUME PendingInv, [ReloadNext]_reloadVars PROVE PendingInv'
  OBVIOUS
<1>1. ReloadInv'
  BY ReloadStepInv DEF PendingInv
<1>2. CASE ReloadNext
  BY <1>1, <1>2, EventKeepsPending, ReloadKeepsPending DEF ReloadNext, PendingInv
<1>3. CASE UNCHANGED reloadVars
  BY <1>1, <1>3 DEF reloadVars, timer, reloads, PendingInv, StaleIsEarly, BehindIsPending, Behind
<1> QED
  BY <1>2, <1>3

\* ConfigWatcher's events, timer and reloads, for any number of reloads and
\* configurations: a watcher that is behind the file is about to catch up.
THEOREM WritesAreNotLost == ReloadSpec => []BehindIsPending
<1>1. PendingInv => BehindIsPending
  BY DEF PendingInv
<1> QED
  BY <1>1, PendingInitInv, PendingStepInv, PTL DEF ReloadSpec

-----------------------------------------------------------------------------
(* The P2P manager. *)

\* The control-plane manager starts once, in the first Start that gets that far, and
\* is retired by Stop.
ApiIsUsedOnce ==
  /\ mainAt \in {"idle", "registered"} => ~apiServing
  /\ mainAt \in {"ice", "quic", "signal", "overlay", "mesh", "loops", "up", "tested",
                 "cancel", "api"} => apiServing
  /\ apiRetired <=> mainAt \in {"close", "done"}
  /\ ~(apiServing /\ apiRetired)

\* Stop has asked for Manager.mu until it is over, and the health monitor is out of
\* it once Stop has it.
StopHoldsTheMutex ==
  /\ writing <=> mainAt \in {"cancel", "api", "close"}
  /\ mainAt \in {"api", "close"} => ~Reading
  /\ mainAt \in {"api", "close", "done"} => ctxDone

\* The beats name a peer that the relay has registered.
BeatsNameAPeer ==
  /\ "beat" \in loops \/ mainAt = "loops" => peer # NoP2PReg
  /\ apiServing => peer # NoP2PReg
  /\ mainAt = "registered" => apiRegistered # NoP2PReg

P2PInv ==
  /\ P2PTypeOK
  /\ ApiIsUsedOnce /\ StopHoldsTheMutex /\ BeatsNameAPeer
  /\ StartIsNotSpoilt /\ StopIsFinal

\* The type invariant in three parts: where the goroutines are, who is registered, and
\* what is on or off.
PlacesTyped ==
  /\ mainAt \in {"idle", "start", "registered", "ice", "quic", "signal", "overlay", "mesh",
                 "loops", "up", "tested", "cancel", "api", "close", "done", "failed"}
  /\ meshSetting \in {"absent", "untimed", "timed"}
  /\ loops \in SUBSET {"discovery", "beat", "monitor"}
  /\ monitorAt \in {"tick", "status", "nested"}

PeersTyped ==
  /\ apiRegistered \in P2PRegs \cup {NoP2PReg}
  /\ peer \in P2PRegs \cup {NoP2PReg} /\ reported \in P2PRegs \cup {NoP2PReg}

FlagsTyped ==
  /\ {smoke, apiServing, apiRetired, relayAnswers, ctxDone, writing} \subseteq BOOLEAN
  /\ {iceOpen, quicOpen, meshOpen, l3Ready, meshHasPeers} \subseteq BOOLEAN

\* They are the type invariant, now and after a step.
LEMMA P2PTypeParts == P2PTypeOK <=> PlacesTyped /\ PeersTyped /\ FlagsTyped
BY DEF P2PTypeOK, PlacesTyped, PeersTyped, FlagsTyped

\* The same of the state that a step leads to.
LEMMA P2PTypePartsLater == ASSUME PlacesTyped', PeersTyped', FlagsTyped' PROVE P2PTypeOK'
BY DEF P2PTypeOK, PlacesTyped, PeersTyped, FlagsTyped

\* The state in which a command or another program makes the manager.
LEMMA P2PInitInv == P2PInit => P2PInv
BY P2PAssumption
   DEF P2PInit, Api!Init, P2PInv, P2PTypeOK, ApiIsUsedOnce, StopHoldsTheMutex, Reading,
       BeatsNameAPeer, StartIsNotSpoilt, StopIsFinal

\* The steps of Start, and of the retries around it, keep the types.
LEMMA StartTypes ==
  ASSUME P2PInv,
         \/ RunP2P \/ RunGiven \/ ApiRegisters \/ ApiStart \/ InitializeICE \/ ConnectToRelay
         \/ ExchangeICECredentials \/ ApplyWireGuardConfig \/ StartMesh \/ StartLoops
         \/ SmokeDeadline
  PROVE  P2PTypeOK'
<1> USE P2PAssumption
    DEF RunP2P, RunGiven, ExtractP2PConfigFromToken, ApiRegisters, Api!Register,
        ApiStart, Api!Serve, AfterApi, InitializeICE,
        AgentOutcomes, ConnectToRelay, ExchangeICECredentials, ApplyWireGuardConfig,
        GetWireGuardConfig, StartMesh, MeshStarts, StartLoops, SmokeDeadline,
        p2pFixed, p2pApi, p2pParts, p2pKnown
<1>1. PlacesTyped /\ PeersTyped /\ FlagsTyped
  BY P2PTypeParts DEF P2PInv
<1>2. PlacesTyped'
  <2>1. loops' \in {loops, loops \cup {"monitor"}, loops \cup {"discovery", "beat"}}
    OBVIOUS
  <2>2. loops' \in SUBSET {"discovery", "beat", "monitor"}
    BY <1>1, <2>1 DEF PlacesTyped
  <2>3. /\ meshSetting' \in {"absent", "untimed", "timed"}
        /\ monitorAt' \in {"tick", "status", "nested"}
    BY <1>1 DEF PlacesTyped
  <2>4. mainAt' \in {"start", "registered", "ice", "quic", "signal", "overlay", "mesh", "loops",
                     "up", "failed"}
    OBVIOUS
  <2> QED BY <2>2, <2>3, <2>4 DEF PlacesTyped
<1>3. PeersTyped'
  BY <1>1 DEF PeersTyped
<1>4. FlagsTyped'
  BY <1>1 DEF FlagsTyped
<1> QED BY <1>2, <1>3, <1>4, P2PTypePartsLater

\* So do those of Stop,
LEMMA StopTypes ==
  ASSUME P2PInv,
         SmokeQUICDataPlane \/ StopAsks \/ StopCancels \/ StopApi \/ StopCloses
  PROVE  P2PTypeOK'
<1> USE P2PAssumption
    DEF SmokeQUICDataPlane, StopAsks, StopCancels, StopApi, Api!Retire, StopCloses, AgentStops,
        p2pFixed, p2pApi, p2pParts, p2pKnown
<1>1. PlacesTyped /\ PeersTyped /\ FlagsTyped
  BY P2PTypeParts DEF P2PInv
<1>2. PlacesTyped'
  BY <1>1 DEF PlacesTyped
<1>3. PeersTyped'
  BY <1>1 DEF PeersTyped
<1>4. FlagsTyped'
  BY <1>1 DEF FlagsTyped
<1> QED BY <1>2, <1>3, <1>4, P2PTypePartsLater

\* and those of the goroutines and of the relay.
LEMMA LoopsTypes ==
  ASSUME P2PInv,
         \/ DiscoverySeesContext \/ BeatSeesContext \/ MonitorSeesContext
         \/ MonitorReads \/ MonitorStep \/ ApiReregisters \/ SendHeartbeat \/ DiscoverPeers
         \/ P2PRelayTurns \/ UNCHANGED p2pVars
  PROVE  P2PTypeOK'
<1> USE P2PAssumption
    DEF DiscoverySeesContext, BeatSeesContext, MonitorSeesContext, SeesContext,
        MonitorReads, MonitorStep, MonitorReadsAgain, MonitorReports,
        ApiReregisters, Api!Register, SendHeartbeat, DiscoverPeers, P2PRelayTurns, p2pVars,
        p2pFixed, p2pApi, p2pParts, p2pKnown
<1>1. PlacesTyped /\ PeersTyped /\ FlagsTyped
  BY P2PTypeParts DEF P2PInv
<1>2. PlacesTyped'
  BY <1>1 DEF PlacesTyped
<1>3. PeersTyped'
  BY <1>1 DEF PeersTyped
<1>4. FlagsTyped'
  BY <1>1 DEF FlagsTyped
<1> QED BY <1>2, <1>3, <1>4, P2PTypePartsLater

\* Start gets as far as its control-plane manager does, which stays when the mesh fails.
LEMMA StartInv ==
  ASSUME P2PInv,
         \/ RunP2P \/ RunGiven \/ ApiRegisters \/ ApiStart \/ InitializeICE \/ ConnectToRelay
         \/ ExchangeICECredentials \/ ApplyWireGuardConfig \/ StartMesh \/ StartLoops
         \/ SmokeDeadline
  PROVE  P2PInv'
<1> USE P2PAssumption DEF p2pFixed, p2pApi, p2pParts, p2pKnown
<1>1. UNCHANGED <<writing, ctxDone, monitorAt>>
  BY DEF RunP2P, RunGiven, ApiRegisters, ApiStart, InitializeICE, ConnectToRelay,
         ExchangeICECredentials, ApplyWireGuardConfig, StartMesh, StartLoops, SmokeDeadline
<1>2. /\ mainAt \in {"idle", "start", "registered", "ice", "quic", "signal", "overlay", "mesh",
                    "loops"}
      /\ mainAt' \in {"start", "registered", "ice", "quic", "signal", "overlay", "mesh", "loops",
                      "up", "failed"}
  BY DEF RunP2P, RunGiven, ApiRegisters, ApiStart, AfterApi, InitializeICE, ConnectToRelay,
         ExchangeICECredentials, ApplyWireGuardConfig, StartMesh, StartLoops, SmokeDeadline
<1>3. StopHoldsTheMutex' /\ StopIsFinal'
  BY <1>1, <1>2 DEF P2PInv, StopHoldsTheMutex, Reading, StopIsFinal
<1>4. ApiIsUsedOnce' /\ BeatsNameAPeer'
  <2> USE DEF P2PInv, ApiIsUsedOnce, BeatsNameAPeer
  <2>1. CASE RunP2P \/ RunGiven
    BY <2>1 DEF RunP2P, RunGiven, ExtractP2PConfigFromToken
  <2>2. CASE ApiRegisters \/ ApiStart
    BY <2>2 DEF ApiRegisters, Api!Register, ApiStart, Api!Serve, AfterApi
  <2>3. CASE InitializeICE \/ ConnectToRelay
    BY <2>3 DEF InitializeICE, ConnectToRelay
  <2>4. CASE ExchangeICECredentials \/ ApplyWireGuardConfig
    BY <2>4 DEF ExchangeICECredentials, ApplyWireGuardConfig
  <2>5. CASE StartMesh \/ StartLoops \/ SmokeDeadline
    BY <2>5 DEF StartMesh, MeshStarts, StartLoops, SmokeDeadline
  <2> QED BY <2>1, <2>2, <2>3, <2>4, <2>5
<1>5. StartIsNotSpoilt'
  <2>1. CASE StartMesh
    <3>1. meshSetting \in {"absent", "untimed", "timed"}
      BY DEF P2PInv, P2PTypeOK
    <3> QED BY <2>1, <3>1 DEF StartMesh, MeshStarts, StartIsNotSpoilt
  <2>2. CASE RunP2P \/ RunGiven
    BY <2>2 DEF RunP2P, RunGiven, P2PInv, ApiIsUsedOnce, StartIsNotSpoilt
  <2>3. CASE ~(StartMesh \/ RunP2P \/ RunGiven)
    <3>1. mainAt' # "start"
      BY <2>3 DEF ApiRegisters, ApiStart, AfterApi, InitializeICE, ConnectToRelay,
                  ExchangeICECredentials, ApplyWireGuardConfig, StartLoops, SmokeDeadline
    <3> QED BY <3>1 DEF StartIsNotSpoilt
  <2> QED BY <2>1, <2>2, <2>3
<1> QED BY <1>3, <1>4, <1>5, StartTypes DEF P2PInv

\* Stop waits for the monitor to leave the mutex, and then retires and closes.
LEMMA StopInv ==
  ASSUME P2PInv,
         SmokeQUICDataPlane \/ StopAsks \/ StopCancels \/ StopApi \/ StopCloses
  PROVE  P2PInv'
<1> USE P2PAssumption
    DEF p2pFixed, p2pApi, p2pParts, p2pKnown, P2PInv, ApiIsUsedOnce, StopHoldsTheMutex,
        Reading, BeatsNameAPeer, StartIsNotSpoilt, StopIsFinal
<1>1. CASE SmokeQUICDataPlane
  BY <1>1, StopTypes DEF SmokeQUICDataPlane
<1>2. CASE StopAsks
  BY <1>2, StopTypes DEF StopAsks
<1>3. CASE StopCancels
  BY <1>3, StopTypes DEF StopCancels
<1>4. CASE StopApi
  BY <1>4, StopTypes DEF StopApi, Api!Retire
<1>5. CASE StopCloses
  BY <1>5, StopTypes DEF StopCloses
<1> QED BY <1>1, <1>2, <1>3, <1>4, <1>5

\* The goroutines and the relay leave Start and Stop where they are.
LEMMA LoopsInv ==
  ASSUME P2PInv,
         \/ DiscoverySeesContext \/ BeatSeesContext \/ MonitorSeesContext
         \/ MonitorReads \/ MonitorStep \/ ApiReregisters \/ SendHeartbeat \/ DiscoverPeers
         \/ P2PRelayTurns \/ UNCHANGED p2pVars
  PROVE  P2PInv'
<1> USE P2PAssumption
    DEF DiscoverySeesContext, BeatSeesContext, MonitorSeesContext, SeesContext,
        MonitorReads, MonitorStep, MonitorReadsAgain, MonitorReports,
        ApiReregisters, Api!Register, SendHeartbeat, DiscoverPeers, P2PRelayTurns, p2pVars,
        p2pFixed, p2pApi, p2pParts, p2pKnown
<1>1. ApiIsUsedOnce'
  BY DEF P2PInv, ApiIsUsedOnce
<1>2. StopHoldsTheMutex'
  BY DEF P2PInv, StopHoldsTheMutex, Reading
<1>3. BeatsNameAPeer'
  BY DEF P2PInv, ApiIsUsedOnce, BeatsNameAPeer
<1>4. StartIsNotSpoilt' /\ StopIsFinal'
  BY DEF P2PInv, ApiIsUsedOnce, StopHoldsTheMutex, StartIsNotSpoilt, StopIsFinal
<1> QED BY <1>1, <1>2, <1>3, <1>4, LoopsTypes DEF P2PInv

\* What follows from the three.
LEMMA P2PInvariance == P2PSpec => []P2PInv
<1>1. P2PInv /\ [P2PNext]_p2pVars => P2PInv'
  BY StartInv, StopInv, LoopsInv DEF P2PNext, MainStep
<1> QED BY <1>1, P2PInitInv, PTL DEF P2PSpec

\* The manager and its parts keep their types.
THEOREM P2PTypes == P2PSpec => []P2PTypeOK
BY P2PInvariance, PTL DEF P2PInv

\* Manager.Start under runP2P's retries: an attempt that an outage ends leaves the
\* control-plane manager as the next attempt needs it.
THEOREM StartsAreNotSpoilt == P2PSpec => []StartIsNotSpoilt
BY P2PInvariance, PTL DEF P2PInv

\* Manager.Stop: when it is over everything is down, for good, and while it closes
\* the parts nobody reads them.
THEOREM StopsAreFinal == P2PSpec => []StopIsFinal /\ []StopHoldsTheMutex
BY P2PInvariance, PTL DEF P2PInv

\* Manager, with its retries, its deferred Stop and its goroutines, takes the control-plane
\* manager for what ApiPromise says of it, which api.Manager keeps (ApiImplementsPromise):
\* it serves one life, and is registered whenever it does.
THEOREM ManagerUsesPromise == P2PSpec => Api!Spec /\ [](apiServing => apiRegistered \in P2PRegs)
<1>1. P2PInit => Api!Init
  BY DEF P2PInit
<1>2. [P2PNext]_p2pVars => [Api!Next]_p2pApi
  <2> SUFFICES ASSUME [P2PNext]_p2pVars, ~UNCHANGED p2pApi PROVE Api!Next
    OBVIOUS
  <2>1. ~UNCHANGED p2pVars
    BY DEF p2pVars
  <2>2. ApiRegisters \/ ApiStart \/ StopApi \/ ApiReregisters
    BY <2>1 DEF P2PNext, MainStep, MonitorStep, RunP2P, RunGiven, InitializeICE, ConnectToRelay,
       ExchangeICECredentials, ApplyWireGuardConfig, StartMesh, StartLoops, SmokeDeadline,
       SmokeQUICDataPlane, StopAsks, StopCancels, StopCloses, DiscoverySeesContext,
       BeatSeesContext, MonitorSeesContext, SeesContext, MonitorReads, MonitorReadsAgain,
       MonitorReports, SendHeartbeat, DiscoverPeers, P2PRelayTurns
  <2> QED BY <2>2 DEF ApiRegisters, ApiStart, StopApi, ApiReregisters, Api!Next
<1> DEFINE Registered == apiServing => apiRegistered \in P2PRegs
<1>3. Api!Init => Registered
  BY DEF Api!Init
<1>4. P2PTypeOK /\ Registered /\ [Api!Next]_p2pApi => Registered'
  BY DEF P2PTypeOK, p2pApi, Api!Next, Api!Register, Api!Serve, Api!Retire
<1>5. Api!Spec <=> Api!Init /\ [][Api!Next]_p2pApi
  BY DEF Api!Spec, p2pApi
<1> QED
  BY <1>1, <1>2, <1>3, <1>4, <1>5, P2PTypes, PTL DEF P2PSpec

-----------------------------------------------------------------------------
(* The commands that open a tunnel. *)

\* Only a command that has a client opens a link, and until it ends it is on its way
\* to the Close that it has deferred; it backs off only between two calls.
ClientIsClosed ==
  /\ commandAt \in Running => command \in Served
  /\ linkOpened => commandAt \in Running
  /\ backingOff => commandAt \in Attempts

\* The smoke test dials while it may, and not before the tunnel is there.
DialsAreCounted ==
  /\ commandAt \in {"typed"} \cup Attempts => smokeDial = 0
  /\ commandAt = "dial" => smokeDial < SmokeDials

\* Nobody has the client's mutex before a command runs or after it ended: one whose
\* client keeps it does not end.
MutexIsOfACommand == clientMu # "free" => commandAt \in Running

CommandInv == CommandTypeOK /\ ClientIsClosed /\ DialsAreCounted /\ MutexIsOfACommand

\* The calls with their retries.
LEMMA CallsInv ==
  ASSUME CommandInv, CallSucceeds \/ CallFails
  PROVE  CommandInv'
<1> USE CommandAssumption DEF CommandGoes, Served, Running, Attempts, commandCalls, commandClient
<1>1. CASE CallSucceeds
  <2>1. commandAt' \in Attempts \cup {"beat", "dial"} /\ UNCHANGED <<command, smokeDial>>
    BY <1>1 DEF CallSucceeds, NextCall
  <2>2. CommandTypeOK'
    BY <1>1, <2>1 DEF CallSucceeds, CommandInv, CommandTypeOK
  <2>3. ClientIsClosed'
    BY <1>1, <2>1 DEF CallSucceeds, CommandInv, ClientIsClosed
  <2>4. DialsAreCounted' /\ MutexIsOfACommand'
    BY <1>1, <2>1 DEF CallSucceeds, CommandInv, DialsAreCounted, MutexIsOfACommand
  <2> QED BY <2>2, <2>3, <2>4 DEF CommandInv
<1>2. ASSUME NEW code \in Codes, CallIsRefused(code) PROVE CommandInv'
  <2>1. currentRetry' \in 0..MaxRetries
    BY <1>2 DEF CallIsRefused, ShouldRetry, GetNextDelay, CommandInv, CommandTypeOK
  <2>2. CommandTypeOK'
    BY <1>2, <2>1 DEF CallIsRefused, CommandInv, CommandTypeOK
  <2>3. ClientIsClosed' /\ DialsAreCounted' /\ MutexIsOfACommand'
    BY <1>2 DEF CallIsRefused, CommandInv, ClientIsClosed, DialsAreCounted, MutexIsOfACommand
  <2> QED BY <2>2, <2>3 DEF CommandInv
<1> QED BY <1>1, <1>2 DEF CallFails

\* The smoke test stops dialling at its limit.
LEMMA SmokeInv ==
  ASSUME CommandInv, SmokeDialFails \/ SmokeDialSucceeds \/ SmokeEchoes
  PROVE  CommandInv'
<1> USE CommandAssumption
    DEF CommandGoes, Served, Running, Attempts, SmokeDialFails, SmokeDialSucceeds, SmokeEchoes,
        commandCalls, commandClient
<1>1. smokeDial' \in 0..SmokeDials /\ DialsAreCounted'
  BY DEF CommandInv, CommandTypeOK, DialsAreCounted
<1>2. CommandTypeOK'
  BY <1>1 DEF CommandInv, CommandTypeOK
<1>3. ClientIsClosed' /\ MutexIsOfACommand'
  BY DEF CommandInv, ClientIsClosed, MutexIsOfACommand
<1> QED BY <1>1, <1>2, <1>3 DEF CommandInv

\* The start, the waiting and the end, with the signal that brings it.
LEMMA RunInv ==
  ASSUME CommandInv,
         \/ BackoffEnds \/ BeatStarts \/ SignalTaken \/ SignalArrives \/ CommandStarts
         \/ ClientCloses \/ UNCHANGED commandVars
  PROVE  CommandInv'
<1> USE DEF CommandGoes, Served, Running, Attempts, BackoffEnds, BeatStarts, SignalTaken,
            SignalArrives, CommandStarts, ClientCloses, commandVars, commandCalls, commandClient
<1>1. CommandTypeOK'
  BY DEF CommandInv, CommandTypeOK
<1>2. ClientIsClosed'
  BY DEF CommandInv, CommandTypeOK, ClientIsClosed
<1>3. DialsAreCounted' /\ MutexIsOfACommand'
  BY DEF CommandInv, CommandTypeOK, DialsAreCounted, MutexIsOfACommand
<1> QED BY <1>1, <1>2, <1>3 DEF CommandInv

\* The beats, the reload and the relay leave the command where it is.
LEMMA MutexInv ==
  ASSUME CommandInv,
         HeartbeatBegins \/ HeartbeatEnds \/ ReloadDisconnects \/ RelayChanges
  PROVE  CommandInv'
<1> USE DEF HeartbeatBegins, HeartbeatEnds, HeartbeatIsAcknowledged, HeartbeatFails,
            ReloadDisconnects, RelayChanges, commandCalls
<1>1. CommandTypeOK'
  BY DEF CommandInv, CommandTypeOK
<1>2. ClientIsClosed' /\ DialsAreCounted'
  BY DEF CommandInv, ClientIsClosed, DialsAreCounted
<1>3. MutexIsOfACommand'
  BY DEF CommandInv, MutexIsOfACommand, Running
<1> QED BY <1>1, <1>2, <1>3 DEF CommandInv

\* The commands without a client have no link to close.
LEMMA AskingInv ==
  ASSUME CommandInv,
         \/ SessionStarts \/ SessionEnsures \/ SessionTicks
         \/ WireGuardConfig \/ WireGuardStatus \/ SignalKills
  PROVE  CommandInv'
<1> USE DEF CommandGoes, Served, Running, Attempts, Asking, commandCalls, commandClient
<1>1. PICK from \in {"typed"} \cup Asking, to \in {"exited"} \cup Asking : Moves(from, to)
  BY DEF SessionStarts, SessionEnsures, SessionTicks, WireGuardConfig, WireGuardStatus,
         SignalKills
<1>2. CommandTypeOK'
  BY <1>1 DEF Moves, CommandInv, CommandTypeOK
<1>3. ~linkOpened /\ ~backingOff /\ clientMu = "free"
  BY <1>1 DEF Moves, CommandInv, ClientIsClosed, MutexIsOfACommand
<1>4. ClientIsClosed' /\ DialsAreCounted' /\ MutexIsOfACommand'
  BY <1>1, <1>3 DEF Moves, ClientIsClosed, DialsAreCounted, MutexIsOfACommand
<1> QED BY <1>2, <1>4 DEF CommandInv

\* The command as it was typed.
LEMMA CommandInitInv == CommandInit => CommandInv
<1> SUFFICES ASSUME CommandInit PROVE CommandInv
  OBVIOUS
<1>1. 0 \in 0..MaxRetries /\ 0 \in 0..SmokeDials
  BY CommandAssumption
<1> QED
  BY <1>1, CommandAssumption
  DEF CommandInit, CommandInv, CommandTypeOK, ClientIsClosed, DialsAreCounted, MutexIsOfACommand,
      Running, Attempts

\* Every step of a command keeps the invariant.
LEMMA CommandStepInv == CommandInv /\ [CommandNext]_commandVars => CommandInv'
BY CallsInv, SmokeInv, RunInv, MutexInv, AskingInv DEF CommandNext, CommandStep

\* run, runTunnel and smokeTunnelBytes: whichever call fails, whenever the signal comes
\* and however the retries are spent, a command that has ended has closed its client,
\* and it never retries more often than the configuration allows.
THEOREM CommandsCloseTheirClient ==
  CommandSpec => []CommandTypeOK /\ [](commandAt = "exited" => ~linkOpened)
<1>1. CommandInv /\ [CommandNext]_commandVars => CommandInv'
  BY CommandStepInv
<1>2. CommandInv => CommandTypeOK /\ (commandAt = "exited" => ~linkOpened)
  BY DEF CommandInv, ClientIsClosed, Running, Attempts
<1> QED BY <1>1, <1>2, CommandInitInv, PTL DEF CommandSpec

\* run, runTunnel and SendHeartbeat: from an acknowledged beat on, or from the Disconnect
\* of a reload, Close never gets the mutex and the command never ends, whatever signals
\* come.  This is why CommandsEnd excuses it.
WedgedForGood ==
  [][clientMu = "wedged" => clientMu' = "wedged" /\ commandAt' # "exited"]_commandVars

THEOREM WedgedCommandsNeverEnd == CommandSpec => WedgedForGood
<1>1. CommandInv /\ [CommandNext]_commandVars
        => [clientMu = "wedged" => clientMu' = "wedged" /\ commandAt' # "exited"]_commandVars
  <2> SUFFICES ASSUME CommandInv, CommandNext, clientMu = "wedged"
               PROVE  clientMu' = "wedged" /\ commandAt' # "exited"
    OBVIOUS
  <2>1. clientMu' = "wedged"
    BY DEF CommandNext, CommandStep, CommandStarts, CallSucceeds, CallFails, CallIsRefused,
       BackoffEnds, BeatStarts, SmokeDialFails, SmokeDialSucceeds, SmokeEchoes, SignalTaken,
       ClientCloses, HeartbeatBegins, HeartbeatEnds, HeartbeatIsAcknowledged, HeartbeatFails,
       ReloadDisconnects, RelayChanges, SignalArrives, SessionStarts, SessionEnsures,
       SessionTicks, WireGuardConfig, WireGuardStatus, SignalKills, Moves, commandClient
  <2>2. MutexIsOfACommand'
    BY CommandStepInv DEF CommandInv
  <2> QED
    BY <2>1, <2>2 DEF MutexIsOfACommand, Running, Attempts
<1> QED
  BY <1>1, CommandStepInv, CommandInitInv, PTL DEF CommandSpec, WedgedForGood

=============================================================================
