----------------------------- MODULE ApiManager -----------------------------
(***************************************************************************)
(* The control-plane manager of pkg/api: registration with the relay, the  *)
(* heartbeat loop that Start spawns, and its re-registration after three   *)
(* failed beats.  The P2P manager calls Start and Stop; RegisterPeerWith   *)
(* may be called by anybody.                                               *)
(*                                                                         *)
(* A goroutine that waits for the relay is at one stage until the answer   *)
(* comes or cannot come: the three attempts of a request (client.go:238)   *)
(* leave it where it is.  The goroutine for the deprecated heartbeat path  *)
(* does nothing on its ticks and ends with the context; it is left out.    *)
(*                                                                         *)
(* A definition named Faulty... is the one after it with a plausible bug;  *)
(* no action uses it, and each breaks one property below.                  *)
(***************************************************************************)
EXTENDS Naturals

CONSTANTS
  Owner, Loop,           \* the goroutine that calls Start and Stop, and the loop
  Registrars,            \* goroutines that call RegisterPeerWith
  RegIds, NoReg,         \* registrations the relay has issued (a bound), and none
  RouteMonitoring        \* config.RouteMonitoringEnabled

ApiProcs == {Owner, Loop} \cup Registrars

ASSUME ApiAssumption ==
  /\ RegIds \subseteq Nat /\ RegIds # {}
  /\ NoReg \notin RegIds
  /\ Owner # Loop /\ Owner \notin Registrars /\ Loop \notin Registrars
  /\ RouteMonitoring \in BOOLEAN

VARIABLES
  apiLocked,             \* Stop holds Manager.mu over its request
  apiRunning,            \* Manager.running
  apiCancelled,          \* Manager.ctx is cancelled
  session,               \* Manager.sessionID is not empty
  ids,                   \* Manager.peerID and .relaySessionID
  apiAt,                 \* where each goroutine is
  held,                  \* the identifiers its request, or the answer to it, carries
  fails,                 \* the loop's consecutiveFailures
  relayUp, remembers,    \* the relay: it answers; the registrations it knows
  tokenGood              \* the token validates

apiEnv == <<relayUp, remembers, tokenGood>>
apiFlags == <<apiLocked, apiRunning, apiCancelled, session>>
apiVars == <<apiFlags, ids, apiAt, held, fails, apiEnv>>

Registrations == [peer : RegIds \cup {NoReg}, relay : RegIds \cup {NoReg}]
Issued(n) == [peer |-> n, relay |-> n]

\* The registrations that somebody can still present.
Named == UNION {{r.peer, r.relay} : r \in {ids} \cup {held[p] : p \in ApiProcs}}

\* The identifiers are random: the next unused one stands for any.
FreshIds == {n \in RegIds : n \notin Named /\ \A m \in RegIds : m < n => m \in Named}

ApiInit ==
  /\ apiLocked = FALSE /\ apiRunning = FALSE /\ apiCancelled = FALSE /\ session = FALSE
  /\ ids = Issued(NoReg)
  /\ apiAt = [p \in ApiProcs |-> "idle"]
  /\ held = [p \in ApiProcs |-> Issued(NoReg)]
  /\ fails = 0
  /\ relayUp = TRUE /\ remembers = {} /\ tokenGood = TRUE

-----------------------------------------------------------------------------
(* Registration, by Start, by RegisterPeerWith or by the loop. *)

RegisterPeerWith(p) ==
  /\ apiAt[p] = "idle"
  /\ apiAt' = [apiAt EXCEPT ![p] = "register"]
  /\ UNCHANGED <<apiFlags, ids, held, fails, apiEnv>>

RegisterAnswered(p) ==
  /\ apiAt[p] = "register" /\ relayUp /\ ~apiCancelled
  /\ \E n \in FreshIds :
       /\ held' = [held EXCEPT ![p] = Issued(n)]
       /\ remembers' = (remembers \cap Named) \cup {n}
  /\ apiAt' = [apiAt EXCEPT ![p] = "store"]
  /\ UNCHANGED <<apiFlags, ids, fails, relayUp, tokenGood>>

\* The loop forgets its failures whatever the registration's outcome.
RegisterFails(p) ==
  /\ apiAt[p] = "register"
  /\ ~relayUp \/ apiCancelled
  /\ apiAt' = [apiAt EXCEPT ![p] = IF p = Loop THEN "wait" ELSE "idle"]
  /\ fails' = IF p = Loop THEN 0 ELSE fails
  /\ UNCHANGED <<apiFlags, ids, held, apiEnv>>

AfterStore(p) ==
  CASE p = Owner -> "session" [] p = Loop -> "renew" [] OTHER -> "idle"

\* Keeps the relay's name for the session when it has one.
FaultyStoreIds(p) ==
  /\ apiAt[p] = "store" /\ ~apiLocked
  /\ ids' = [held[p] EXCEPT !.relay = IF ids.relay = NoReg THEN @ ELSE ids.relay]
  /\ held' = [held EXCEPT ![p] = Issued(NoReg)]
  /\ apiAt' = [apiAt EXCEPT ![p] = AfterStore(p)]
  /\ UNCHANGED <<apiFlags, fails, apiEnv>>

\* Both identifiers are stored in one section of the mutex.
StoreIds(p) ==
  /\ apiAt[p] = "store" /\ ~apiLocked
  /\ ids' = held[p]
  /\ held' = [held EXCEPT ![p] = Issued(NoReg)]
  /\ apiAt' = [apiAt EXCEPT ![p] = AfterStore(p)]
  /\ UNCHANGED <<apiFlags, fails, apiEnv>>

-----------------------------------------------------------------------------
(* Start and Stop. *)

\* A token that does not validate ends the call at once.
StartBegin ==
  /\ apiAt[Owner] = "idle" /\ ~apiLocked
  /\ ~apiRunning /\ tokenGood
  /\ apiAt' = [apiAt EXCEPT ![Owner] = "register"]
  /\ UNCHANGED <<apiFlags, ids, held, fails, apiEnv>>

NameSession ==
  /\ apiAt[Owner] = "session" /\ ~apiLocked
  /\ session' = TRUE
  /\ apiAt' = [apiAt EXCEPT ![Owner] = IF RouteMonitoring THEN "open" ELSE "spawn"]
  /\ UNCHANGED <<apiLocked, apiRunning, apiCancelled, ids, held, fails, apiEnv>>

\* The monitoring session is open, or it is not: the error is only logged.
OpenReturns(p) ==
  /\ apiAt[p] = "open"
  /\ apiAt' = [apiAt EXCEPT ![p] = IF p = Loop THEN "wait" ELSE "spawn"]
  /\ fails' = IF p = Loop THEN 0 ELSE fails
  /\ UNCHANGED <<apiFlags, ids, held, apiEnv>>

\* go m.startHeartbeat(), before the manager is running.
SpawnLoop ==
  /\ apiAt[Owner] = "spawn"
  /\ apiAt' = [apiAt EXCEPT ![Owner] = "run", ![Loop] = "wait"]
  /\ fails' = 0
  /\ UNCHANGED <<apiFlags, ids, held, apiEnv>>

MarkRunning ==
  /\ apiAt[Owner] = "run" /\ ~apiLocked
  /\ apiRunning' = TRUE
  /\ apiAt' = [apiAt EXCEPT ![Owner] = "idle"]
  /\ UNCHANGED <<apiLocked, apiCancelled, session, ids, held, fails, apiEnv>>

\* Leaves the context alone, so that a stopped manager could be started again.
FaultyStopEnds ==
  /\ apiAt[Owner] = "closing"
  /\ apiLocked' = FALSE
  /\ apiRunning' = FALSE
  /\ apiAt' = [apiAt EXCEPT ![Owner] = "idle"]
  /\ UNCHANGED <<apiCancelled, session, ids, held, fails, apiEnv>>

\* Stop keeps the mutex while it asks the relay to close the session.
StopBegin ==
  /\ apiAt[Owner] = "idle" /\ ~apiLocked /\ apiRunning
  /\ apiLocked' = TRUE
  /\ apiAt' = [apiAt EXCEPT ![Owner] = "closing"]
  /\ UNCHANGED <<apiRunning, apiCancelled, session, ids, held, fails, apiEnv>>

StopEnds ==
  /\ apiAt[Owner] = "closing"
  /\ apiLocked' = FALSE
  /\ apiCancelled' = TRUE /\ apiRunning' = FALSE
  /\ apiAt' = [apiAt EXCEPT ![Owner] = "idle"]
  /\ UNCHANGED <<session, ids, held, fails, apiEnv>>

-----------------------------------------------------------------------------
(* The heartbeat loop. *)

\* On a tick, sendHeartbeat reads both identifiers in one section.
BeatBegin ==
  /\ apiAt[Loop] = "wait" /\ ~apiLocked
  /\ held' = [held EXCEPT ![Loop] = ids]
  /\ apiAt' = [apiAt EXCEPT ![Loop] = "beat"]
  /\ UNCHANGED <<apiFlags, ids, fails, apiEnv>>

\* The relay takes a beat for a registration it remembers.
Accepted(r) == r.peer = r.relay /\ r.peer \in remembers

BeatAccepted ==
  /\ apiAt[Loop] = "beat" /\ relayUp /\ ~apiCancelled
  /\ Accepted(held[Loop])
  /\ held' = [held EXCEPT ![Loop] = Issued(NoReg)]
  /\ apiAt' = [apiAt EXCEPT ![Loop] = "wait"]
  /\ fails' = 0
  /\ UNCHANGED <<apiFlags, ids, apiEnv>>

\* The loop goes back to its ticker with an end of its failures.
LoopWaits(n) == apiAt' = [apiAt EXCEPT ![Loop] = "wait"] /\ fails' = n

\* Takes a registration that once succeeded for a good one.
FaultyReregister ==
  IF tokenGood /\ ids = Issued(NoReg)
  THEN apiAt' = [apiAt EXCEPT ![Loop] = "register"] /\ UNCHANGED fails
  ELSE LoopWaits(0)

\* registerPeer, which first validates the token.
Reregister ==
  IF tokenGood
  THEN apiAt' = [apiAt EXCEPT ![Loop] = "register"] /\ UNCHANGED fails
  ELSE LoopWaits(0)

\* The third failure in a row; the session is read without the mutex.
BeatFails ==
  /\ apiAt[Loop] = "beat"
  /\ ~relayUp \/ apiCancelled \/ ~Accepted(held[Loop])
  /\ held' = [held EXCEPT ![Loop] = Issued(NoReg)]
  /\ \/ fails + 1 < 3 /\ LoopWaits(fails + 1)
     \/ /\ fails + 1 >= 3 /\ RouteMonitoring /\ session
        /\ apiAt' = [apiAt EXCEPT ![Loop] = "close"]
        /\ UNCHANGED fails
     \/ fails + 1 >= 3 /\ ~(RouteMonitoring /\ session) /\ Reregister
  /\ UNCHANGED <<apiFlags, ids, apiEnv>>

\* The old monitoring session is closed, or it is not: the result is dropped.
SessionCloseReturns ==
  /\ apiAt[Loop] = "close"
  /\ Reregister
  /\ UNCHANGED <<apiFlags, ids, held, apiEnv>>

\* The new session's name is written without the mutex.
RenewSession ==
  /\ apiAt[Loop] = "renew"
  /\ session' = TRUE
  /\ IF RouteMonitoring
     THEN apiAt' = [apiAt EXCEPT ![Loop] = "open"] /\ UNCHANGED fails
     ELSE LoopWaits(0)
  /\ UNCHANGED <<apiLocked, apiRunning, apiCancelled, ids, held, apiEnv>>

LoopEnds ==
  /\ apiAt[Loop] = "wait" /\ apiCancelled
  /\ apiAt' = [apiAt EXCEPT ![Loop] = "ended"]
  /\ UNCHANGED <<apiFlags, ids, held, fails, apiEnv>>

-----------------------------------------------------------------------------
(* The relay and the clock. *)

RelayTurns ==
  /\ relayUp' = ~relayUp
  /\ UNCHANGED <<apiFlags, ids, apiAt, held, fails, remembers, tokenGood>>

\* The relay restarts, or has given a silent peer up.
RelayForgets ==
  /\ remembers # {}
  /\ remembers' = {}
  /\ UNCHANGED <<apiFlags, ids, apiAt, held, fails, relayUp, tokenGood>>

TokenExpires ==
  /\ tokenGood
  /\ tokenGood' = FALSE
  /\ UNCHANGED <<apiFlags, ids, apiAt, held, fails, relayUp, remembers>>

-----------------------------------------------------------------------------
OwnerStep ==
  \/ RegisterAnswered(Owner) \/ RegisterFails(Owner) \/ StoreIds(Owner)
  \/ NameSession \/ OpenReturns(Owner) \/ SpawnLoop \/ MarkRunning \/ StopEnds

LoopStep ==
  \/ BeatBegin \/ BeatAccepted \/ BeatFails \/ SessionCloseReturns
  \/ RegisterAnswered(Loop) \/ RegisterFails(Loop) \/ StoreIds(Loop)
  \/ RenewSession \/ OpenReturns(Loop) \/ LoopEnds

RegistrarStep(p) == RegisterAnswered(p) \/ RegisterFails(p) \/ StoreIds(p)

ApiNext ==
  \/ StartBegin \/ StopBegin \/ OwnerStep \/ LoopStep
  \/ \E p \in Registrars : RegisterPeerWith(p) \/ RegistrarStep(p)
  \/ RelayTurns \/ RelayForgets \/ TokenExpires

\* Requests have deadlines and the loop's ticker ticks.
ApiFairness ==
  /\ WF_apiVars(OwnerStep) /\ WF_apiVars(LoopStep)
  /\ \A p \in Registrars : WF_apiVars(RegistrarStep(p))

ApiSpec == ApiInit /\ [][ApiNext]_apiVars /\ ApiFairness

-----------------------------------------------------------------------------
(* Properties. *)

\* What the manager's fields and its goroutines may hold.
ApiTypeOK ==
  /\ apiLocked \in BOOLEAN /\ apiRunning \in BOOLEAN /\ apiCancelled \in BOOLEAN
  /\ session \in BOOLEAN
  /\ ids \in Registrations
  /\ apiAt \in [ApiProcs -> {"idle", "register", "store", "session", "open", "spawn", "run",
                             "closing", "wait", "beat", "close", "renew", "ended"}]
  /\ held \in [ApiProcs -> Registrations]
  /\ fails \in 0..2
  /\ relayUp \in BOOLEAN /\ remembers \in SUBSET RegIds /\ tokenGood \in BOOLEAN

\* A beat presents one registration, whole, though three goroutines register
\* at the same time: never one's peer with another's session.
OneRegistrationPerBeat ==
  apiAt[Loop] = "beat" => \E n \in RegIds : held[Loop] = Issued(n)

Beating == ~apiCancelled /\ apiAt[Loop] \notin {"idle", "ended"}

\* To its owner the manager is what ApiPromise says: one registration, whole, at
\* any time, and no service after a Stop.
Promise == INSTANCE ApiPromise WITH
  serving <- apiRunning, retired <- apiCancelled, registered <- ids.peer

ApiKeepsPromise == Promise!Spec

\* The loop survives every outage: once the relay answers and keeps what it is
\* told, and while the token validates, the manager ends up registered.
OutageHeals ==
  <>[](relayUp /\ tokenGood /\ Beating) /\ <>[][~RelayForgets]_apiVars
    => <>[]Accepted(ids)

=============================================================================
