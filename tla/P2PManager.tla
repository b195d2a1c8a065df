----------------------------- MODULE P2PManager -----------------------------
(***************************************************************************)
(* The P2P manager of pkg/p2p/manager.go under the command that runs it    *)
(* (runP2P of cmd/cloudbridge-client): a start that is retried through     *)
(* outages, the goroutines it leaves behind, and the stop that winds them  *)
(* and four other components down.  The control-plane manager is known by  *)
(* its promise only; the ICE agent and the QUIC connection by whether they *)
(* hold something that has to be closed.                                   *)
(*                                                                         *)
(* The QUIC listener never comes up, for want of a certificate, and        *)
(* ConnectToPeer never gets past waitForConnection, whose state is never   *)
(* Connected: the connections table stays empty and is left out.           *)
(*                                                                         *)
(* A definition named Faulty... is the one after it with a plausible bug;  *)
(* no action uses it, and each breaks one property below.                  *)
(***************************************************************************)
EXTENDS Naturals

CONSTANTS P2PRegs, NoP2PReg      \* registrations, and none

ASSUME P2PAssumption == NoP2PReg \notin P2PRegs

VARIABLES
  mainAt,                 \* the goroutine of runP2P
  smoke,                  \* --smoke: a deadline for the start, and no data plane
  meshSetting,            \* config.MeshConfig: "absent", "untimed" or "timed"
  apiServing, apiRetired, \* the control-plane manager, as promised
  apiRegistered,
  relayAnswers,           \* the relay's control plane can be reached
  ctxDone,                \* Manager.ctx is cancelled
  loops,                  \* the goroutines that run: "discovery", "beat", "monitor"
  monitorAt,              \* where MonitorL3OverlayHealth is with Manager.mu
  writing,                \* Stop has asked for Manager.mu: no reader gets in
  iceOpen, quicOpen, meshOpen,
  l3Ready,                \* what IsL3OverlayReady says: addresses and a configuration are known
  peer, reported,         \* the peer Start found registered, and that of the last beat
  meshHasPeers            \* discovery has put peers into the mesh

p2pKnown == <<peer, reported, meshHasPeers>>
p2pParts == <<iceOpen, quicOpen, meshOpen, l3Ready>>
p2pApi == <<apiServing, apiRetired, apiRegistered>>
p2pFixed == <<smoke, meshSetting>>
p2pVars == <<mainAt, p2pFixed, p2pApi, relayAnswers, ctxDone, loops, monitorAt, writing,
             p2pParts, p2pKnown>>

Api == INSTANCE ApiPromise WITH
  serving <- apiServing, retired <- apiRetired, registered <- apiRegistered,
  RegIds <- P2PRegs, NoReg <- NoP2PReg

P2PInit ==
  /\ mainAt = "idle"
  /\ smoke \in BOOLEAN /\ meshSetting = "absent"
  /\ Api!Init
  /\ relayAnswers = TRUE
  /\ ctxDone = FALSE
  /\ loops = {} /\ monitorAt = "tick" /\ writing = FALSE
  /\ iceOpen = FALSE /\ quicOpen = FALSE /\ meshOpen = FALSE /\ l3Ready = FALSE
  /\ peer = NoP2PReg /\ reported = NoP2PReg /\ meshHasPeers = FALSE

-----------------------------------------------------------------------------
(* Start, and the retries around it. *)

\* A mesh that a token asks for has no intervals: the token's are not read, and
\* FillDefaults fills in none.
ExtractP2PConfigFromToken(asksForMesh) == IF asksForMesh THEN "untimed" ELSE "absent"

\* An invalid token ends the command.
RunP2P ==
  /\ mainAt = "idle"
  /\ \/ mainAt' = "failed" /\ UNCHANGED meshSetting
     \/ mainAt' = "start"
        /\ \E asked \in BOOLEAN : meshSetting' = ExtractP2PConfigFromToken(asked)
  /\ UNCHANGED <<smoke, p2pApi, relayAnswers, ctxDone, loops, monitorAt, writing,
                 p2pParts, p2pKnown>>

\* Another program that uses the package brings a whole configuration.
RunGiven ==
  /\ mainAt = "idle"
  /\ mainAt' = "start" /\ meshSetting' = "timed"
  /\ UNCHANGED <<smoke, p2pApi, relayAnswers, ctxDone, loops, monitorAt, writing,
                 p2pParts, p2pKnown>>

AfterApi == IF smoke THEN "loops" ELSE "ice"

\* Counts a manager as serving before the peer is registered.
FaultyApiRegisters ==
  /\ mainAt = "start"
  /\ ~apiServing /\ ~apiRetired
  /\ apiServing' = TRUE /\ UNCHANGED apiRetired
  /\ IF relayAnswers
     THEN apiRegistered' \in P2PRegs \ {apiRegistered} /\ mainAt' = AfterApi
     ELSE UNCHANGED <<mainAt, apiRegistered>>
  /\ UNCHANGED <<p2pFixed, relayAnswers, ctxDone, loops, monitorAt, writing, p2pParts,
                 p2pKnown>>

\* apiManager.Start registers the peer first; when it fails, or is running already,
\* runP2P backs off and calls again.
ApiRegisters ==
  /\ mainAt = "start" /\ relayAnswers
  /\ ~apiServing /\ ~apiRetired
  /\ Api!Register
  /\ mainAt' = "registered"
  /\ UNCHANGED <<p2pFixed, relayAnswers, ctxDone, loops, monitorAt, writing, p2pParts,
                 p2pKnown>>

\* Nothing else in it fails, and the P2P manager copies the identity it finds.  It asks for
\* peer and session one after the other; here a registration is copied whole.
ApiStart ==
  /\ mainAt = "registered"
  /\ Api!Serve
  /\ peer' = apiRegistered
  /\ mainAt' = AfterApi
  /\ UNCHANGED <<p2pFixed, relayAnswers, ctxDone, loops, monitorAt, writing, p2pParts,
                 reported, meshHasPeers>>

\* ICEAgent.Start and GatherCandidates: a bad STUN address leaves no agent, while
\* one that cannot gather, or not within 15 s, stays.
AgentOutcomes == [agent : {FALSE}, gathered : {FALSE}] \cup [agent : {TRUE}, gathered : BOOLEAN]

\* Without candidates the start goes on: the relay is there to help.
InitializeICE ==
  /\ mainAt = "ice"
  /\ \E outcome \in AgentOutcomes : iceOpen' = outcome.agent
  /\ mainAt' = "quic"
  /\ UNCHANGED <<p2pFixed, p2pApi, relayAnswers, ctxDone, loops, monitorAt, writing,
                 quicOpen, meshOpen, l3Ready, p2pKnown>>

\* connectToRelayServer: a connection whose authentication fails is left open.
ConnectToRelay ==
  /\ mainAt = "quic"
  /\ quicOpen' \in BOOLEAN
  /\ mainAt' = "signal"
  /\ UNCHANGED <<p2pFixed, p2pApi, relayAnswers, ctxDone, loops, monitorAt, writing,
                 iceOpen, meshOpen, l3Ready, p2pKnown>>

\* The relay's credentials are kept for the status alone; most relays have none.
ExchangeICECredentials ==
  /\ mainAt = "signal"
  /\ mainAt' = "overlay"
  /\ UNCHANGED <<p2pFixed, p2pApi, relayAnswers, ctxDone, loops, monitorAt, writing,
                 p2pParts, p2pKnown>>

\* GetWireGuardConfig stores what the relay sends, before anything is done with it.
GetWireGuardConfig == l3Ready' \in {l3Ready, l3Ready \/ relayAnswers}

\* The interface never comes up: wg-quick is handed a file that holds the path of
\* the configuration instead of the configuration.  UpdateMeshWithWireGuard, which
\* would come next, is never reached.
ApplyWireGuardConfig ==
  /\ mainAt = "overlay"
  /\ GetWireGuardConfig
  /\ mainAt' = "mesh"
  /\ UNCHANGED <<p2pFixed, p2pApi, relayAnswers, ctxDone, loops, monitorAt, writing,
                 iceOpen, quicOpen, meshOpen, p2pKnown>>

\* validateConfig wants all three intervals to be positive.
MeshStarts == meshSetting = "timed"

\* A mesh that does not start ends Start with an error; the control plane keeps serving.
StartMesh ==
  /\ mainAt = "mesh"
  /\ meshOpen' = MeshStarts
  /\ IF meshSetting # "absent" /\ ~MeshStarts
     THEN mainAt' = "start" /\ UNCHANGED loops
     ELSE mainAt' = "loops" /\ loops' = loops \cup {"monitor"}
  /\ UNCHANGED <<p2pFixed, p2pApi, relayAnswers, ctxDone, monitorAt, writing,
                 iceOpen, quicOpen, l3Ready, p2pKnown>>

StartLoops ==
  /\ mainAt = "loops"
  /\ loops' = loops \cup {"discovery", "beat"}
  /\ mainAt' = "up"
  /\ UNCHANGED <<p2pFixed, p2pApi, relayAnswers, ctxDone, monitorAt, writing, p2pParts,
                 p2pKnown>>

\* --smoke gives the start up at its deadline: the process ends.
SmokeDeadline ==
  /\ mainAt = "start" /\ smoke
  /\ mainAt' = "failed"
  /\ UNCHANGED <<p2pFixed, p2pApi, relayAnswers, ctxDone, loops, monitorAt, writing,
                 p2pParts, p2pKnown>>

-----------------------------------------------------------------------------
(* Stop.  Manager.mu is a RWMutex: a writer that waits keeps new readers   *)
(* out, and has the lock when the last reader is gone.                     *)

Reading == monitorAt \in {"status", "nested"}

\* With --smoke-data one connection to the relay is dialled, used and closed again.
SmokeQUICDataPlane ==
  /\ mainAt = "up" /\ smoke
  /\ mainAt' = "tested"
  /\ UNCHANGED <<p2pFixed, p2pApi, relayAnswers, ctxDone, loops, monitorAt, writing,
                 p2pParts, p2pKnown>>

\* The smoke test is over, or a signal arrives: the deferred Stop.
StopAsks ==
  /\ mainAt \in {"up", "tested"}
  /\ writing' = TRUE
  /\ mainAt' = "cancel"
  /\ UNCHANGED <<p2pFixed, p2pApi, relayAnswers, ctxDone, loops, monitorAt, p2pParts,
                 p2pKnown>>

StopCancels ==
  /\ mainAt = "cancel" /\ ~Reading
  /\ ctxDone' = TRUE
  /\ mainAt' = "api"
  /\ UNCHANGED <<p2pFixed, p2pApi, relayAnswers, loops, monitorAt, writing, p2pParts,
                 p2pKnown>>

StopApi ==
  /\ mainAt = "api"
  /\ Api!Retire
  /\ mainAt' = "close"
  /\ UNCHANGED <<p2pFixed, relayAnswers, ctxDone, loops, monitorAt, writing, p2pParts,
                 p2pKnown>>

\* Gives up at the first part that does not close.
FaultyStopCloses ==
  /\ mainAt = "close"
  /\ quicOpen' \in {FALSE, quicOpen} /\ UNCHANGED l3Ready
  /\ iceOpen' = (quicOpen' /\ iceOpen) /\ meshOpen' = (quicOpen' /\ meshOpen)
  /\ writing' = FALSE
  /\ mainAt' = "done"
  /\ UNCHANGED <<p2pFixed, p2pApi, relayAnswers, ctxDone, loops, monitorAt, p2pKnown>>

\* ICEAgent.Stop forgets the agent only when its close succeeds.
AgentStops == iceOpen' \in {FALSE, iceOpen}

\* Every part is closed whatever the others answer; QUIC drops its connection
\* even when closing it fails, and only the ICE agent survives an error.
StopCloses ==
  /\ mainAt = "close"
  /\ quicOpen' = FALSE /\ meshOpen' = FALSE /\ UNCHANGED l3Ready
  /\ AgentStops
  /\ writing' = FALSE
  /\ mainAt' = "done"
  /\ UNCHANGED <<p2pFixed, p2pApi, relayAnswers, ctxDone, loops, monitorAt, p2pKnown>>

-----------------------------------------------------------------------------
(* The goroutines. *)

\* The manager of the control plane registers the peer anew.
ApiReregisters ==
  /\ apiServing /\ relayAnswers
  /\ Api!Register
  /\ UNCHANGED <<mainAt, p2pFixed, relayAnswers, ctxDone, loops, monitorAt, writing,
                 p2pParts, p2pKnown>>

\* A beat goes out once, with a deadline and the manager's context: it is not retried.
BeatReaches == relayAnswers /\ ~ctxDone

\* The identity that Start copied, whatever the control plane has by now.
SendHeartbeat ==
  /\ "beat" \in loops /\ BeatReaches
  /\ reported' = peer
  /\ UNCHANGED <<mainAt, p2pFixed, p2pApi, relayAnswers, ctxDone, loops, monitorAt,
                 writing, p2pParts, peer, meshHasPeers>>

\* The peers it lists go into the mesh, if there is one.
DiscoverPeers ==
  /\ "discovery" \in loops /\ relayAnswers /\ ~apiRetired
  /\ meshHasPeers' \in {meshHasPeers, meshHasPeers \/ meshOpen}
  /\ UNCHANGED <<mainAt, p2pFixed, p2pApi, relayAnswers, ctxDone, loops, monitorAt,
                 writing, p2pParts, peer, reported>>

SeesContext(l) ==
  /\ l \in loops /\ ctxDone
  /\ loops' = loops \ {l}
  /\ UNCHANGED <<mainAt, p2pFixed, p2pApi, relayAnswers, ctxDone, monitorAt, writing,
                 p2pParts, p2pKnown>>

\* Their requests are made with the context, or have deadlines.
DiscoverySeesContext == SeesContext("discovery")
BeatSeesContext == SeesContext("beat")
MonitorSeesContext == monitorAt = "tick" /\ SeesContext("monitor")

\* The ticks are 30 s apart, so that Start is over before the first.
MonitorReads ==
  /\ "monitor" \in loops /\ mainAt # "loops"
  /\ monitorAt = "tick" /\ ~writing
  /\ monitorAt' = "status"
  /\ UNCHANGED <<mainAt, p2pFixed, p2pApi, relayAnswers, ctxDone, loops, writing,
                 p2pParts, p2pKnown>>

\* GetL3OverlayStatus calls IsL3OverlayReady, which takes the read lock again.
MonitorReadsAgain ==
  /\ monitorAt = "status" /\ ~writing
  /\ monitorAt' = "nested"
  /\ UNCHANGED <<mainAt, p2pFixed, p2pApi, relayAnswers, ctxDone, loops, writing,
                 p2pParts, p2pKnown>>

MonitorReports ==
  /\ monitorAt = "nested"
  /\ monitorAt' = "tick"
  /\ UNCHANGED <<mainAt, p2pFixed, p2pApi, relayAnswers, ctxDone, loops, writing,
                 p2pParts, p2pKnown>>

P2PRelayTurns ==
  /\ relayAnswers' = ~relayAnswers
  /\ UNCHANGED <<mainAt, p2pFixed, p2pApi, ctxDone, loops, monitorAt, writing,
                 p2pParts, p2pKnown>>

-----------------------------------------------------------------------------
MainStep ==
  \/ ApiRegisters \/ ApiStart \/ InitializeICE \/ ConnectToRelay \/ ExchangeICECredentials
  \/ ApplyWireGuardConfig \/ StartMesh \/ StartLoops
  \/ StopCancels \/ StopApi \/ StopCloses

MonitorStep == MonitorReadsAgain \/ MonitorReports

P2PNext ==
  \/ RunP2P \/ RunGiven \/ MainStep \/ SmokeDeadline \/ SmokeQUICDataPlane \/ StopAsks
  \/ DiscoverySeesContext \/ BeatSeesContext \/ MonitorSeesContext
  \/ MonitorReads \/ MonitorStep
  \/ ApiReregisters \/ SendHeartbeat \/ DiscoverPeers
  \/ P2PRelayTurns

\* The retries never end; a cancelled context is there at once and the next
\* tick, of 10 s or more, is not.
P2PFairness ==
  /\ WF_p2pVars(MainStep) /\ WF_p2pVars(MonitorStep)
  /\ WF_p2pVars(DiscoverySeesContext) /\ WF_p2pVars(BeatSeesContext)
  /\ SF_p2pVars(MonitorSeesContext)

P2PSpec == P2PInit /\ [][P2PNext]_p2pVars /\ P2PFairness

-----------------------------------------------------------------------------
(* Properties. *)

\* What the manager and its parts may hold.
P2PTypeOK ==
  /\ mainAt \in {"idle", "start", "registered", "ice", "quic", "signal", "overlay", "mesh",
                 "loops", "up", "tested", "cancel", "api", "close", "done", "failed"}
  /\ smoke \in BOOLEAN /\ meshSetting \in {"absent", "untimed", "timed"}
  /\ apiServing \in BOOLEAN /\ apiRetired \in BOOLEAN
  /\ apiRegistered \in P2PRegs \cup {NoP2PReg}
  /\ relayAnswers \in BOOLEAN /\ ctxDone \in BOOLEAN /\ writing \in BOOLEAN
  /\ loops \in SUBSET {"discovery", "beat", "monitor"}
  /\ monitorAt \in {"tick", "status", "nested"}
  /\ iceOpen \in BOOLEAN /\ quicOpen \in BOOLEAN /\ meshOpen \in BOOLEAN
  /\ l3Ready \in BOOLEAN /\ meshHasPeers \in BOOLEAN
  /\ peer \in P2PRegs \cup {NoP2PReg} /\ reported \in P2PRegs \cup {NoP2PReg}

\* Each holds the mutex and waits for the other: Stop for the monitor's first
\* read lock to go, the monitor for its second.
StatusBlocksStop == mainAt = "cancel" /\ monitorAt = "status"

WoundDown ==
  /\ mainAt = "done" /\ loops = {}
  /\ apiRetired /\ ~quicOpen /\ ~meshOpen

\* However many attempts of Start an outage ended, the next one finds a control-plane
\* manager that can start, unless a mesh without intervals has spoilt it.
StartIsNotSpoilt ==
  mainAt = "start" => (~apiServing /\ ~apiRetired) \/ meshSetting = "untimed"

\* When Stop is over nothing is up, and nothing comes up again: whatever the attempts
\* of Start left open, and whatever the goroutines that see the context late still do.
StopIsFinal ==
  mainAt = "done" => ctxDone /\ apiRetired /\ ~apiServing /\ ~quicOpen /\ ~meshOpen

\* A stop ends every goroutine and closes every part, whatever was up and
\* whatever fails on the way, but for the one deadlock.
StopWindsDown == mainAt = "cancel" ~> WoundDown \/ StatusBlocksStop

\* A start is retried until the outage is over, and the manager comes up: no failed
\* attempt spoils the next.  It never does with a mesh whose intervals are missing,
\* which fails once the control plane serves, and then serves already.
StartOutlivesOutages ==
  <>[]relayAnswers /\ [](meshSetting # "untimed")
    => (mainAt = "start" ~> mainAt \in {"up", "failed"})

=============================================================================
