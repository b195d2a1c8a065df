---------------------------- MODULE CommandLine ----------------------------
(***************************************************************************)
(* The commands of cmd/cloudbridge-client that open a tunnel: the bare     *)
(* command (run) and "tunnel" (runTunnel).  Each connects, authenticates   *)
(* and creates the tunnel, with retries out of one strategy that belongs   *)
(* to the client, and then serves until a signal, or tries the tunnel and  *)
(* ends.  The client is known by the outcome of its calls and by its       *)
(* mutex, which the heartbeat and a reload that reconnects take as well,   *)
(* and may keep for good.                                                  *)
(*                                                                         *)
(* Signals go to a channel that is read while serving only.                *)
(*                                                                         *)
(* "session" and the two "wireguard" commands set no handler: a signal     *)
(* ends them at once.  They have no client to close, and a session leaves  *)
(* its path to the end of the process.                                     *)
(*                                                                         *)
(* A definition named Faulty... is the one after it with a plausible bug;  *)
(* no action uses it, and each breaks one property below.                  *)
(***************************************************************************)
EXTENDS Naturals

CONSTANTS
  Transports,            \* what --transport may say: "grpc", "json"
  ConfigGiven,           \* --config names a file, which is then watched
  MaxRetries,            \* rate_limiting.max_retries
  SmokeDials             \* what smokeTunnelBytes allows: 10

ASSUME CommandAssumption ==
  /\ Transports \subseteq {"grpc", "json"} /\ ConfigGiven \in BOOLEAN
  /\ MaxRetries \in Nat /\ SmokeDials \in Nat \ {0}

VARIABLES
  command,               \* "run", "tunnel" or, with --smoke, "smoke"; "session",
                         \* "wireguard config" or "wireguard status"
  commandAt,             \* the call it is in, or what it does besides
  backingOff,            \* it sleeps before the next attempt
  currentRetry,          \* RetryStrategy.CurrentRetry
  smokeDial,             \* the attempts of smokeTunnelBytes
  signalled,             \* a signal waits in the channel
  linkOpened,            \* Client.connected
  transport,             \* --transport
  clientMu,              \* Client.mu: "free", a "beat" has it, or somebody who holds it is
                         \* "wedged", waiting for it
  pulse,                 \* the heartbeat loop runs
  relaySilent            \* no answer comes for now

commandClient == <<transport, clientMu, pulse, relaySilent>>
commandCalls == <<backingOff, currentRetry, smokeDial>>
commandVars == <<command, commandAt, commandCalls, signalled, linkOpened, commandClient>>

Attempts == {"connect", "authenticate", "create"}
Served == {"run", "tunnel", "smoke"}
Commands == Served \cup {"session", "wireguard config", "wireguard status"}
Running == Attempts \cup {"beat", "serve", "dial", "echo", "close"}
Asking == {"ensure", "tick", "ask"}

CommandInit ==
  /\ command \in Commands /\ commandAt = "typed"
  /\ backingOff = FALSE /\ currentRetry = 0 /\ smokeDial = 0
  /\ signalled = FALSE /\ linkOpened = FALSE
  /\ transport \in Transports /\ clientMu = "free" /\ pulse = FALSE /\ relaySilent = FALSE

CommandGoes(stage) == commandAt' = stage

-----------------------------------------------------------------------------
\* The configuration and the client are there.  What validateFlags refuses ends
\* run before Close is deferred, and runTunnel after.
CommandStarts ==
  /\ commandAt = "typed" /\ command \in Served
  /\ \/ CommandGoes("connect")
     \/ CommandGoes(IF command = "run" THEN "exited" ELSE "close")
  /\ UNCHANGED <<command, commandCalls, signalled, linkOpened, commandClient>>

NextCall ==
  CASE commandAt = "connect" -> "authenticate"
    [] commandAt = "authenticate" -> "create"
    [] commandAt = "create" -> IF command = "smoke" THEN "dial" ELSE "beat"

\* No deadline ends it: what the JSON mode reads from its socket, and the stream that a
\* login for a mesh opens to the relay.
Untimed(call) == transport = "json" \/ call = "authenticate"

\* Whoever waits now will wait for as long as the relay is silent.
Unheard ==
  /\ relaySilent
  /\ \/ commandAt \in Attempts /\ ~backingOff /\ Untimed(commandAt)
     \/ clientMu = "beat" /\ transport = "json"

\* All of them take the mutex before they return.
CallSucceeds ==
  /\ commandAt \in Attempts /\ ~backingOff
  /\ ~relaySilent /\ clientMu = "free"
  /\ CommandGoes(NextCall)
  /\ linkOpened' = TRUE
  /\ UNCHANGED <<command, commandCalls, signalled, commandClient>>

\* What HandleError makes of an error: a rate limit and an unavailable server
\* may be retried, all it does not recognise may not.
IsRetryable(code) == code \in {"rate_limit_exceeded", "server_unavailable"}
Codes == {"rate_limit_exceeded", "server_unavailable", "unknown_message_type"}

ShouldRetry(code) == currentRetry < MaxRetries /\ IsRetryable(code)

\* Computes the delay and does not count the attempt.
FaultyGetNextDelay == UNCHANGED currentRetry

GetNextDelay == currentRetry' = currentRetry + 1

\* The relay's refusal, a deadline or a broken connection; a call that has given the mutex
\* up before it waits can fail while somebody keeps it.
CallIsRefused(code) ==
  /\ commandAt \in Attempts /\ ~backingOff
  /\ IF ShouldRetry(code)
     THEN GetNextDelay /\ backingOff' = TRUE /\ UNCHANGED commandAt
     ELSE CommandGoes("close") /\ UNCHANGED <<backingOff, currentRetry>>
  /\ UNCHANGED <<command, smokeDial, signalled, linkOpened, commandClient>>

BackoffEnds ==
  /\ backingOff
  /\ backingOff' = FALSE
  /\ UNCHANGED <<command, commandAt, currentRetry, smokeDial, signalled, linkOpened, commandClient>>

\* StartHeartbeat: it refuses a manager that runs, and this one has never been started.
BeatStarts ==
  /\ commandAt = "beat"
  /\ CommandGoes("serve") /\ pulse' = TRUE
  /\ UNCHANGED <<command, commandCalls, signalled, linkOpened, transport, clientMu, relaySilent>>

-----------------------------------------------------------------------------
(* What else takes the client's mutex: the beats, from the first tick to   *)
(* the Close, and the reload of a configuration whose TLS settings changed. *)

HeartbeatBegins ==
  /\ pulse /\ commandAt \in {"serve", "close"} /\ clientMu = "free"
  /\ clientMu' = "beat"
  /\ UNCHANGED <<command, commandAt, commandCalls, signalled, linkOpened, transport, pulse,
                 relaySilent>>

\* SendHeartbeat locks the mutex again to record the time, in both modes.
HeartbeatIsAcknowledged ==
  /\ clientMu = "beat" /\ ~relaySilent
  /\ clientMu' = "wedged"
  /\ UNCHANGED <<command, commandAt, commandCalls, signalled, linkOpened, transport, pulse,
                 relaySilent>>

\* At its limit of failures the loop ends.
HeartbeatFails ==
  /\ clientMu = "beat"
  /\ clientMu' = "free" /\ pulse' \in BOOLEAN
  /\ UNCHANGED <<command, commandAt, commandCalls, signalled, linkOpened, transport, relaySilent>>

\* The worker's Disconnect reports its event with the mutex held, and the event takes it.
ReloadDisconnects ==
  /\ ConfigGiven /\ commandAt \in Running /\ linkOpened /\ clientMu = "free"
  /\ clientMu' = "wedged" /\ linkOpened' = FALSE
  /\ UNCHANGED <<command, commandAt, commandCalls, signalled, transport, pulse, relaySilent>>

RelayChanges ==
  /\ commandAt \in Running
  /\ relaySilent' = ~relaySilent
  /\ UNCHANGED <<command, commandAt, commandCalls, signalled, linkOpened, transport, clientMu,
                 pulse>>

-----------------------------------------------------------------------------
(* smokeTunnelBytes: the first dial that succeeds decides. *)

SmokeDialFails ==
  /\ commandAt = "dial"
  /\ smokeDial' = smokeDial + 1
  /\ CommandGoes(IF smokeDial + 1 < SmokeDials THEN "dial" ELSE "close")
  /\ UNCHANGED <<command, backingOff, currentRetry, signalled, linkOpened, commandClient>>

SmokeDialSucceeds ==
  /\ commandAt = "dial"
  /\ CommandGoes("echo")
  /\ UNCHANGED <<command, commandCalls, signalled, linkOpened, commandClient>>

\* The bytes come back, or the 5 seconds are over.
SmokeEchoes ==
  /\ commandAt = "echo"
  /\ CommandGoes("close")
  /\ UNCHANGED <<command, commandCalls, signalled, linkOpened, commandClient>>

-----------------------------------------------------------------------------
(* The commands without a client. *)

Moves(from, to) ==
  /\ commandAt = from /\ CommandGoes(to)
  /\ UNCHANGED <<command, commandCalls, signalled, linkOpened, commandClient>>

\* Without --smoke or a token it ends here.
SessionStarts == command = "session" /\ (Moves("typed", "ensure") \/ Moves("typed", "exited"))

\* RunSessionSmoke: one Ensure and one health tick within 45 s, whose verdict
\* is not looked at.
SessionEnsures == Moves("ensure", "tick") \/ Moves("ensure", "exited")
SessionTicks == Moves("tick", "exited")

\* The manager that is made to ask has never been started.  It has no peer id, and
\* GetWireGuardConfig fails for want of it, once the token is accepted.
WireGuardConfig ==
  /\ command = "wireguard config"
  /\ Moves("typed", "ask") \/ Moves("typed", "exited") \/ Moves("ask", "exited")

\* GetStatus of a manager that has never been started.
WireGuardStatus ==
  /\ command = "wireguard status"
  /\ Moves("typed", "ask") \/ Moves("typed", "exited") \/ Moves("ask", "exited")

\* Nothing is deferred that would run.
SignalKills == \E stage \in Asking : Moves(stage, "exited")

-----------------------------------------------------------------------------
SignalArrives ==
  /\ commandAt \in Running /\ ~signalled
  /\ signalled' = TRUE
  /\ UNCHANGED <<command, commandAt, commandCalls, linkOpened, commandClient>>

SignalTaken ==
  /\ commandAt = "serve" /\ signalled
  /\ CommandGoes("close")
  /\ UNCHANGED <<command, commandCalls, signalled, linkOpened, commandClient>>

\* The deferred Close takes the mutex before anything else.
ClientCloses ==
  /\ commandAt = "close" /\ clientMu = "free"
  /\ linkOpened' = FALSE /\ pulse' = FALSE
  /\ CommandGoes("exited")
  /\ UNCHANGED <<command, commandCalls, signalled, transport, clientMu, relaySilent>>

-----------------------------------------------------------------------------
CommandStep ==
  \/ BackoffEnds \/ BeatStarts
  \/ SmokeDialFails \/ SmokeDialSucceeds \/ SmokeEchoes
  \/ SignalTaken
  \/ SessionEnsures \/ SessionTicks

CallFails == \E code \in Codes : CallIsRefused(code)
HeartbeatEnds == HeartbeatIsAcknowledged \/ HeartbeatFails

CommandNext ==
  \/ CommandStarts \/ SessionStarts \/ WireGuardConfig \/ WireGuardStatus
  \/ CommandStep \/ CallSucceeds \/ CallFails \/ ClientCloses
  \/ HeartbeatBegins \/ HeartbeatEnds \/ ReloadDisconnects \/ RelayChanges
  \/ SignalArrives \/ SignalKills

\* A call or a beat ends when the relay answers, and at its deadline if it has one; a call
\* that has to begin needs the mutex.  Close waits for a mutex that others take in between.
CommandFairness ==
  /\ WF_commandVars(CommandStep)
  /\ WF_commandVars(~Unheard /\ clientMu = "free" /\ (CallSucceeds \/ CallFails))
  /\ WF_commandVars(~Unheard /\ HeartbeatEnds)
  /\ SF_commandVars(ClientCloses)

CommandSpec == CommandInit /\ [][CommandNext]_commandVars /\ CommandFairness

-----------------------------------------------------------------------------
(* Properties. *)

\* What the command may hold.
CommandTypeOK ==
  /\ command \in Commands
  /\ commandAt \in {"typed", "exited"} \cup Running \cup Asking
  /\ backingOff \in BOOLEAN /\ signalled \in BOOLEAN /\ linkOpened \in BOOLEAN
  /\ currentRetry \in 0..MaxRetries /\ smokeDial \in 0..SmokeDials
  /\ transport \in {"grpc", "json"} /\ clientMu \in {"free", "beat", "wedged"}
  /\ pulse \in BOOLEAN /\ relaySilent \in BOOLEAN

\* A signal ends the command although nobody reads it while calls are retried,
\* and a smoke run ends by itself: the retries run out, over all calls together,
\* and what ends the command closes its client, past the beats that take the same
\* mutex.  Excused are the behaviours in which somebody never gives the mutex back,
\* and those in which a silent relay is waited for without a deadline.
CommandsEnd ==
  [](clientMu # "wedged") /\ <>[]~Unheard
    => (commandAt \in Running /\ (signalled \/ command = "smoke")
          ~> commandAt = "exited" /\ ~linkOpened)

=============================================================================
