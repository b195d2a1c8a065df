---------------------------- MODULE TunnelOpening ----------------------------
(***************************************************************************)
(* The opening of a gRPC tunnel for the path ladder, of                    *)
(* pkg/pathselect/grpc_tunnel_path.go, over a transport manager of its     *)
(* own.  Each call of that manager is made by a goroutine with the session *)
(* waiting for the answer or for a deadline; the call has no context, so   *)
(* that a goroutine whose session has given up goes on, or begins, while   *)
(* the manager is closed under it.                                         *)
(*                                                                         *)
(* Two users of the transport: the session, and the one goroutine that it  *)
(* has at a time.                                                          *)
(*                                                                         *)
(* A definition named Faulty... is the one after it with a plausible bug;  *)
(* no action uses it, and it breaks the property below.                    *)
(***************************************************************************)
EXTENDS TransportStack

CONSTANTS Opener, Helper

ASSUME OpeningAssumption == Opener # Helper /\ {Opener, Helper} \subseteq Users

VARIABLES
  openerAt,              \* the stage of the session
  hasToken,              \* it has a token to authenticate with
  due,                   \* what its goroutine is to do and has not begun
  answer,                \* what the goroutine has sent to the session's channel
  verdict                \* what the session is when its Close returns

openerVars == <<openerAt, hasToken, due, answer, verdict>>
openVars == <<openerVars, transportVars>>

Stages == {"connecting", "authenticating", "creating"}

OpenInit ==
  /\ TransportInit
  /\ openerAt = "idle" /\ hasToken \in BOOLEAN
  /\ due = "nothing" /\ answer = "none" /\ verdict = "failed"

\* The channel is a new one for every stage.
StageBegins(stage, call) ==
  /\ openerAt' = stage /\ due' = call /\ answer' = "none"
  /\ UNCHANGED <<hasToken, verdict, transportVars>>

SessionCloses(outcome) ==
  /\ openerAt' = "closing" /\ verdict' = outcome
  /\ CloseLocks(Opener)
  /\ UNCHANGED <<hasToken, due, answer>>

-----------------------------------------------------------------------------
(* openGRPCTunnelSession. *)

ConnectTransport ==
  openerAt = "idle" /\ StageBegins("connecting", "connect")

AuthenticateTransport ==
  openerAt = "connecting" /\ answer = "ok" /\ hasToken /\ StageBegins("authenticating", "call")

CreateTunnelTransport ==
  /\ \/ openerAt = "connecting" /\ ~hasToken
     \/ openerAt = "authenticating"
  /\ answer = "ok" /\ StageBegins("creating", "call")

SessionOpened ==
  /\ openerAt = "creating" /\ answer = "ok"
  /\ openerAt' = "opened"
  /\ UNCHANGED <<hasToken, due, answer, verdict, transportVars>>

\* Leaves the manager to the goroutine that is still at it.
FaultyDeadlinePasses ==
  /\ openerAt \in Stages
  /\ openerAt' = "failed"
  /\ UNCHANGED <<hasToken, due, answer, verdict, transportVars>>

\* Also when the answer is there already.
DeadlinePasses == openerAt \in Stages /\ SessionCloses("failed")

\* An error, a status other than "ok", or a tunnel without an endpoint.
StageFails == openerAt \in Stages /\ answer = "error" /\ SessionCloses("failed")

\* By the handle, by the path, or by both.
SessionClose == openerAt \in {"opened", "closed"} /\ SessionCloses("closed")

CloseGoesOn ==
  /\ openerAt = "closing" /\ CloseCancels(Opener)
  /\ UNCHANGED openerVars

CloseReturned ==
  /\ openerAt = "closing" /\ CloseDisconnects(Opener)
  /\ openerAt' = verdict
  /\ UNCHANGED <<hasToken, due, answer, verdict>>

-----------------------------------------------------------------------------
(* The goroutine. *)

HelperBegins ==
  /\ due # "nothing" /\ GetTransport(Helper, due)
  /\ due' = "nothing"
  /\ UNCHANGED <<openerAt, hasToken, answer, verdict>>

Answers(a) == answer' = a /\ UNCHANGED <<openerAt, hasToken, due, verdict>>

HelperGoesOn ==
  /\ \/ DialBegins(Helper) \/ DialAnswered(Helper)
     \/ IsConnected(Helper) \/ GetConnection(Helper)
  /\ userAt'[Helper] # "idle" /\ UNCHANGED openerVars

HelperSucceeds ==
  /\ DialStored(Helper) \/ CallAnswered(Helper)
  /\ Answers("ok")

HelperFails ==
  /\ DialGivesUp(Helper) \/ CallFails(Helper) \/ (IsConnected(Helper) /\ ~gcConnected)
  /\ Answers("error")

-----------------------------------------------------------------------------
OpenNext ==
  \/ ConnectTransport \/ AuthenticateTransport \/ CreateTunnelTransport \/ SessionOpened
  \/ DeadlinePasses \/ StageFails \/ SessionClose \/ CloseGoesOn \/ CloseReturned
  \/ HelperBegins \/ HelperGoesOn \/ HelperSucceeds \/ HelperFails

OpenSpec == OpenInit /\ [][OpenNext]_openVars

-----------------------------------------------------------------------------
(* Properties. *)

\* What the session and its goroutine may hold.
OpenTypeOK ==
  /\ openerAt \in Stages \cup {"idle", "closing", "opened", "failed", "closed"}
  /\ hasToken \in BOOLEAN /\ due \in {"nothing", "connect", "call"}
  /\ answer \in {"none", "ok", "error"} /\ verdict \in {"failed", "closed"}

\* An opening ends with a connected transport, or with nothing: a goroutine that
\* was given up leaves no connection behind, however late it dials, and none
\* that a session counts as its own is closed under it.
OpenIsAllOrNothing ==
  /\ openerAt = "opened" => gcConnected /\ gcConn \notin closedSockets
  /\ openerAt \in {"failed", "closed"} => ~gcConnected /\ opened = closedSockets

=============================================================================
