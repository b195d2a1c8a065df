--------------------------- MODULE TransportStack ---------------------------
(***************************************************************************)
(* The transport of pkg/relay/transport: a TransportManager that picks an  *)
(* implementation by mode, over the one implementation there is, gRPC.     *)
(* Client calls it through an adapter that adds no state.                  *)
(*                                                                         *)
(* Goroutines connect, disconnect, switch mode, make calls and close, all  *)
(* at the same time.  tmLock and gcLock own TransportManager.mu and        *)
(* GRPCClient.mu while they are held over more than one step; a step that  *)
(* takes a lock and drops it again only waits for it to be free.           *)
(*                                                                         *)
(* A definition named Faulty... is the one after it with a plausible bug;  *)
(* no action uses it, and each breaks one property below.                  *)
(***************************************************************************)
CONSTANTS
  Users,                 \* goroutines
  Sockets, NoSocket,     \* gRPC connections that may be dialled (a bound), and none
  NoUser

ASSUME TransportAssumption ==
  /\ NoSocket \notin Sockets /\ NoUser \notin Users

VARIABLES
  tmMode, tmLock,        \* TransportManager.currentMode and the owner of its mutex
  gcLock,                \* the owner of GRPCClient.mu
  gcConn, gcConnected,   \* GRPCClient.conn and .connected
  gcCancelled,           \* GRPCClient.ctx is cancelled
  opened, closedSockets, \* the sockets that were dialled, and those closed again
  userAt,                \* where each goroutine is
  userConn,              \* the socket it has dialled, or makes its call on
  switchTo,              \* the mode a switch is for
  tmClosed               \* a Close has returned

tmState == <<tmMode, tmLock>>
gcState == <<gcLock, gcConn, gcConnected, gcCancelled, opened, closedSockets>>
transportVars == <<tmState, gcState, userAt, userConn, switchTo, tmClosed>>

TransportInit ==
  /\ tmMode = "grpc" /\ tmLock = NoUser /\ gcLock = NoUser
  /\ gcConn = NoSocket /\ gcConnected = FALSE /\ gcCancelled = FALSE
  /\ opened = {} /\ closedSockets = {}
  /\ userAt = [u \in Users |-> "idle"] /\ userConn = [u \in Users |-> NoSocket]
  /\ switchTo = "grpc" /\ tmClosed = FALSE

UserGoes(u, stage) == userAt' = [userAt EXCEPT ![u] = stage]

\* GetTransport: json falls back to gRPC, so that every mode leads to one stage.
GetTransport(u, stage) ==
  /\ userAt[u] = "idle" /\ tmLock = NoUser
  /\ UserGoes(u, stage)
  /\ UNCHANGED <<tmState, gcState, userConn, switchTo, tmClosed>>

-----------------------------------------------------------------------------
(* GRPCClient.Connect: the dial keeps the mutex.                           *)

DialBegins(u) ==
  /\ userAt[u] = "connect" /\ gcLock = NoUser
  /\ IF gcConnected
     THEN UserGoes(u, "idle") /\ UNCHANGED gcLock
     ELSE UserGoes(u, "dial") /\ gcLock' = u
  /\ UNCHANGED <<tmState, gcConn, gcConnected, gcCancelled, opened, closedSockets,
                 userConn, switchTo, tmClosed>>

DialAnswered(u) ==
  /\ userAt[u] = "dial" /\ ~gcCancelled
  /\ \E s \in Sockets \ opened :
       opened' = opened \cup {s} /\ userConn' = [userConn EXCEPT ![u] = s]
  /\ UserGoes(u, "dialled")
  /\ UNCHANGED <<tmState, gcLock, gcConn, gcConnected, gcCancelled, closedSockets,
                 switchTo, tmClosed>>

\* The 10 seconds are over, or the client's context is cancelled.
DialGivesUp(u) ==
  /\ userAt[u] = "dial"
  /\ gcLock' = NoUser
  /\ UserGoes(u, "idle")
  /\ UNCHANGED <<tmState, gcConn, gcConnected, gcCancelled, opened, closedSockets,
                 userConn, switchTo, tmClosed>>

DialStored(u) ==
  /\ userAt[u] = "dialled"
  /\ gcConn' = userConn[u] /\ gcConnected' = TRUE
  /\ gcLock' = NoUser
  /\ userConn' = [userConn EXCEPT ![u] = NoSocket]
  /\ UserGoes(u, "idle")
  /\ UNCHANGED <<tmState, gcCancelled, opened, closedSockets, switchTo, tmClosed>>

-----------------------------------------------------------------------------
(* GRPCClient.Disconnect, for a caller, a switch or a close.               *)

\* Clears the connection as well, as one would to free it.
FaultyDropConnection ==
  /\ closedSockets' = closedSockets \cup ({gcConn} \ {NoSocket})
  /\ gcConn' = NoSocket /\ gcConnected' = FALSE

\* The closed connection stays in the field.
DropConnection ==
  /\ closedSockets' = closedSockets \cup (IF gcConnected THEN {gcConn} ELSE {})
  /\ gcConnected' = FALSE
  /\ UNCHANGED gcConn

Disconnected(u) ==
  /\ userAt[u] = "disconnect" /\ gcLock = NoUser
  /\ DropConnection
  /\ UserGoes(u, "idle")
  /\ UNCHANGED <<tmState, gcLock, gcCancelled, opened, userConn, switchTo, tmClosed>>

-----------------------------------------------------------------------------
(* Hello, Authenticate, CreateTunnel and SendHeartbeat: the client is      *)
(* asked whether it is connected, and then for its connection.             *)

IsConnected(u) ==
  /\ userAt[u] = "call" /\ gcLock = NoUser
  /\ UserGoes(u, IF gcConnected THEN "checked" ELSE "idle")
  /\ UNCHANGED <<tmState, gcState, userConn, switchTo, tmClosed>>

GetConnection(u) ==
  /\ userAt[u] = "checked" /\ gcLock = NoUser
  /\ userConn' = [userConn EXCEPT ![u] = gcConn]
  /\ UserGoes(u, "calling")
  /\ UNCHANGED <<tmState, gcState, switchTo, tmClosed>>

EndCall(u) ==
  /\ userAt[u] = "calling"
  /\ userConn' = [userConn EXCEPT ![u] = NoSocket]
  /\ UserGoes(u, "idle")
  /\ UNCHANGED <<tmState, gcState, switchTo, tmClosed>>

CallAnswered(u) == userConn[u] \notin closedSockets /\ EndCall(u)

\* Its deadline passes, or the connection was closed under it.
CallFails(u) == EndCall(u)

-----------------------------------------------------------------------------
(* SwitchTransport and Close keep the manager's mutex.                     *)

\* There is nothing to disconnect on the way out of json.
SwitchBegins(u, mode) ==
  /\ userAt[u] = "idle" /\ tmLock = NoUser /\ mode # tmMode
  /\ tmLock' = u /\ switchTo' = mode
  /\ UserGoes(u, IF tmMode = "grpc" THEN "switching" ELSE "switched")
  /\ UNCHANGED <<tmMode, gcState, userConn, tmClosed>>

SwitchDisconnects(u) ==
  /\ userAt[u] = "switching" /\ gcLock = NoUser
  /\ DropConnection
  /\ UserGoes(u, "switched")
  /\ UNCHANGED <<tmState, gcLock, gcCancelled, opened, userConn, switchTo, tmClosed>>

Switched(u) ==
  /\ userAt[u] = "switched"
  /\ tmMode' = switchTo /\ tmLock' = NoUser
  /\ UserGoes(u, "idle")
  /\ UNCHANGED <<gcState, userConn, switchTo, tmClosed>>

CloseLocks(u) ==
  /\ userAt[u] = "idle" /\ tmLock = NoUser
  /\ tmLock' = u
  /\ UserGoes(u, "cancel")
  /\ UNCHANGED <<tmMode, gcState, userConn, switchTo, tmClosed>>

\* Leaves the context alone: a dial that waits for the mutex comes after.
FaultyCloseCancels(u) ==
  /\ userAt[u] = "cancel"
  /\ UserGoes(u, "close")
  /\ UNCHANGED <<tmState, gcState, userConn, switchTo, tmClosed>>

\* The context first, so that a dial under way gives the mutex up.
CloseCancels(u) ==
  /\ userAt[u] = "cancel"
  /\ gcCancelled' = TRUE
  /\ UserGoes(u, "close")
  /\ UNCHANGED <<tmState, gcLock, gcConn, gcConnected, opened, closedSockets,
                 userConn, switchTo, tmClosed>>

CloseDisconnects(u) ==
  /\ userAt[u] = "close" /\ gcLock = NoUser
  /\ DropConnection
  /\ tmClosed' = TRUE /\ tmLock' = NoUser
  /\ UserGoes(u, "idle")
  /\ UNCHANGED <<tmMode, gcLock, gcCancelled, opened, userConn, switchTo>>

-----------------------------------------------------------------------------
TransportBegins(u) ==
  \/ GetTransport(u, "connect") \/ GetTransport(u, "disconnect") \/ GetTransport(u, "call")
  \/ (\E mode \in {"grpc", "json"} : SwitchBegins(u, mode))
  \/ CloseLocks(u)

TransportStep(u) ==
  \/ DialBegins(u) \/ DialAnswered(u) \/ DialGivesUp(u) \/ DialStored(u)
  \/ Disconnected(u)
  \/ IsConnected(u) \/ GetConnection(u) \/ CallAnswered(u) \/ CallFails(u)
  \/ SwitchDisconnects(u) \/ Switched(u)
  \/ CloseCancels(u) \/ CloseDisconnects(u)

TransportNext == \E u \in Users : TransportBegins(u) \/ TransportStep(u)

TransportSpec == TransportInit /\ [][TransportNext]_transportVars

-----------------------------------------------------------------------------
(* Properties. *)

\* What the manager, the gRPC client and their callers may hold.
TransportTypeOK ==
  /\ tmMode \in {"grpc", "json"} /\ switchTo \in {"grpc", "json"}
  /\ tmLock \in Users \cup {NoUser} /\ gcLock \in Users \cup {NoUser}
  /\ gcConn \in Sockets \cup {NoSocket}
  /\ gcConnected \in BOOLEAN /\ gcCancelled \in BOOLEAN /\ tmClosed \in BOOLEAN
  /\ opened \in SUBSET Sockets /\ closedSockets \in SUBSET opened
  /\ userAt \in [Users -> {"idle", "connect", "dial", "dialled", "disconnect", "call",
                           "checked", "calling", "switching", "switched", "cancel", "close"}]
  /\ userConn \in [Users -> Sockets \cup {NoSocket}]

\* A call that was told the client is connected finds a connection to use, if
\* a closed one, whatever disconnects or switches in between: never nil.
CallsHaveAConnection == \A u \in Users : userAt[u] = "calling" => userConn[u] # NoSocket

\* A Close that has returned is final: no dial that it overtook, and none that
\* follows, leaves a connection behind.
ClosedForGood == tmClosed => ~gcConnected /\ opened = closedSockets

\* To its users the transport is what TransportPromise says: however connects,
\* switches and closes overlap, a connection is opened only when there is none.
Promise == INSTANCE TransportPromise WITH
  live <- opened \ closedSockets, used <- opened, final <- tmClosed

TransportKeepsPromise == Promise!Spec

=============================================================================
