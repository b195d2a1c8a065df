----------------------------- MODULE RelayClient -----------------------------
(***************************************************************************)
(* The relay client of pkg/relay/client.go in its gRPC mode: the calls     *)
(* that applications, the heartbeat loop and the configuration watcher     *)
(* make on one Client, and the use they make of Client.mu.                 *)
(*                                                                         *)
(* Client.mu is a sync.RWMutex, which Go does not let a goroutine take     *)
(* twice.  A section that holds it from one step to the next owns `lock';  *)
(* a section that is one step only needs it free.  The locks of the other  *)
(* managers are never held while Client.mu is asked for and are left out.  *)
(*                                                                         *)
(* A definition named Faulty... is the one after it with a plausible bug;  *)
(* no action uses it, and each breaks one property below.                  *)
(***************************************************************************)
EXTENDS Naturals

CONSTANTS
  Threads,         \* goroutines: callers, the heartbeat loop, reload workers
  Free,            \* the owner of a mutex nobody holds
  Tokens,          \* JWTs and secrets; an identity is named by its token
  None,
  EventCap         \* capacity of the state-event channel (10 in the code)

ASSUME ClientAssumption ==
  /\ Free \notin Threads
  /\ None \notin Tokens
  /\ EventCap \in Nat \ {0}

VARIABLES
  lock,            \* the owner of Client.mu
  connected,       \* Client.connected
  link,            \* GRPCClient.connected: the transport is up
  services,        \* auto-switch, config watcher and metrics have not been stopped
  identity,        \* clientID, tenantID and connectionType: the login they come from
  token,           \* Client.tokenString
  meshToken,       \* the token that Client.p2pManager was given, if there is a manager
  subscribed,      \* Client.stateEvents exists
  events,          \* the "connected" events in that channel
  at,              \* where each goroutine is in its call
  sent             \* the login it performs, or the tenant its request names

flags == <<connected, link, services>>
login == <<identity, token>>
credentials == <<login, meshToken>>
channel == <<subscribed, events>>
vars == <<lock, flags, credentials, channel, at, sent>>

Calls == {"connect", "disconnect", "close", "heartbeat", "tunnel", "authenticate",
          "reconnect", "subscribe", "configure"}

\* A second Lock, or an RLock, by the goroutine that already holds the mutex:
\* the heartbeat's time stamp, the disconnect's event, the reconnect's parts.
Wedged == {"recording", "reporting", "relocking"}
Rpcs == {"tunnelling", "beating"}
Holding == Rpcs \cup Wedged
Handshaking == {"greeting", "installing"}
Places == Calls \cup Holding \cup Handshaking
            \cup {"idle", "dropping", "dialing", "announcing", "loggingIn", "storing",
                    "meshing"}

Idle == {t \in Threads : at[t] = "idle"}

Go(t, place) == at' = [at EXCEPT ![t] = place]
Send(t, what) == sent' = [sent EXCEPT ![t] = what]

Init ==
  /\ lock = Free
  /\ connected = FALSE /\ link = FALSE /\ services = TRUE
  /\ identity = None /\ token = None /\ meshToken = None
  /\ subscribed = FALSE /\ events = 0
  /\ at = [t \in Threads |-> "idle"]
  /\ sent = [t \in Threads |-> None]

\* A goroutine enters a call, and asks for the mutex.
Call(t) ==
  /\ at[t] = "idle"
  /\ \E op \in Calls :
       /\ Go(t, op)
       /\ \E tok \in Tokens : Send(t, IF op = "authenticate" THEN tok ELSE None)
  /\ UNCHANGED <<lock, flags, credentials, channel>>

-----------------------------------------------------------------------------
(* Connect: check, dial and greet without the mutex, install, announce. *)

CheckConnect(t) ==
  /\ at[t] = "connect" /\ lock = Free
  /\ Go(t, IF connected THEN "idle" ELSE "dialing")
  /\ UNCHANGED <<lock, flags, credentials, channel, sent>>

\* The transport dials whether or not it has a connection.
FaultyDial(t) ==
  /\ at[t] = "dialing"
  /\ \/ link' = TRUE /\ Go(t, "greeting")
     \/ UNCHANGED link /\ Go(t, "idle")
  /\ UNCHANGED <<lock, connected, services, credentials, channel, sent>>

\* The transport refuses to dial when it is connected already.
Dial(t) ==
  /\ at[t] = "dialing"
  /\ \/ ~link /\ link' = TRUE /\ Go(t, "greeting")
     \/ UNCHANGED link /\ Go(t, "idle")
  /\ UNCHANGED <<lock, connected, services, credentials, channel, sent>>

\* Dials again after each failure.
FaultyGreet(t) ==
  /\ at[t] = "greeting"
  /\ \/ link /\ Go(t, "installing") /\ UNCHANGED link
     \/ Go(t, "dialing") /\ link' = FALSE
  /\ UNCHANGED <<lock, connected, services, credentials, channel, sent>>

\* Hello; its failure takes the transport down again.
Greet(t) ==
  /\ at[t] = "greeting"
  /\ \/ link /\ Go(t, "installing") /\ UNCHANGED link
     \/ Go(t, "idle") /\ link' = FALSE
  /\ UNCHANGED <<lock, connected, services, credentials, channel, sent>>

Install(t) ==
  /\ at[t] = "installing" /\ lock = Free
  /\ connected' = TRUE
  /\ Go(t, "announcing")
  /\ UNCHANGED <<lock, link, services, credentials, channel, sent>>

\* emitStateEvent drops the event when nobody subscribed or the channel is full.
Announce(t) ==
  /\ at[t] = "announcing" /\ lock = Free
  /\ events' = IF subscribed /\ events < EventCap THEN events + 1 ELSE events
  /\ Go(t, "idle")
  /\ UNCHANGED <<lock, flags, credentials, subscribed, sent>>

-----------------------------------------------------------------------------
(* Disconnect, Close and Reconnect. *)

\* The event is emitted with the mutex held: the call never gets past it.
\* The reload worker of a configuration change goes on to Connect.
Disconnect(t) ==
  /\ at[t] \in {"disconnect", "dropping"} /\ lock = Free
  /\ IF connected
     THEN /\ link' = FALSE /\ connected' = FALSE
          /\ lock' = t
          /\ Go(t, "reporting")
     ELSE /\ Go(t, IF at[t] = "dropping" THEN "connect" ELSE "idle")
          /\ UNCHANGED <<lock, connected, link>>
  /\ UNCHANGED <<services, credentials, channel, sent>>

\* Stops the services of a client that is connected; the transport stays up.
Close(t) ==
  /\ at[t] = "close" /\ lock = Free
  /\ connected' = FALSE
  /\ services' = (services /\ ~connected)
  /\ Go(t, "idle")
  /\ UNCHANGED <<lock, link, credentials, channel, sent>>

\* Calls Disconnect or Connect, and both begin by taking the mutex.
Reconnect(t) ==
  /\ at[t] = "reconnect" /\ lock = Free
  /\ lock' = t
  /\ Go(t, "relocking")
  /\ UNCHANGED <<flags, credentials, channel, sent>>

-----------------------------------------------------------------------------
(* Calls that keep the mutex while they wait for the relay. *)

\* Releases the mutex before the request, as Connect does.
FaultyBeginRpc(t, call, rpc) ==
  /\ at[t] = call /\ lock = Free
  /\ IF connected
     THEN Go(t, rpc) /\ Send(t, identity)
     ELSE Go(t, "idle") /\ UNCHANGED sent
  /\ UNCHANGED <<lock, flags, credentials, channel>>

\* A client that is not connected refuses; the request names the tenant.
BeginRpc(t, call, rpc) ==
  /\ at[t] = call /\ lock = Free
  /\ IF connected
     THEN lock' = t /\ Go(t, rpc) /\ Send(t, identity)
     ELSE Go(t, "idle") /\ UNCHANGED <<lock, sent>>
  /\ UNCHANGED <<flags, credentials, channel>>

BeginHeartbeat(t) == BeginRpc(t, "heartbeat", "beating")
BeginTunnel(t) == BeginRpc(t, "tunnel", "tunnelling")

\* The relay acknowledges: SendHeartbeat locks again to record the time.
HeartbeatAcknowledged(t) ==
  /\ at[t] = "beating" /\ link
  /\ Go(t, "recording") /\ Send(t, None)
  /\ UNCHANGED <<lock, flags, credentials, channel>>

\* The request fails, or a tunnel is granted and registered or not: the
\* tunnels themselves are the tunnel manager's.
RpcEnds(t) ==
  /\ at[t] \in Rpcs
  /\ lock' = Free
  /\ Go(t, "idle") /\ Send(t, None)
  /\ UNCHANGED <<flags, credentials, channel>>

-----------------------------------------------------------------------------
(* Authenticate, SubscribeState and handleConfigChange. *)

BeginAuthenticate(t) ==
  /\ at[t] = "authenticate" /\ lock = Free
  /\ IF connected
     THEN Go(t, "loggingIn") /\ UNCHANGED sent
     ELSE Go(t, "idle") /\ Send(t, None)
  /\ UNCHANGED <<lock, flags, credentials, channel>>

\* The token is validated here and by the relay, without the mutex; its claims
\* say whether the login is one of a mesh.
Login(t) ==
  /\ at[t] = "loggingIn"
  /\ \/ link /\ Go(t, "storing") /\ UNCHANGED sent
     \/ Go(t, "idle") /\ Send(t, None)
  /\ UNCHANGED <<lock, flags, credentials, channel>>

StoreLogin(t) ==
  /\ at[t] = "storing" /\ lock = Free
  /\ identity' = sent[t] /\ token' = sent[t]
  /\ \E next \in {"idle", "meshing"} : Go(t, next)
  /\ Send(t, None)
  /\ UNCHANGED <<lock, flags, meshToken, channel>>

\* A login of a mesh starts a P2P manager, without the mutex and with the token that
\* is stored by then; the manager of an earlier login is replaced, not stopped.  A
\* token without a usable configuration fails the call, and a manager that does not
\* start fails it with the manager in place.
InitializeP2PManager(t) ==
  /\ at[t] = "meshing"
  /\ meshToken' \in {meshToken, token}
  /\ Go(t, "idle")
  /\ UNCHANGED <<lock, flags, login, channel, sent>>

SubscribeState(t) ==
  /\ at[t] = "subscribe" /\ lock = Free
  /\ subscribed' = TRUE
  /\ Go(t, "idle")
  /\ UNCHANGED <<lock, flags, credentials, events, sent>>

\* The heartbeat manager reads the channel.
TakeEvent ==
  /\ events > 0
  /\ events' = events - 1
  /\ UNCHANGED <<lock, flags, credentials, subscribed, at, sent>>

Workers == {{u} : u \in Idle}

\* New TLS settings or a new secret; a connected client gets a worker for each.
\* Bound: a worker is one of the Threads that are idle.
HandleConfigChange(t) ==
  /\ at[t] = "configure" /\ lock = Free
  /\ \E secret \in Tokens \cup {token} :
     \E redial \in IF connected THEN Workers \cup {{}} ELSE {{}} :
     \E reauth \in IF connected /\ secret # token THEN Workers ELSE {{}} :
       /\ redial \cap reauth = {}
       /\ token' = secret
       /\ at' = [u \in Threads |-> IF u \in redial THEN "dropping"
                                   ELSE IF u \in reauth THEN "authenticate"
                                   ELSE IF u = t THEN "idle" ELSE at[u]]
       /\ sent' = [u \in Threads |-> IF u \in reauth THEN secret ELSE sent[u]]
  /\ UNCHANGED <<lock, flags, identity, meshToken, channel>>

-----------------------------------------------------------------------------

Step(t) ==
  \/ CheckConnect(t) \/ Dial(t) \/ Greet(t) \/ Install(t) \/ Announce(t)
  \/ Disconnect(t) \/ Close(t) \/ Reconnect(t)
  \/ BeginHeartbeat(t) \/ BeginTunnel(t) \/ HeartbeatAcknowledged(t) \/ RpcEnds(t)
  \/ BeginAuthenticate(t) \/ Login(t) \/ StoreLogin(t) \/ InitializeP2PManager(t)
  \/ SubscribeState(t) \/ HandleConfigChange(t)

Next ==
  \/ TakeEvent
  \/ \E t \in Threads : Call(t) \/ Step(t)

Spec == Init /\ [][Next]_vars

\* Goroutines run, requests have deadlines, and Go's mutex serves a waiter in
\* the end (its starvation mode); nobody need make another call.
FairSpec == Spec /\ \A t \in Threads : SF_vars(Step(t))

-----------------------------------------------------------------------------

\* What the variables of the client may hold.
TypeOK ==
  /\ lock \in Threads \cup {Free}
  /\ connected \in BOOLEAN /\ link \in BOOLEAN /\ services \in BOOLEAN
  /\ identity \in Tokens \cup {None} /\ token \in Tokens \cup {None}
  /\ meshToken \in Tokens \cup {None}
  /\ subscribed \in BOOLEAN /\ events \in 0..EventCap
  /\ subscribed \/ events = 0
  /\ at \in [Threads -> Places]
  /\ sent \in [Threads -> Tokens \cup {None}]

\* Client.mu is held by the one goroutine that is between its Lock and its
\* Unlock, and by nobody when there is none: no return path leaves it locked.
LockHasAnOwner == \A t \in Threads : lock = t <=> at[t] \in Holding

\* Connect checks `connected' and dials with the mutex released, so two may pass
\* the check; the transport lets one through, and until that one ends its
\* transport stays up and no other call makes the client connected.
OneHandshake ==
  \A t \in Threads : at[t] \in Handshaking =>
    /\ link /\ ~connected
    /\ \A u \in Threads : at[u] \in Handshaking => u = t

\* Whoever connects, fails its hello, disconnects or closes at the same time, a
\* client that calls itself connected has its transport up.
ConnectedHasLink == connected => link

\* Close stops the services for good and Connect does not start them again, so
\* a closed client must not become connected again: it would run without them.
ServedWhileConnected == connected => services

\* CreateTunnel and SendHeartbeat read the flag and the tenant and then wait for
\* the relay: all that time the client stays connected and the tenant current.
RpcUnderOneIdentity ==
  \A t \in Threads : at[t] \in Rpcs => connected /\ link /\ sent[t] = identity

\* With any number of goroutines in the middle of their calls, the client is one
\* that serves a request at a time, on one connection and under one login, and that
\* does not come back after a Close.
Promise == INSTANCE ClientPromise
  WITH Callers <- Threads, Logins <- Tokens, Nobody <- None,
       up <- connected, ended <- ~services, who <- identity,
       serving <- {<<t, sent[t]>> : t \in {u \in Threads : at[u] \in Rpcs}}

ClientKeepsPromise == Promise!Spec

\* Every call returns, unless a goroutine waits for the mutex it holds itself.
CallsReturn ==
  \A t \in Threads : at[t] # "idle" ~> \/ at[t] = "idle"
                                       \/ \E u \in Threads : at[u] \in Wedged

\* SendHeartbeat records the time of a heartbeat the relay acknowledged, and
\* returns ("Update last heartbeat time").
HeartbeatIsRecorded == \A t \in Threads : at[t] = "beating" ~> at[t] = "idle"
=============================================================================
