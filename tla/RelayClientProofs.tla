-------------------------- MODULE RelayClientProofs --------------------------
(***************************************************************************)
(* The safety properties of RelayClient, proved for any number of          *)
(* goroutines and tokens and any capacity of the event channel.            *)
(*                                                                         *)
(* The inductive invariant is the conjunction of the invariants of the     *)
(* runs and of ClosedKeepsLink, which ServedWhileConnected needs: a client *)
(* whose services were stopped keeps its transport, so the transport lets  *)
(* nobody connect it again.  From it, and from what a goroutine carries on *)
(* its way to a login, follows that the client implements ClientPromise.   *)
(***************************************************************************)
EXTENDS RelayClient, TLAPS

\* A client whose services Close has stopped keeps its transport, and no
\* goroutine is between its dial and its installation.
ClosedKeepsLink == ~services => link /\ \A t \in Threads : at[t] \notin Handshaking

Inv ==
  /\ TypeOK
  /\ LockHasAnOwner
  /\ OneHandshake
  /\ ConnectedHasLink
  /\ RpcUnderOneIdentity
  /\ ServedWhileConnected
  /\ ClosedKeepsLink

-----------------------------------------------------------------------------
(* The sets of places, apart from each other. *)

\* Which places are Wedged, Rpcs, Handshaking or none: what the steps of a call
\* move between.
LEMMA PlacesApart ==
  /\ Calls \subseteq Places /\ Rpcs \subseteq Places /\ Wedged \subseteq Places
  /\ {"idle", "dropping", "dialing", "greeting", "installing", "announcing",
      "loggingIn", "storing", "meshing"} \subseteq Places
  /\ Rpcs \cap Handshaking = {} /\ Wedged \cap Handshaking = {} /\ Wedged \cap Rpcs = {}
  /\ Calls \cap (Holding \cup Handshaking) = {}
  /\ {"idle", "dropping", "dialing", "announcing", "loggingIn", "storing", "meshing"}
       \cap (Holding \cup Handshaking) = {}
BY DEF Calls, Wedged, Rpcs, Holding, Handshaking, Places

\* Nobody is in a request when the mutex is free.
LEMMA FreeMeansNobody ==
  ASSUME LockHasAnOwner, lock = Free
  PROVE  \A t \in Threads : at[t] \notin Holding
BY ClientAssumption DEF LockHasAnOwner

\* The initial state.
LEMMA InitInv == Init => Inv
<1> SUFFICES ASSUME Init PROVE Inv
  OBVIOUS
<1> USE ClientAssumption DEF Init
<1>1. TypeOK
  <2>1. "idle" \in Places /\ 0 \in 0..EventCap
    BY PlacesApart
  <2> QED BY <2>1 DEF TypeOK
<1>2. LockHasAnOwner /\ OneHandshake /\ RpcUnderOneIdentity
  BY DEF LockHasAnOwner, OneHandshake, RpcUnderOneIdentity, Holding, Handshaking, Rpcs, Wedged
<1>3. ConnectedHasLink /\ ServedWhileConnected /\ ClosedKeepsLink
  BY DEF ConnectedHasLink, ServedWhileConnected, ClosedKeepsLink
<1> QED BY <1>1, <1>2, <1>3 DEF Inv

\* A step of one goroutine between two places where it neither holds the mutex nor
\* shakes hands disturbs nothing, as long as the flags and the identity stay.
LEMMA QuietMove ==
  ASSUME Inv, NEW t \in Threads, NEW place \in Places \ (Holding \cup Handshaking),
         at[t] \notin Holding \cup Handshaking,
         Go(t, place), UNCHANGED <<lock, connected, link, services, identity>>,
         token' \in Tokens \cup {None}, meshToken' \in Tokens \cup {None},
         subscribed' \in BOOLEAN, events' \in 0..EventCap,
         subscribed' \/ events' = 0,
         \E v \in Tokens \cup {None} : sent' = [sent EXCEPT ![t] = v]
  PROVE  Inv'
<1> USE DEF Inv, Go, TypeOK
<1>1. TypeOK'
  OBVIOUS
<1>2. LockHasAnOwner'
  BY DEF LockHasAnOwner
<1>3. OneHandshake' /\ ConnectedHasLink' /\ ServedWhileConnected' /\ ClosedKeepsLink'
  BY DEF OneHandshake, ConnectedHasLink, ServedWhileConnected, ClosedKeepsLink
<1>4. RpcUnderOneIdentity'
  BY DEF RpcUnderOneIdentity, Holding
<1> QED BY <1>1, <1>2, <1>3, <1>4

-----------------------------------------------------------------------------
(* The steps that change the flags, the mutex or the identity. *)

\* The transport dials only when it is down, so nobody shakes hands or is connected.
LEMMA DialInv == ASSUME Inv, NEW t \in Threads, Dial(t) PROVE Inv'
<1> USE PlacesApart DEF Inv, Dial, Go, TypeOK, credentials, login, channel
<1>1. at[t] \notin Holding \cup Handshaking
  OBVIOUS
<1>2. CASE ~link /\ link' = TRUE /\ Go(t, "greeting")
  <2>1. TypeOK'
    BY <1>2
  <2>2. LockHasAnOwner'
    BY <1>1, <1>2 DEF LockHasAnOwner, Holding, Wedged, Rpcs
  <2>3. \A u \in Threads : at[u] \notin Handshaking
    BY <1>2 DEF OneHandshake
  <2>4. OneHandshake' /\ ConnectedHasLink' /\ ServedWhileConnected' /\ ClosedKeepsLink'
    BY <1>2, <2>3 DEF OneHandshake, ConnectedHasLink, ServedWhileConnected, ClosedKeepsLink
  <2>5. RpcUnderOneIdentity'
    BY <1>2 DEF RpcUnderOneIdentity, Rpcs
  <2> QED BY <2>1, <2>2, <2>4, <2>5
<1>3. CASE UNCHANGED link /\ Go(t, "idle")
  <2>1. sent[t] \in Tokens \cup {None} /\ sent' = [sent EXCEPT ![t] = sent[t]]
    OBVIOUS
  <2> QED BY <1>1, <1>3, <2>1, QuietMove
<1> QED BY <1>2, <1>3

\* A hello fails or succeeds: its goroutine is the only one that shakes hands.
LEMMA GreetInv == ASSUME Inv, NEW t \in Threads, Greet(t) PROVE Inv'
<1> USE PlacesApart DEF Inv, Greet, Go, TypeOK, credentials, login, channel
<1>1. /\ at[t] \in Handshaking /\ at[t] \notin Holding
      /\ at'[t] \in Places \ Holding
      /\ \A u \in Threads : u # t => at'[u] = at[u]
  <2>1. {"greeting", "installing"} \subseteq Handshaking
    BY DEF Handshaking
  <2> QED BY <2>1 DEF Holding
<1>2. TypeOK'
  BY DEF Handshaking
<1>3. LockHasAnOwner'
  BY <1>1 DEF LockHasAnOwner
<1>4. ~connected /\ services /\ \A u \in Threads : at[u] \in Handshaking => u = t
  BY <1>1 DEF OneHandshake, ClosedKeepsLink
<1>5. OneHandshake'
  BY <1>1, <1>4 DEF OneHandshake, Handshaking
<1>6. ConnectedHasLink' /\ ServedWhileConnected' /\ ClosedKeepsLink'
  BY <1>4 DEF ConnectedHasLink, ServedWhileConnected, ClosedKeepsLink
<1>7. RpcUnderOneIdentity'
  BY <1>1, <1>4 DEF RpcUnderOneIdentity, Holding
<1> QED BY <1>2, <1>3, <1>5, <1>6, <1>7

\* The goroutine whose hello succeeded makes the client connected.
LEMMA InstallInv == ASSUME Inv, NEW t \in Threads, Install(t) PROVE Inv'
<1> USE PlacesApart DEF Inv, Install, Go, TypeOK, credentials, login, channel
<1>1. at[t] \in Handshaking /\ at[t] \notin Holding
  BY DEF Handshaking, Holding
<1>2. TypeOK'
  OBVIOUS
<1>3. LockHasAnOwner'
  BY <1>1 DEF LockHasAnOwner
<1>4. link /\ services /\ \A u \in Threads : at[u] \in Handshaking => u = t
  BY <1>1 DEF OneHandshake, ClosedKeepsLink
<1>5. OneHandshake' /\ ConnectedHasLink' /\ ServedWhileConnected' /\ ClosedKeepsLink'
  BY <1>4 DEF OneHandshake, ConnectedHasLink, ServedWhileConnected, ClosedKeepsLink
<1>6. RpcUnderOneIdentity'
  BY FreeMeansNobody DEF RpcUnderOneIdentity, Holding
<1> QED BY <1>2, <1>3, <1>5, <1>6

\* A connected client is taken down and the mutex kept; another is left alone.
LEMMA DisconnectInv == ASSUME Inv, NEW t \in Threads, Disconnect(t) PROVE Inv'
<1> USE PlacesApart DEF Inv, Disconnect, Go, TypeOK, credentials, login, channel
<1>1. at[t] \notin Holding \cup Handshaking
  BY DEF Calls
<1>2. CASE connected
  <2>1. TypeOK'
    BY <1>2 DEF Wedged
  <2>2. LockHasAnOwner'
    BY <1>2, ClientAssumption, FreeMeansNobody DEF LockHasAnOwner, Wedged, Holding
  <2>3. services /\ \A u \in Threads : at[u] \notin Handshaking
    BY <1>2 DEF OneHandshake, ServedWhileConnected
  <2>4. OneHandshake' /\ ConnectedHasLink' /\ ServedWhileConnected' /\ ClosedKeepsLink'
    BY <1>2, <2>3
    DEF OneHandshake, ConnectedHasLink, ServedWhileConnected, ClosedKeepsLink, Handshaking
  <2>5. RpcUnderOneIdentity'
    BY <1>2, FreeMeansNobody DEF RpcUnderOneIdentity, Holding, Rpcs
  <2> QED BY <2>1, <2>2, <2>4, <2>5
<1>3. CASE ~connected
  <2>1. /\ Go(t, "connect") \/ Go(t, "idle")
        /\ sent' = [sent EXCEPT ![t] = sent[t]]
    BY <1>3
  <2>2. {"connect", "idle"} \subseteq Places \ (Holding \cup Handshaking)
    BY DEF Calls
  <2> QED BY <1>1, <1>3, <2>1, <2>2, QuietMove
<1> QED BY <1>2, <1>3

\* Close stops the services of a connected client, whose transport is up.
LEMMA CloseInv == ASSUME Inv, NEW t \in Threads, Close(t) PROVE Inv'
<1> USE PlacesApart DEF Inv, Close, Go, TypeOK, credentials, login, channel
<1>1. at[t] \notin Holding \cup Handshaking
  BY DEF Calls
<1>2. TypeOK'
  OBVIOUS
<1>3. LockHasAnOwner'
  BY <1>1 DEF LockHasAnOwner, Holding
<1>4. connected => link /\ \A u \in Threads : at[u] \notin Handshaking
  BY DEF OneHandshake, ConnectedHasLink
<1>5. OneHandshake' /\ ConnectedHasLink' /\ ServedWhileConnected' /\ ClosedKeepsLink'
  BY <1>4 DEF OneHandshake, ConnectedHasLink, ServedWhileConnected, ClosedKeepsLink
<1>6. RpcUnderOneIdentity'
  BY FreeMeansNobody DEF RpcUnderOneIdentity, Holding
<1> QED BY <1>2, <1>3, <1>5, <1>6

-----------------------------------------------------------------------------
(* The steps that take, keep or release the mutex. *)

\* Reconnect takes the mutex for good.
LEMMA ReconnectInv == ASSUME Inv, NEW t \in Threads, Reconnect(t) PROVE Inv'
<1> USE PlacesApart DEF Inv, Reconnect, Go, TypeOK, flags, credentials, login, channel
<1>1. TypeOK'
  BY DEF Wedged
<1>2. LockHasAnOwner'
  BY ClientAssumption, FreeMeansNobody DEF LockHasAnOwner, Wedged, Holding
<1>3. OneHandshake' /\ ConnectedHasLink' /\ ServedWhileConnected' /\ ClosedKeepsLink'
  BY DEF OneHandshake, ConnectedHasLink, ServedWhileConnected, ClosedKeepsLink, Handshaking
<1>4. RpcUnderOneIdentity'
  BY FreeMeansNobody DEF RpcUnderOneIdentity, Holding, Rpcs
<1> QED BY <1>1, <1>2, <1>3, <1>4

\* A request begins with the mutex held, the client connected and the tenant sent.
LEMMA BeginRpcInv ==
  ASSUME Inv, NEW t \in Threads, NEW call \in Calls, NEW rpc \in Rpcs, BeginRpc(t, call, rpc)
  PROVE  Inv'
<1> USE PlacesApart DEF Inv, BeginRpc, Go, Send, TypeOK, flags, credentials, login, channel
<1>1. at[t] \notin Holding \cup Handshaking
  OBVIOUS
<1>2. CASE connected
  <2>1. TypeOK'
    BY <1>2
  <2>2. LockHasAnOwner'
    BY <1>2, ClientAssumption, FreeMeansNobody DEF LockHasAnOwner, Holding
  <2>3. OneHandshake' /\ ConnectedHasLink' /\ ServedWhileConnected' /\ ClosedKeepsLink'
    BY <1>2 DEF OneHandshake, ConnectedHasLink, ServedWhileConnected, ClosedKeepsLink
  <2>4. RpcUnderOneIdentity'
    BY <1>2, FreeMeansNobody DEF RpcUnderOneIdentity, Holding, ConnectedHasLink
  <2> QED BY <2>1, <2>2, <2>3, <2>4
<1>3. CASE ~connected
  <2>1. sent' = [sent EXCEPT ![t] = sent[t]]
    BY <1>3
  <2> QED BY <1>1, <1>3, <2>1, QuietMove
<1> QED BY <1>2, <1>3

\* An acknowledged heartbeat waits for the mutex it holds.
LEMMA HeartbeatAcknowledgedInv ==
  ASSUME Inv, NEW t \in Threads, HeartbeatAcknowledged(t) PROVE Inv'
<1> USE PlacesApart
    DEF Inv, HeartbeatAcknowledged, Go, Send, TypeOK, flags, credentials, login, channel
<1>1. at[t] \in Holding /\ at[t] \notin Handshaking /\ "recording" \in Wedged
  BY DEF Holding, Rpcs, Wedged
<1>2. TypeOK'
  BY <1>1
<1>3. LockHasAnOwner'
  BY <1>1 DEF LockHasAnOwner, Holding
<1>4. OneHandshake' /\ ConnectedHasLink' /\ ServedWhileConnected' /\ ClosedKeepsLink'
  BY <1>1 DEF OneHandshake, ConnectedHasLink, ServedWhileConnected, ClosedKeepsLink
<1>5. RpcUnderOneIdentity'
  BY <1>1 DEF RpcUnderOneIdentity
<1> QED BY <1>2, <1>3, <1>4, <1>5

\* The end of a request releases the mutex.
LEMMA RpcEndsInv == ASSUME Inv, NEW t \in Threads, RpcEnds(t) PROVE Inv'
<1> USE PlacesApart DEF Inv, RpcEnds, Go, Send, TypeOK, flags, credentials, login, channel
<1>1. at[t] \in Holding /\ lock = t
  BY DEF Holding, LockHasAnOwner
<1>2. TypeOK'
  OBVIOUS
<1>3. LockHasAnOwner'
  BY <1>1, ClientAssumption DEF LockHasAnOwner
<1>4. OneHandshake' /\ ConnectedHasLink' /\ ServedWhileConnected' /\ ClosedKeepsLink'
  BY DEF OneHandshake, ConnectedHasLink, ServedWhileConnected, ClosedKeepsLink
<1>5. RpcUnderOneIdentity'
  BY DEF RpcUnderOneIdentity, Holding
<1> QED BY <1>2, <1>3, <1>4, <1>5

\* A login is stored with the mutex free: no request is on its way.
LEMMA StoreLoginInv == ASSUME Inv, NEW t \in Threads, StoreLogin(t) PROVE Inv'
<1> USE PlacesApart DEF Inv, StoreLogin, Go, Send, TypeOK, flags, channel
<1>1. TypeOK'
  OBVIOUS
<1>2. LockHasAnOwner'
  BY DEF LockHasAnOwner
<1>3. OneHandshake' /\ ConnectedHasLink' /\ ServedWhileConnected' /\ ClosedKeepsLink'
  BY DEF OneHandshake, ConnectedHasLink, ServedWhileConnected, ClosedKeepsLink
<1>4. RpcUnderOneIdentity'
  BY FreeMeansNobody DEF RpcUnderOneIdentity, Holding
<1> QED BY <1>1, <1>2, <1>3, <1>4

\* A configuration change sends idle goroutines to work.
LEMMA HandleConfigChangeInv ==
  ASSUME Inv, NEW t \in Threads, HandleConfigChange(t) PROVE Inv'
<1> USE PlacesApart DEF Inv, HandleConfigChange, TypeOK, flags, channel
<1>1. PICK secret \in Tokens \cup {None}, redial \in SUBSET Idle, reauth \in SUBSET Idle :
        /\ token' = secret
        /\ at' = [u \in Threads |-> IF u \in redial THEN "dropping"
                                    ELSE IF u \in reauth THEN "authenticate"
                                    ELSE IF u = t THEN "idle" ELSE at[u]]
        /\ sent' = [u \in Threads |-> IF u \in reauth THEN secret ELSE sent[u]]
  BY DEF Workers
<1>2. \A u \in Threads : \/ at'[u] = at[u] /\ sent'[u] = sent[u]
                         \/ /\ at[u] \notin Holding \cup Handshaking
                            /\ at'[u] \in Places \ (Holding \cup Handshaking)
  BY <1>1 DEF Idle, Calls
<1>3. TypeOK'
  BY <1>1, <1>2
<1>4. LockHasAnOwner'
  BY <1>2 DEF LockHasAnOwner
<1>5. OneHandshake' /\ ConnectedHasLink' /\ ServedWhileConnected' /\ ClosedKeepsLink'
  BY <1>2 DEF OneHandshake, ConnectedHasLink, ServedWhileConnected, ClosedKeepsLink
<1>6. RpcUnderOneIdentity'
  BY <1>2 DEF RpcUnderOneIdentity, Holding
<1> QED BY <1>3, <1>4, <1>5, <1>6

-----------------------------------------------------------------------------
(* The remaining steps move one goroutine from a quiet place to another. *)

\* A goroutine enters a call.
LEMMA CallInv == ASSUME Inv, NEW t \in Threads, Call(t) PROVE Inv'
<1>1. PICK op \in Calls, v \in Tokens \cup {None} : Go(t, op) /\ Send(t, v)
  BY DEF Call
<1> QED
  BY <1>1, PlacesApart, QuietMove
  DEF Call, Send, Inv, TypeOK, flags, credentials, login, channel

\* Connect's check, its announcement, Authenticate's check, its login and its P2P
\* manager, and SubscribeState.
LEMMA QuietStepsInv ==
  ASSUME Inv, NEW t \in Threads,
         \/ CheckConnect(t) \/ Announce(t) \/ BeginAuthenticate(t) \/ Login(t)
         \/ InitializeP2PManager(t) \/ SubscribeState(t)
  PROVE  Inv'
<1> USE PlacesApart, QuietMove DEF Inv, TypeOK, flags, credentials, login, channel, Send
<1>0. sent[t] \in Tokens \cup {None} /\ sent = [sent EXCEPT ![t] = sent[t]]
  OBVIOUS
<1>1. CASE CheckConnect(t)
  <2>1. Go(t, "idle") \/ Go(t, "dialing")
    BY <1>1 DEF CheckConnect
  <2> QED BY <1>0, <1>1, <2>1 DEF CheckConnect, Calls
<1>2. CASE Announce(t)
  <2>1. events' \in 0..EventCap /\ (subscribed' \/ events' = 0)
    BY <1>2, ClientAssumption DEF Announce
  <2> QED BY <1>0, <1>2, <2>1 DEF Announce
<1>3. CASE BeginAuthenticate(t)
  BY <1>0, <1>3 DEF BeginAuthenticate, Calls
<1>4. CASE Login(t)
  BY <1>0, <1>4 DEF Login
<1>5. CASE SubscribeState(t)
  BY <1>0, <1>5 DEF SubscribeState, Calls
<1>6. CASE InitializeP2PManager(t)
  BY <1>0, <1>6 DEF InitializeP2PManager
<1> QED BY <1>1, <1>2, <1>3, <1>4, <1>5, <1>6

\* Reading an event, and stuttering, leave everything else alone.
LEMMA OtherStepsInv == ASSUME Inv, TakeEvent \/ UNCHANGED vars PROVE Inv'
<1>1. UNCHANGED <<lock, connected, link, services, identity, token, subscribed, at, sent>>
  BY DEF TakeEvent, vars, flags, credentials, login, channel
<1>2. TypeOK'
  BY <1>1, ClientAssumption DEF Inv, TypeOK, TakeEvent, vars, flags, credentials, login, channel
<1>3. LockHasAnOwner' /\ OneHandshake' /\ ConnectedHasLink' /\ ServedWhileConnected'
        /\ ClosedKeepsLink' /\ RpcUnderOneIdentity'
  BY <1>1 DEF Inv, LockHasAnOwner, OneHandshake, ConnectedHasLink, ServedWhileConnected,
              ClosedKeepsLink, RpcUnderOneIdentity
<1> QED BY <1>2, <1>3 DEF Inv

-----------------------------------------------------------------------------

\* The inductive invariant holds in every state of every behaviour.
THEOREM Invariance == Spec => []Inv
<1>1. Inv /\ [Next]_vars => Inv'
  <2> SUFFICES ASSUME Inv, [Next]_vars PROVE Inv'
    OBVIOUS
  <2>1. CASE TakeEvent \/ UNCHANGED vars
    BY <2>1, OtherStepsInv
  <2>2. CASE \E t \in Threads : Call(t)
    BY <2>2, CallInv
  <2>3. ASSUME NEW t \in Threads, Step(t) PROVE Inv'
    <3>1. CASE BeginHeartbeat(t) \/ BeginTunnel(t)
      BY <3>1, BeginRpcInv DEF BeginHeartbeat, BeginTunnel, Calls, Rpcs
    <3>2. CASE \/ CheckConnect(t) \/ Announce(t) \/ BeginAuthenticate(t) \/ Login(t)
               \/ InitializeP2PManager(t) \/ SubscribeState(t)
      BY <3>2, QuietStepsInv
    <3> QED BY <2>3, <3>1, <3>2, DialInv, GreetInv, InstallInv, DisconnectInv, CloseInv,
               ReconnectInv, HeartbeatAcknowledgedInv, RpcEndsInv, StoreLoginInv,
               HandleConfigChangeInv DEF Step
  <2> QED BY <2>1, <2>2, <2>3 DEF Next
<1> QED BY <1>1, InitInv, PTL DEF Spec

\* The variables keep their types.
THEOREM TypeCorrect == Spec => []TypeOK
BY Invariance, PTL DEF Inv

\* However many goroutines call the client, no return path leaves the mutex locked.
THEOREM MutexIsReleased == Spec => []LockHasAnOwner
BY Invariance, PTL DEF Inv

\* However many goroutines connect at once, one shakes hands, and a connected client
\* has its transport.
THEOREM OneConnectionAtATime == Spec => []OneHandshake /\ []ConnectedHasLink
BY Invariance, PTL DEF Inv

\* A client whose services Close has stopped is never connected again.
THEOREM ClosedIsNotRevived == Spec => []ServedWhileConnected
BY Invariance, PTL DEF Inv

\* A request to the relay runs on a connected client and under the tenant it names.
THEOREM RequestsKeepTheirIdentity == Spec => []RpcUnderOneIdentity
BY Invariance, PTL DEF Inv

-----------------------------------------------------------------------------
(* The client implements ClientPromise: each step of a goroutine is a step *)
(* of the promise or leaves what it shows unchanged.                       *)

LoggingIn == {"authenticate", "loggingIn", "storing"}

\* A goroutine on its way to a login carries the token it logs in with.
LoginsHaveTokens == \A t \in Threads : at[t] \in LoggingIn => sent[t] \in Tokens

\* The requests on their way, as the promise shows them.
Serving == {<<t, sent[t]>> : t \in {u \in Threads : at[u] \in Rpcs}}

\* What the promise shows.
Shown == <<connected, ~services, identity, Serving>>

\* It picks the token up when it enters the call, and drops it when the call ends.
LEMMA LoginsInv ==
  ASSUME Inv, LoginsHaveTokens, [Next]_vars
  PROVE  LoginsHaveTokens'
<1> USE DEF Inv, TypeOK, LoginsHaveTokens, LoggingIn
<1>1. CASE TakeEvent \/ UNCHANGED vars
  BY <1>1 DEF TakeEvent, vars
<1>2. ASSUME NEW t \in Threads, Call(t) PROVE LoginsHaveTokens'
  <2>1. PICK op \in Calls, tok \in Tokens :
          Go(t, op) /\ Send(t, IF op = "authenticate" THEN tok ELSE None)
    BY <1>2 DEF Call
  <2> QED BY <2>1 DEF Go, Send, Calls
<1>3. ASSUME NEW t \in Threads, Step(t) PROVE LoginsHaveTokens'
  <2>1. CASE CheckConnect(t) \/ Dial(t) \/ Greet(t) \/ Install(t) \/ Announce(t)
    BY <2>1 DEF CheckConnect, Dial, Greet, Install, Announce, Go
  <2>2. CASE Disconnect(t) \/ Close(t) \/ Reconnect(t) \/ SubscribeState(t)
    BY <2>2 DEF Disconnect, Close, Reconnect, SubscribeState, Go
  <2>3. CASE BeginHeartbeat(t) \/ BeginTunnel(t)
    BY <2>3 DEF BeginHeartbeat, BeginTunnel, BeginRpc, Go, Send
  <2>4. CASE HeartbeatAcknowledged(t) \/ RpcEnds(t)
    BY <2>4 DEF HeartbeatAcknowledged, RpcEnds, Go, Send
  <2>5. CASE BeginAuthenticate(t) \/ Login(t)
    BY <2>5 DEF BeginAuthenticate, Login, Go, Send
  <2>6. CASE StoreLogin(t) \/ InitializeP2PManager(t)
    BY <2>6 DEF StoreLogin, InitializeP2PManager, Go, Send
  <2>7. CASE HandleConfigChange(t)
    <3>1. PICK secret \in Tokens \cup {token}, redial \in SUBSET Threads,
               reauth \in SUBSET Threads :
            /\ reauth # {} => secret \in Tokens
            /\ at' = [u \in Threads |-> IF u \in redial THEN "dropping"
                                        ELSE IF u \in reauth THEN "authenticate"
                                        ELSE IF u = t THEN "idle" ELSE at[u]]
            /\ sent' = [u \in Threads |-> IF u \in reauth THEN secret ELSE sent[u]]
      BY <2>7 DEF HandleConfigChange, Workers, Idle
    <3> QED BY <3>1
  <2> QED BY <1>3, <2>1, <2>2, <2>3, <2>4, <2>5, <2>6, <2>7 DEF Step
<1> QED BY <1>1, <1>2, <1>3 DEF Next

\* Nobody is served while the mutex is free.
LEMMA FreeServesNobody == ASSUME Inv, lock = Free PROVE Serving = {}
BY FreeMeansNobody DEF Inv, Serving, Holding

\* A goroutine that holds the mutex is the only one that may be served.
LEMMA OneIsServed ==
  ASSUME Inv, NEW t \in Threads, lock = t
  PROVE  \A u \in Threads \ {t} : at[u] \notin Holding
BY DEF Inv, LockHasAnOwner

\* A step in which nobody enters or leaves a request leaves the requests as they are.
LEMMA ServingStays ==
  ASSUME Inv, Inv', \A t \in Threads : \/ at'[t] = at[t] /\ sent'[t] = sent[t]
                                       \/ at[t] \notin Rpcs /\ at'[t] \notin Rpcs
  PROVE  Serving' = Serving
<1>1. {u \in Threads : at'[u] \in Rpcs} = {u \in Threads : at[u] \in Rpcs}
  BY DEF Rpcs
<1>2. \A t \in Threads : at[t] \in Rpcs => sent'[t] = sent[t]
  OBVIOUS
<1> QED BY <1>1, <1>2 DEF Serving, Rpcs

\* A request begins: the goroutine that has it now holds the mutex, alone.
LEMMA RequestIsPromised ==
  ASSUME Inv, Inv', NEW t \in Threads, NEW call \in Calls, NEW rpc \in Rpcs,
         BeginRpc(t, call, rpc)
  PROVE  Promise!Request \/ UNCHANGED Shown
<1> USE DEF BeginRpc, Go, Send, flags, credentials, login
<1>1. CASE connected
  <2>1. Serving = {}
    BY FreeServesNobody
  <2>2. lock' = t /\ at'[t] \in Rpcs /\ sent'[t] = identity
    BY <1>1 DEF Inv, TypeOK
  <2>3. \A u \in Threads \ {t} : at'[u] \notin Rpcs
    BY <2>2, FreeMeansNobody DEF Inv, TypeOK, Holding
  <2>4. Serving' = {<<t, identity>>}
    BY <2>2, <2>3 DEF Serving
  <2> QED BY <1>1, <2>1, <2>4 DEF Promise!Request, Serving
<1>2. CASE ~connected
  <2>1. Serving' = Serving
    BY <1>2, ServingStays, PlacesApart DEF Inv, TypeOK, Holding
  <2> QED BY <1>2, <2>1 DEF Shown
<1> QED BY <1>1, <1>2

\* A request ends, with an acknowledged heartbeat or otherwise.
LEMMA AnswerIsPromised ==
  ASSUME Inv, Inv', NEW t \in Threads, HeartbeatAcknowledged(t) \/ RpcEnds(t)
  PROVE  Promise!Answer
<1> USE DEF HeartbeatAcknowledged, RpcEnds, Go, Send, flags, credentials, login
<1>1. at[t] \in Rpcs /\ lock = t
  BY DEF Inv, LockHasAnOwner, Holding, Rpcs
<1>2. \A u \in Threads \ {t} : at'[u] \notin Rpcs
  BY <1>1, OneIsServed DEF Inv, TypeOK, Holding
<1>3. at'[t] \notin Rpcs
  BY DEF Inv, TypeOK, Rpcs
<1>4. Serving' = {}
  BY <1>2, <1>3 DEF Serving
<1> QED BY <1>4 DEF Promise!Answer, Serving

\* The steps that change the flags or the login find the mutex free.
LEMMA FlagStepsArePromised ==
  ASSUME Inv, Inv', LoginsHaveTokens, NEW t \in Threads,
         Install(t) \/ Disconnect(t) \/ Close(t) \/ StoreLogin(t)
  PROVE  Promise!Next \/ UNCHANGED Shown
<1> USE DEF Inv, TypeOK, Go, Send, flags, credentials, login
<1>1. Serving = {}
  BY FreeServesNobody DEF Install, Disconnect, Close, StoreLogin
<1>2. Serving' = Serving
  <2>1. \A u \in Threads : at[u] \notin Rpcs
    BY FreeMeansNobody DEF Install, Disconnect, Close, StoreLogin, Holding
  <2>2. at'[t] \notin Rpcs /\ \A u \in Threads \ {t} : at'[u] = at[u]
    BY DEF Install, Disconnect, Close, StoreLogin, Rpcs
  <2> QED BY <2>1, <2>2, ServingStays
<1>3. CASE Install(t)
  <2>1. ~connected /\ services
    BY <1>3 DEF Install, OneHandshake, ClosedKeepsLink, Handshaking
  <2>2. Promise!Connect
    BY <1>2, <1>3, <2>1 DEF Install, Promise!Connect, Serving
  <2> QED BY <2>2 DEF Promise!Next
<1>4. CASE Disconnect(t)
  <2>1. CASE connected
    <3>1. Promise!Disconnect
      BY <1>1, <1>2, <1>4, <2>1 DEF Disconnect, Promise!Disconnect, Serving
    <3> QED BY <3>1 DEF Promise!Next
  <2>2. CASE ~connected
    BY <1>2, <1>4, <2>2 DEF Disconnect, Shown
  <2> QED BY <2>1, <2>2
<1>5. CASE Close(t)
  <2>1. (~services') = (~services \/ connected)
    BY <1>5 DEF Close
  <2>2. Promise!Close
    BY <1>1, <1>2, <1>5, <2>1 DEF Close, Promise!Close, Serving
  <2> QED BY <2>2 DEF Promise!Next
<1>6. CASE StoreLogin(t)
  <2>1. sent[t] \in Tokens
    BY <1>6 DEF StoreLogin, LoginsHaveTokens, LoggingIn
  <2>2. Promise!Login
    BY <1>1, <1>2, <1>6, <2>1 DEF StoreLogin, Promise!Login, Serving
  <2> QED BY <2>2 DEF Promise!Next
<1> QED BY <1>3, <1>4, <1>5, <1>6

\* The other steps of a call neither change the flags nor enter or leave a request.
LEMMA OtherStepsAreHidden ==
  ASSUME Inv, Inv', NEW t \in Threads,
         \/ CheckConnect(t) \/ Dial(t) \/ Greet(t) \/ Announce(t) \/ Reconnect(t)
         \/ BeginAuthenticate(t) \/ Login(t) \/ InitializeP2PManager(t)
         \/ SubscribeState(t) \/ HandleConfigChange(t) \/ Call(t)
  PROVE  UNCHANGED Shown
<1> USE DEF Inv, TypeOK, Go, Send, flags, credentials, login
<1>1. UNCHANGED <<connected, services, identity>>
  BY DEF CheckConnect, Dial, Greet, Announce, Reconnect, BeginAuthenticate, Login,
         InitializeP2PManager, SubscribeState, HandleConfigChange, Call
<1>2. \A u \in Threads : \/ at'[u] = at[u] /\ sent'[u] = sent[u]
                         \/ at[u] \notin Rpcs /\ at'[u] \notin Rpcs
  <2>1. CASE HandleConfigChange(t)
    <3>1. PICK secret \in Tokens \cup {None}, redial \in SUBSET Idle, reauth \in SUBSET Idle :
            /\ at' = [u \in Threads |-> IF u \in redial THEN "dropping"
                                        ELSE IF u \in reauth THEN "authenticate"
                                        ELSE IF u = t THEN "idle" ELSE at[u]]
            /\ sent' = [u \in Threads |-> IF u \in reauth THEN secret ELSE sent[u]]
      BY <2>1 DEF HandleConfigChange, Workers
    <3> QED BY <2>1, <3>1 DEF HandleConfigChange, Idle, Rpcs
  <2>2. CASE Call(t)
    <3>1. \A op \in Calls : op \notin Rpcs
      BY DEF Calls, Rpcs
    <3> QED BY <2>2, <3>1 DEF Call, Rpcs
  <2>3. CASE CheckConnect(t) \/ Dial(t) \/ Greet(t) \/ Announce(t) \/ Reconnect(t)
    BY <2>3 DEF CheckConnect, Dial, Greet, Announce, Reconnect, Rpcs
  <2>4. CASE \/ BeginAuthenticate(t) \/ Login(t) \/ InitializeP2PManager(t)
             \/ SubscribeState(t)
    BY <2>4 DEF BeginAuthenticate, Login, InitializeP2PManager, SubscribeState, Rpcs
  <2> QED BY <2>1, <2>2, <2>3, <2>4
<1>3. Serving' = Serving
  BY <1>2, ServingStays
<1> QED BY <1>1, <1>3 DEF Shown

\* Any step is a step of the promise, or is not visible in it.
LEMMA StepIsPromised ==
  ASSUME Inv, Inv', LoginsHaveTokens, [Next]_vars
  PROVE  [Promise!Next]_Shown
<1>1. CASE TakeEvent \/ UNCHANGED vars
  BY <1>1 DEF TakeEvent, vars, Shown, Serving, flags, credentials, login
<1>2. ASSUME NEW t \in Threads, Call(t) \/ Step(t) PROVE [Promise!Next]_Shown
  <2>1. CASE BeginHeartbeat(t) \/ BeginTunnel(t)
    <3>1. Promise!Request \/ UNCHANGED Shown
      BY <2>1, RequestIsPromised DEF BeginHeartbeat, BeginTunnel, Calls, Rpcs
    <3> QED BY <3>1 DEF Promise!Next
  <2>2. CASE HeartbeatAcknowledged(t) \/ RpcEnds(t)
    BY <2>2, AnswerIsPromised DEF Promise!Next
  <2>3. CASE Install(t) \/ Disconnect(t) \/ Close(t) \/ StoreLogin(t)
    BY <2>3, FlagStepsArePromised
  <2>4. CASE \/ CheckConnect(t) \/ Dial(t) \/ Greet(t) \/ Announce(t) \/ Reconnect(t)
             \/ BeginAuthenticate(t) \/ Login(t) \/ InitializeP2PManager(t)
             \/ SubscribeState(t) \/ HandleConfigChange(t) \/ Call(t)
    BY <2>4, OtherStepsAreHidden
  <2> QED BY <1>2, <2>1, <2>2, <2>3, <2>4 DEF Step
<1> QED BY <1>1, <1>2 DEF Next

\* To its callers, however many goroutines they run, the client is one that serves a
\* request at a time, on one connection and under one login, and that does not come
\* back after a Close.
THEOREM ClientImplementsPromise == Spec => ClientKeepsPromise
<1>1. Init => LoginsHaveTokens
  BY DEF Init, LoginsHaveTokens, LoggingIn
<1>2. Init => Promise!Init
  BY DEF Init, Promise!Init, Rpcs
<1>3. Inv /\ Inv' /\ LoginsHaveTokens /\ [Next]_vars
        => LoginsHaveTokens' /\ [Promise!Next]_Shown
  BY LoginsInv, StepIsPromised
<1>4. Spec => []LoginsHaveTokens
  BY <1>1, <1>3, Invariance, PTL DEF Spec
<1>5. [Promise!Next]_Shown => [Promise!Next]_(Promise!vars)
  BY DEF Promise!vars, Shown, Serving
<1> QED BY <1>2, <1>3, <1>4, <1>5, Invariance, PTL DEF Spec, ClientKeepsPromise, Promise!Spec

\* Client as a caller sees it who knows its promise only: a request is served alone, on
\* a connection and under the login it names, and never after a Close.
THEOREM CallersAreServedAlone == Spec => []Promise!ServedAlone
<1> USE DEF Promise!ServedAlone
<1>1. Promise!Init => Promise!ServedAlone
  BY DEF Promise!Init
<1>2. Promise!ServedAlone /\ [Promise!Next]_(Promise!vars) => Promise!ServedAlone'
  BY DEF Promise!Next, Promise!vars, Promise!Connect, Promise!Request, Promise!Answer,
         Promise!Disconnect, Promise!Close, Promise!Login
<1> QED
  BY <1>1, <1>2, ClientImplementsPromise, PTL DEF ClientKeepsPromise, Promise!Spec
=============================================================================
