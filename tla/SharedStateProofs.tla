------------------------- MODULE SharedStateProofs -------------------------
(***************************************************************************)
(* What the token validation, the transport and the mesh guarantee for any *)
(* number of goroutines, keys, connections, peers and prefixes.  Each part *)
(* has an inductive invariant of its own.                                  *)
(***************************************************************************)
EXTENDS MeshNetwork, TunnelOpening, AuthManager, TLAPS

-----------------------------------------------------------------------------
(* Token validation. *)

\* A validation that is not excused carries its key's good standing along: the
\* key is usable and published, in the key set it has fetched, and in the cache it
\* stored.
KeyIsKnown ==
  \A v \in Validators : validatorAt[v] # "idle" /\ ~excused[v] /\ authConfig.type = "oidc" =>
    /\ token[v].key \in Convertible(published)
    /\ validatorAt[v] = "store" => token[v].key \in Convertible(fetched[v])
    /\ validatorAt[v] = "again" => token[v].key \in jwksCache
    /\ validatorAt[v] = "rejected" => ~ClaimsPass(token[v])

\* With secrets there is nothing but the verdict.
SecretDecides ==
  authConfig.type = "jwt" =>
    \A v \in Validators : validatorAt[v] \in {"idle", "accepted"}
                           \/ (validatorAt[v] = "rejected" /\ excused[v])

AuthInv == AuthTypeOK /\ KeyIsKnown /\ SecretDecides

\* The manager with the keys of its first fetch.
LEMMA AuthInitInv == AuthInit => AuthInv
BY AuthAssumption DEF AuthInit, AuthInv, AuthTypeOK, KeyIsKnown, SecretDecides, NoToken, Tokens,
                      Convertible

\* A validation's own steps.
LEMMA ValidationInv ==
  ASSUME AuthInv, NEW v \in Validators,
         \/ \E t \in JwtTokens : ValidateJWTToken(v, t)
         \/ \E t \in Tokens : ValidateToken(v, t)
         \/ LookUp(v) \/ FetchJWKS(v) \/ FetchFails(v) \/ RefreshJWKS(v) \/ LookUpAgain(v)
  PROVE  AuthInv'
<1> USE AuthAssumption
    DEF AuthInv, AuthTypeOK, KeyIsKnown, SecretDecides, ValidatorGoes, Verdict, ClaimsPass,
        Convertible
<1>0. CASE \E t \in JwtTokens : ValidateJWTToken(v, t)
  BY <1>0 DEF ValidateJWTToken
<1>1. CASE \E t \in Tokens : ValidateToken(v, t)
  <2>1. PICK t \in Tokens : ValidateToken(v, t)
    BY <1>1
  <2>2. AuthTypeOK'
    BY <2>1 DEF ValidateToken
  <2>3. ASSUME NEW u \in Validators, validatorAt'[u] # "idle", ~excused'[u]
        PROVE  /\ authConfig'.type = "oidc" /\ authConfig' = authConfig
               /\ published' = published
               /\ token'[u].key \in Convertible(published)
               /\ u = v \/ (validatorAt'[u] = validatorAt[u] /\ token'[u] = token[u])
               /\ validatorAt'[v] = "lookup"
               /\ jwksCache' = jwksCache /\ fetched' = fetched
               /\ u # v => ~excused[u]
    BY <2>1, <2>3 DEF ValidateToken
  <2>4. KeyIsKnown'
    BY <2>3
  <2>5. SecretDecides'
    BY <2>1 DEF ValidateToken
  <2> QED
    BY <2>2, <2>4, <2>5
<1>2. CASE LookUp(v)
  BY <1>2 DEF LookUp
<1>3. CASE FetchJWKS(v)
  BY <1>3 DEF FetchJWKS
<1>4. CASE FetchFails(v)
  BY <1>4 DEF FetchFails
<1>5. CASE RefreshJWKS(v)
  BY <1>5 DEF RefreshJWKS
<1>6. CASE LookUpAgain(v)
  BY <1>6 DEF LookUpAgain
<1> QED
  BY <1>0, <1>1, <1>2, <1>3, <1>4, <1>5, <1>6

\* The issuer changes its keys.
LEMMA RotateInv ==
  ASSUME AuthInv, NEW keys \in SUBSET Keys, Rotate(keys)
  PROVE  AuthInv'
BY AuthAssumption
DEF AuthInv, AuthTypeOK, KeyIsKnown, SecretDecides, Convertible, Rotate, authCalls

\* Every step of a validation, a refresh and the issuer keeps the invariant.
LEMMA AuthStepInv == AuthInv /\ [AuthNext]_authVars => AuthInv'
<1> SUFFICES ASSUME AuthInv, [AuthNext]_authVars PROVE AuthInv'
  OBVIOUS
<1>1. CASE AuthNext
  BY <1>1, ValidationInv, RotateInv DEF AuthNext
<1>2. CASE UNCHANGED authVars
  BY <1>2 DEF authVars, authCalls, AuthInv, AuthTypeOK, KeyIsKnown, SecretDecides, ClaimsPass,
                  Convertible
<1> QED
  BY <1>1, <1>2

\* AuthManager.ValidateToken, for any number of validations and keys: a token of
\* ours is turned away only for one of the two reasons RejectionsAreExcused names.
THEOREM GoodTokensPass == AuthSpec => []RejectionsAreExcused
<1>1. AuthInv => RejectionsAreExcused
  BY DEF AuthInv, AuthTypeOK, AuthConfigs, KeyIsKnown, SecretDecides, RejectionsAreExcused
<1> QED
  BY <1>1, AuthInitInv, AuthStepInv, PTL DEF AuthSpec

-----------------------------------------------------------------------------
(* The transport. *)

\* The dialler owns the client's mutex, and the client is not connected then.
DialIsAlone ==
  /\ \A u \in Users : userAt[u] \in {"dial", "dialled"} => gcLock = u
  /\ gcLock # NoUser => ~gcConnected
  /\ \A u \in Users : userAt[u] = "dialled" => userConn[u] \in opened

\* Once there was a connection there is one, if a closed one.
FieldStaysSet ==
  /\ gcConnected => gcConn \in opened
  /\ \A u \in Users : userAt[u] = "checked" => gcConn # NoSocket

\* An open socket is the client's or the dialler's.
SocketsAreHeld ==
  \A s \in opened \ closedSockets :
    \/ gcConnected /\ gcConn = s
    \/ \E u \in Users : userAt[u] = "dialled" /\ userConn[u] = s

\* After the cancellation a dial may end, but not succeed.
ClosingIsFinal ==
  /\ \A u \in Users : userAt[u] = "close" => gcCancelled
  /\ tmClosed => gcCancelled /\ \A u \in Users : userAt[u] # "dialled"

TransportInv ==
  /\ TransportTypeOK
  /\ DialIsAlone /\ FieldStaysSet /\ SocketsAreHeld /\ ClosingIsFinal
  /\ CallsHaveAConnection /\ ClosedForGood

\* The manager as it is made.
LEMMA TransportInitInv == TransportInit => TransportInv
BY DEF TransportInit, TransportInv, TransportTypeOK, DialIsAlone, FieldStaysSet,
       SocketsAreHeld, ClosingIsFinal, CallsHaveAConnection, ClosedForGood

\* What begins a call touches the manager's mutex at most.
LEMMA BeginsInv ==
  ASSUME TransportInv, NEW u \in Users, TransportBegins(u)
  PROVE  TransportInv'
<1> USE DEF TransportInv, UserGoes, gcState, tmState
<1> DEFINE First == {"connect", "disconnect", "call", "switching", "switched", "cancel"}
           Goes == /\ userAt[u] = "idle" /\ UNCHANGED <<gcState, userConn, tmClosed, tmMode>>
                   /\ \E stage \in First : userAt' = [userAt EXCEPT ![u] = stage]
                   /\ tmLock' \in Users \cup {NoUser} /\ switchTo' \in {"grpc", "json"}
<1>1. Goes
  <2>1. CASE \E stage \in {"connect", "disconnect", "call"} : GetTransport(u, stage)
    BY <2>1 DEF GetTransport, TransportTypeOK
  <2>2. CASE \E mode \in {"grpc", "json"} : SwitchBegins(u, mode)
    <3>1. PICK mode \in {"grpc", "json"} : SwitchBegins(u, mode)
      BY <2>2
    <3>2. CASE tmMode = "grpc"
      BY <3>1, <3>2 DEF SwitchBegins, TransportTypeOK
    <3>3. CASE tmMode # "grpc"
      BY <3>1, <3>3 DEF SwitchBegins, TransportTypeOK
    <3> QED
      BY <3>2, <3>3
  <2>3. CASE CloseLocks(u)
    BY <2>3 DEF CloseLocks, TransportTypeOK
  <2> QED
    BY <2>1, <2>2, <2>3 DEF TransportBegins
<1>2. TransportTypeOK'
  BY <1>1 DEF TransportTypeOK
<1>3. DialIsAlone' /\ FieldStaysSet' /\ CallsHaveAConnection' /\ ClosedForGood'
  BY <1>1 DEF TransportTypeOK, DialIsAlone, FieldStaysSet, CallsHaveAConnection, ClosedForGood
<1>4. SocketsAreHeld'
  BY <1>1 DEF TransportTypeOK, SocketsAreHeld
<1>5. ClosingIsFinal'
  BY <1>1 DEF TransportTypeOK, ClosingIsFinal
<1> QED
  BY <1>2, <1>3, <1>4, <1>5

\* Connecting: a connection made is the dialler's until it is the client's.
LEMMA DialInv ==
  ASSUME TransportInv, NEW u \in Users,
         DialBegins(u) \/ DialAnswered(u) \/ DialGivesUp(u) \/ DialStored(u)
  PROVE  TransportInv'
<1> USE TransportAssumption
    DEF TransportInv, TransportTypeOK, UserGoes, tmState, gcState, DialIsAlone, FieldStaysSet,
        SocketsAreHeld, ClosingIsFinal, CallsHaveAConnection, ClosedForGood
<1>1. CASE DialBegins(u)
  BY <1>1 DEF DialBegins
<1>2. CASE DialAnswered(u)
  <2>1. PICK s \in Sockets \ opened :
          opened' = opened \cup {s} /\ userConn' = [userConn EXCEPT ![u] = s]
    BY <1>2 DEF DialAnswered
  <2> QED
    BY <1>2, <2>1 DEF DialAnswered
<1>3. CASE DialGivesUp(u)
  BY <1>3 DEF DialGivesUp
<1>4. CASE DialStored(u)
  BY <1>4 DEF DialStored
<1> QED
  BY <1>1, <1>2, <1>3, <1>4

\* With the mutex free, nobody is dialling, and a drop leaves no open socket.
LEMMA DropFacts ==
  ASSUME TransportInv, gcLock = NoUser, DropConnection, UNCHANGED opened
  PROVE  /\ \A w \in Users : userAt[w] \notin {"dial", "dialled"}
         /\ gcConnected' = FALSE /\ gcConn' = gcConn
         /\ closedSockets' = opened
BY TransportAssumption DEF TransportInv, TransportTypeOK, DropConnection, DialIsAlone,
   FieldStaysSet, SocketsAreHeld

\* Disconnecting, by a caller, a switch or a close.
LEMMA DropInv ==
  ASSUME TransportInv, NEW u \in Users,
         Disconnected(u) \/ SwitchDisconnects(u) \/ CloseDisconnects(u)
  PROVE  TransportInv'
<1> DEFINE Drops(stage) == /\ gcLock = NoUser /\ DropConnection
                           /\ UNCHANGED <<opened, gcLock, gcCancelled, userConn, tmMode, switchTo>>
                           /\ userAt' = [userAt EXCEPT ![u] = stage]
                           /\ tmLock' \in {tmLock, NoUser}
<1>1. \/ (Drops("idle") \/ Drops("switched")) /\ UNCHANGED tmClosed
      \/ Drops("idle") /\ userAt[u] = "close" /\ tmClosed' = TRUE
  BY DEF Disconnected, SwitchDisconnects, CloseDisconnects, UserGoes, tmState
<1>2. /\ \A w \in Users : userAt[w] \notin {"dial", "dialled"}
      /\ gcConnected' = FALSE /\ gcConn' = gcConn
      /\ closedSockets' = opened
      /\ UNCHANGED <<opened, gcLock, gcCancelled, userConn, tmMode, switchTo>>
  BY <1>1, DropFacts
<1>3. tmClosed' \in BOOLEAN /\ (tmClosed' => gcCancelled)
  <2>1. /\ tmClosed \in BOOLEAN /\ (tmClosed => gcCancelled)
        /\ userAt[u] = "close" => gcCancelled
    BY DEF TransportInv, TransportTypeOK, ClosingIsFinal
  <2>2. UNCHANGED tmClosed \/ (userAt[u] = "close" /\ tmClosed' = TRUE)
    BY <1>1
  <2>3. CASE UNCHANGED tmClosed
    BY <2>1, <2>3
  <2>4. CASE userAt[u] = "close" /\ tmClosed' = TRUE
    BY <2>1, <2>4
  <2> QED
    BY <2>2, <2>3, <2>4
<1>4. PICK stage \in {"idle", "switched"} :
        userAt' = [userAt EXCEPT ![u] = stage] /\ tmLock' \in {tmLock, NoUser}
  BY <1>1
<1>5. TransportTypeOK'
  BY <1>2, <1>3, <1>4 DEF TransportInv, TransportTypeOK
<1>6. DialIsAlone' /\ FieldStaysSet' /\ SocketsAreHeld' /\ CallsHaveAConnection'
  BY <1>2, <1>4
     DEF TransportInv, TransportTypeOK, DialIsAlone, FieldStaysSet, SocketsAreHeld,
         CallsHaveAConnection
<1>7. ClosingIsFinal' /\ ClosedForGood'
  BY <1>2, <1>3, <1>4 DEF TransportInv, TransportTypeOK, ClosingIsFinal, ClosedForGood
<1> QED
  BY <1>5, <1>6, <1>7 DEF TransportInv

\* Calls, and the other steps of a switch and of a close.
LEMMA CallInv ==
  ASSUME TransportInv, NEW u \in Users,
         \/ IsConnected(u) \/ GetConnection(u) \/ CallAnswered(u) \/ CallFails(u)
         \/ Switched(u) \/ CloseCancels(u)
  PROVE  TransportInv'
<1> USE TransportAssumption
    DEF TransportInv, TransportTypeOK, UserGoes, tmState, gcState, DialIsAlone, FieldStaysSet,
        SocketsAreHeld, ClosingIsFinal, CallsHaveAConnection, ClosedForGood
<1>1. CASE IsConnected(u)
  BY <1>1 DEF IsConnected
<1>2. CASE GetConnection(u)
  BY <1>2 DEF GetConnection
<1>3. CASE CallAnswered(u) \/ CallFails(u)
  BY <1>3 DEF CallAnswered, CallFails, EndCall
<1>4. CASE Switched(u)
  BY <1>4 DEF Switched
<1>5. CASE CloseCancels(u)
  BY <1>5 DEF CloseCancels
<1> QED
  BY <1>1, <1>2, <1>3, <1>4, <1>5

\* Every step of a user and of the network keeps the invariant.
LEMMA TransportStepInv == TransportInv /\ [TransportNext]_transportVars => TransportInv'
<1> SUFFICES ASSUME TransportInv, [TransportNext]_transportVars PROVE TransportInv'
  OBVIOUS
<1>1. CASE TransportNext
  BY <1>1, BeginsInv, DialInv, DropInv, CallInv DEF TransportNext, TransportStep
<1>2. CASE UNCHANGED transportVars
  BY <1>2 DEF transportVars, tmState, gcState, TransportInv, TransportTypeOK, DialIsAlone,
     FieldStaysSet, SocketsAreHeld, ClosingIsFinal, CallsHaveAConnection, ClosedForGood
<1> QED
  BY <1>1, <1>2

\* So it holds throughout.
LEMMA TransportInvariance == TransportSpec => []TransportInv
BY TransportInitInv, TransportStepInv, PTL DEF TransportSpec

\* GRPCTransport's calls, for any number of goroutines and connections: none
\* runs on a nil connection after the check said connected.
THEOREM NoNilConnection == TransportSpec => []CallsHaveAConnection
BY TransportInvariance, PTL DEF TransportInv

\* TransportManager.Close, for any number of goroutines and connections: it
\* leaves no open connection behind, at once or later.
THEOREM CloseIsFinal == TransportSpec => []ClosedForGood
BY TransportInvariance, PTL DEF TransportInv

\* Whoever dials has found no connection open, and his is the next one.
LEMMA DialIsPromised ==
  ASSUME TransportInv, NEW u \in Users, DialAnswered(u)
  PROVE  Promise!Open
<1>1. userAt[u] = "dial" /\ gcLock = u /\ ~gcConnected /\ ~tmClosed
  BY TransportAssumption
     DEF DialAnswered, TransportInv, TransportTypeOK, DialIsAlone, ClosingIsFinal
<1>2. \A w \in Users : userAt[w] # "dialled"
  BY <1>1 DEF TransportInv, DialIsAlone
<1>3. opened \ closedSockets = {}
  BY <1>1, <1>2 DEF TransportInv, SocketsAreHeld
<1>4. PICK s \in Sockets \ opened : opened' = opened \cup {s}
  BY DEF DialAnswered
<1>5. opened' \ closedSockets' = {s} /\ tmClosed' = tmClosed
  BY <1>3, <1>4 DEF DialAnswered, TransportInv, TransportTypeOK
<1> QED
  BY <1>1, <1>3, <1>4, <1>5 DEF Promise!Open

\* A disconnect, a switch or a close leaves nothing open.
LEMMA DropIsPromised ==
  ASSUME TransportInv, NEW u \in Users,
         Disconnected(u) \/ SwitchDisconnects(u) \/ CloseDisconnects(u)
  PROVE  Promise!Drop \/ Promise!Finish
<1>1. gcLock = NoUser /\ DropConnection /\ UNCHANGED opened
  BY DEF Disconnected, SwitchDisconnects, CloseDisconnects
<1>2. opened' \ closedSockets' = {}
  BY <1>1, DropFacts
<1>3. UNCHANGED tmClosed \/ tmClosed' = TRUE
  BY DEF Disconnected, SwitchDisconnects, CloseDisconnects
<1> QED
  BY <1>1, <1>2, <1>3 DEF Promise!Drop, Promise!Finish

\* Each step of the transport is one of the promise's, or hidden from it.
LEMMA TransportStepIsPromised ==
  TransportInv /\ [TransportNext]_transportVars
    => [Promise!Next]_<<opened \ closedSockets, opened, tmClosed>>
<1> SUFFICES ASSUME TransportInv, [TransportNext]_transportVars
             PROVE  [Promise!Next]_<<opened \ closedSockets, opened, tmClosed>>
  OBVIOUS
<1>1. CASE UNCHANGED <<opened, closedSockets, tmClosed>>
  BY <1>1
<1>2. ASSUME NEW u \in Users, TransportBegins(u) PROVE UNCHANGED <<opened, closedSockets, tmClosed>>
  BY <1>2 DEF TransportBegins, GetTransport, SwitchBegins, CloseLocks, gcState
<1>3. ASSUME NEW u \in Users,
             \/ DialBegins(u) \/ DialGivesUp(u) \/ DialStored(u)
             \/ IsConnected(u) \/ GetConnection(u) \/ CallAnswered(u) \/ CallFails(u)
             \/ Switched(u) \/ CloseCancels(u)
      PROVE  UNCHANGED <<opened, closedSockets, tmClosed>>
  BY <1>3 DEF DialBegins, DialGivesUp, DialStored, IsConnected, GetConnection, CallAnswered,
     CallFails, EndCall, Switched, CloseCancels, gcState
<1>4. ASSUME NEW u \in Users, TransportStep(u), ~UNCHANGED <<opened, closedSockets, tmClosed>>
      PROVE  Promise!Next
  BY <1>3, <1>4, DialIsPromised, DropIsPromised DEF TransportStep, Promise!Next
<1>5. CASE UNCHANGED transportVars
  BY <1>5 DEF transportVars, gcState
<1> QED
  BY <1>1, <1>2, <1>4, <1>5 DEF TransportNext

\* The transport manager over gRPC, for any number of goroutines and connections:
\* it implements TransportPromise.
THEOREM TransportImplementsPromise == TransportSpec => TransportKeepsPromise
<1>1. TransportInit => Promise!Init
  BY DEF TransportInit, Promise!Init
<1> QED
  BY <1>1, TransportInvariance, TransportStepIsPromised, PTL
     DEF TransportSpec, TransportKeepsPromise, Promise!Spec

\* TransportManager as a user sees it who knows the promise only: however many connect,
\* there is one connection or none, and none once Close has returned.
THEOREM OneConnectionOrNone == TransportSpec => []Promise!OneOrNone
<1> USE DEF Promise!OneOrNone
<1>1. Promise!Init => Promise!OneOrNone
  BY DEF Promise!Init
<1>2. Promise!OneOrNone /\ [Promise!Next]_<<opened \ closedSockets, opened, tmClosed>>
        => Promise!OneOrNone'
  BY DEF Promise!Next, Promise!Open, Promise!Drop, Promise!Finish
<1> QED
  BY <1>1, <1>2, TransportImplementsPromise, PTL DEF TransportKeepsPromise, Promise!Spec

-----------------------------------------------------------------------------
(* The opening of a tunnel. *)

\* Nothing is closed before the session closes, nor is it forgotten after.
EndIsClosed ==
  /\ openerAt \in {"idle", "opened"} \cup Stages => closedSockets = {}
  /\ openerAt \in {"failed", "closed"} => tmClosed

\* Past its first stage the transport is connected, and in it only by the goroutine.
StagesAreReached ==
  /\ openerAt = "idle" => userAt[Helper] = "idle" /\ due = "nothing"
  /\ openerAt = "connecting" =>
       /\ userAt[Helper] \in {"idle", "connect", "dial", "dialled"} /\ due # "call"
       /\ answer = "ok" => gcConnected
  /\ openerAt \in {"authenticating", "creating", "opened"} => gcConnected

OpenInv == TransportInv /\ OpenTypeOK /\ EndIsClosed /\ StagesAreReached

\* An opening that has not begun.
LEMMA OpenInitInv == OpenInit => OpenInv
BY TransportInitInv, OpeningAssumption
   DEF OpenInit, OpenInv, TransportInit, OpenTypeOK, EndIsClosed, StagesAreReached, Stages

\* The session and its goroutine are users of the transport.
LEMMA OpenIsTransport == OpenTypeOK /\ [OpenNext]_openVars => [TransportNext]_transportVars
<1> SUFFICES ASSUME OpenTypeOK, [OpenNext]_openVars PROVE [TransportNext]_transportVars
  OBVIOUS
<1> USE OpeningAssumption
<1>1. CASE UNCHANGED openVars
  BY <1>1 DEF openVars
<1>2. CASE ConnectTransport \/ AuthenticateTransport \/ CreateTunnelTransport \/ SessionOpened
  BY <1>2 DEF ConnectTransport, AuthenticateTransport, CreateTunnelTransport, SessionOpened,
     StageBegins
<1>3. CASE DeadlinePasses \/ StageFails \/ SessionClose
  BY <1>3 DEF DeadlinePasses, StageFails, SessionClose, SessionCloses, TransportNext,
     TransportBegins
<1>4. CASE CloseGoesOn \/ CloseReturned
  BY <1>4 DEF CloseGoesOn, CloseReturned, TransportNext, TransportStep
<1>5. CASE HelperBegins
  <2>1. GetTransport(Helper, "connect") \/ GetTransport(Helper, "call")
    BY <1>5 DEF HelperBegins, OpenTypeOK
  <2> QED
    BY <2>1 DEF TransportNext, TransportBegins
<1>6. CASE HelperGoesOn \/ HelperSucceeds \/ HelperFails
  BY <1>6 DEF HelperGoesOn, HelperSucceeds, HelperFails, TransportNext, TransportStep
<1> QED
  BY <1>1, <1>2, <1>3, <1>4, <1>5, <1>6 DEF OpenNext

\* The steps of the session.
LEMMA SessionInv ==
  ASSUME OpenInv,
         \/ ConnectTransport \/ AuthenticateTransport \/ CreateTunnelTransport \/ SessionOpened
         \/ DeadlinePasses \/ StageFails \/ SessionClose \/ CloseGoesOn \/ CloseReturned
  PROVE  OpenTypeOK' /\ EndIsClosed' /\ StagesAreReached'
<1> USE OpeningAssumption DEF OpenInv, OpenTypeOK, EndIsClosed, StagesAreReached, Stages
<1>1. CASE ConnectTransport \/ AuthenticateTransport \/ CreateTunnelTransport \/ SessionOpened
  BY <1>1 DEF ConnectTransport, AuthenticateTransport, CreateTunnelTransport, SessionOpened,
     StageBegins, transportVars, tmState, gcState
<1>2. CASE DeadlinePasses \/ StageFails \/ SessionClose
  BY <1>2 DEF DeadlinePasses, StageFails, SessionClose, SessionCloses
<1>3. CASE CloseGoesOn
  BY <1>3 DEF CloseGoesOn, openerVars
<1>4. CASE CloseReturned
  BY <1>4 DEF CloseReturned, CloseDisconnects
<1> QED
  BY <1>1, <1>2, <1>3, <1>4

\* The steps of the goroutine, at whatever stage it finds the session.
LEMMA HelperInv ==
  ASSUME OpenInv, HelperBegins \/ HelperGoesOn \/ HelperSucceeds \/ HelperFails
  PROVE  OpenTypeOK' /\ EndIsClosed' /\ StagesAreReached'
<1> USE OpeningAssumption
    DEF OpenInv, OpenTypeOK, EndIsClosed, StagesAreReached, Stages, TransportInv,
        TransportTypeOK, UserGoes, gcState, tmState, openerVars, Answers
<1>1. CASE HelperBegins
  BY <1>1 DEF HelperBegins, GetTransport
<1>2. CASE HelperGoesOn
  BY <1>2 DEF HelperGoesOn, DialBegins, DialAnswered, IsConnected, GetConnection
<1>3. CASE HelperSucceeds
  BY <1>3 DEF HelperSucceeds, DialStored, CallAnswered, EndCall
<1>4. CASE HelperFails
  BY <1>4 DEF HelperFails, DialGivesUp, CallFails, EndCall, IsConnected
<1> QED
  BY <1>1, <1>2, <1>3, <1>4

\* Every step of an opening keeps the invariant.
LEMMA OpenStepInv == OpenInv /\ [OpenNext]_openVars => OpenInv'
<1> SUFFICES ASSUME OpenInv, [OpenNext]_openVars PROVE OpenInv'
  OBVIOUS
<1>1. TransportInv'
  BY OpenIsTransport, TransportStepInv DEF OpenInv
<1>2. OpenTypeOK' /\ EndIsClosed' /\ StagesAreReached'
  <2>1. CASE OpenNext
    BY <2>1, SessionInv, HelperInv DEF OpenNext
  <2>2. CASE UNCHANGED openVars
    BY <2>2 DEF openVars, openerVars, transportVars, gcState, tmState, OpenInv, OpenTypeOK,
       EndIsClosed, StagesAreReached
  <2> QED
    BY <2>1, <2>2
<1> QED
  BY <1>1, <1>2 DEF OpenInv

\* So it holds throughout.
LEMMA OpenInvariance == OpenSpec => []OpenInv
BY OpenInitInv, OpenStepInv, PTL DEF OpenSpec

\* What the session and the goroutine it waits for hold, for any number of
\* connections.
THEOREM OpeningTypes == OpenSpec => []OpenTypeOK
BY OpenInvariance, PTL DEF OpenInv

\* openGRPCTunnelSession and its goroutines make only such use of the manager as
\* any goroutines may: what holds of the transport holds of theirs.
THEOREM OpeningIsTransport == OpenSpec => TransportSpec /\ TransportKeepsPromise
<1>1. OpenInit => TransportInit
  BY DEF OpenInit
<1>2. OpenInv => OpenTypeOK
  BY DEF OpenInv
<1> QED
  BY <1>1, <1>2, OpenInvariance, OpenIsTransport, TransportImplementsPromise, PTL
     DEF OpenSpec, TransportSpec

\* openGRPCTunnelSession, for any number of connections: it ends connected or
\* with every connection closed, whatever the goroutines it gave up do later.
THEOREM OpeningLeavesNothing == OpenSpec => []OpenIsAllOrNothing
<1>1. OpenInv => OpenIsAllOrNothing
  BY DEF OpenInv, EndIsClosed, StagesAreReached, OpenIsAllOrNothing, TransportInv, ClosedForGood
<1> QED
  BY <1>1, OpenInvariance, PTL

-----------------------------------------------------------------------------
(* The mesh. *)

\* A peer that is known has a route to its id, and owns it, but for the time an
\* operation takes to write it.
IdsAreRouted ==
  \A p \in Peers :
    /\ owner[p] \in {p, NoPeer}
    /\ p \in known => owner[p] = p \/ meshOp = [kind |-> "announce", peer |-> p]

\* An operation is under way for a peer that is known, or was until it began.
OpIsForAPeer ==
  /\ meshOp.kind = "none" <=> meshOp.peer = NoPeer
  /\ meshOp.kind \in {"announce", "time"} => meshOp.peer \in known
  /\ meshOp.kind = "remove" => meshOp.peer \notin known

\* While the pass runs nobody else writes the tables: what it visits has a
\* route, and what it is about to divert an owner that does not answer for it.
PassSeesRoutes ==
  /\ pass.running \/ pass = NoPass
  /\ \A d \in pass.todo : route[d] # NoPeer
  /\ pass.dest # NoPeer =>
       LET o == owner[pass.dest]
       IN /\ pass.hop \in Peers /\ pass.dest \in Dests /\ o # NoPeer
          /\ \/ ~up[o] \/ pass.dest \notin announces[o]
             \/ meshOp = [kind |-> "announce", peer |-> o]

MeshInv ==
  /\ MeshTypeOK /\ IdsAreRouted /\ OpIsForAPeer /\ PassSeesRoutes
  /\ RoutesAreOwned /\ DetoursAreNeeded

\* The mesh without a peer.
LEMMA MeshInitInv == MeshInit => MeshInv
<1> SUFFICES ASSUME MeshInit PROVE MeshInv
  OBVIOUS
<1> USE MeshAssumption DEF MeshInit, NoOp, NoPass, Dests
<1>1. MeshTypeOK
  BY DEF MeshTypeOK
<1>2. IdsAreRouted /\ OpIsForAPeer /\ PassSeesRoutes
  BY DEF IdsAreRouted, OpIsForAPeer, PassSeesRoutes
<1>3. RoutesAreOwned /\ DetoursAreNeeded
  BY DEF RoutesAreOwned, DetoursAreNeeded
<1> QED
  BY <1>1, <1>2, <1>3 DEF MeshInv

\* What an operation may do to the topology before it writes the tables.
TopologyStep(kind, p) ==
  /\ meshOp = NoOp /\ meshOp' = [kind |-> kind, peer |-> p]
  /\ UNCHANGED <<tables, pass>>
  /\ known' \in SUBSET Peers /\ up' \in [Peers -> BOOLEAN]
  /\ announces' \in [Peers -> SUBSET Prefixes]
  /\ \A q \in Peers \ {p} : up'[q] = up[q] /\ announces'[q] = announces[q]

\* AddPeer and UpsertPeer make the peer known, and are about to write its routes.
LEMMA AnnounceInv ==
  ASSUME MeshInv, NEW p \in Peers, TopologyStep("announce", p), known' = known \cup {p}
  PROVE  MeshInv'
<1> USE MeshAssumption DEF MeshInv, TopologyStep, tables, NoOp, Dests
<1>1. MeshTypeOK' /\ OpIsForAPeer'
  BY DEF MeshTypeOK, OpIsForAPeer
<1>2. IdsAreRouted'
  BY DEF IdsAreRouted, MeshTypeOK
<1>3. PassSeesRoutes'
  BY DEF PassSeesRoutes, MeshTypeOK
<1>4. RoutesAreOwned' /\ DetoursAreNeeded'
  BY DEF RoutesAreOwned, DetoursAreNeeded, MeshTypeOK
<1> QED
  BY <1>1, <1>2, <1>3, <1>4

\* The other operations' first halves, and updateTopology, only take peers down.
LEMMA WithdrawInv ==
  ASSUME MeshInv, NEW p \in Peers, NEW kind \in {"time", "remove"}, TopologyStep(kind, p),
         p \in known, known' = IF kind = "time" THEN known ELSE known \ {p},
         kind = "time" => UNCHANGED <<up, announces>>,
         kind = "remove" => up'[p] = FALSE /\ announces'[p] = {}
  PROVE  MeshInv'
<1> USE MeshAssumption DEF MeshInv, TopologyStep, tables, NoOp, Dests
<1>1. MeshTypeOK' /\ OpIsForAPeer'
  BY DEF MeshTypeOK, OpIsForAPeer
<1>2. IdsAreRouted'
  BY DEF IdsAreRouted, MeshTypeOK
<1>3. \A q \in Peers : /\ up'[q] => up[q]
                       /\ announces'[q] \subseteq announces[q]
  BY DEF MeshTypeOK
<1>4. PassSeesRoutes'
  BY <1>3 DEF PassSeesRoutes, MeshTypeOK
<1>5. RoutesAreOwned'
  BY DEF RoutesAreOwned, MeshTypeOK
<1>6. DetoursAreNeeded'
  BY <1>3 DEF DetoursAreNeeded, RoutesAreOwned, MeshTypeOK
<1> QED
  BY <1>1, <1>2, <1>4, <1>5, <1>6

\* A table that is computed anew agrees with the topology.
LEMMA UpdateTopologyInv ==
  ASSUME MeshInv, NEW silent \in SUBSET known, UpdateTopology(silent)
  PROVE  MeshInv'
<1> USE MeshAssumption DEF MeshInv, UpdateTopology, tables, Dests
<1>1. MeshTypeOK' /\ OpIsForAPeer' /\ IdsAreRouted' /\ RoutesAreOwned'
  BY DEF MeshTypeOK, OpIsForAPeer, IdsAreRouted, RoutesAreOwned
<1>2. \A q \in Peers : up'[q] => up[q]
  BY DEF MeshTypeOK
<1>3. PassSeesRoutes'
  BY <1>2 DEF PassSeesRoutes, MeshTypeOK
<1>4. DetoursAreNeeded'
  BY <1>2 DEF DetoursAreNeeded, RoutesAreOwned, MeshTypeOK
<1> QED
  BY <1>1, <1>3, <1>4

\* The tables' writes: the routes a peer takes are its own afterwards.
LEMMA WriteTablesInv ==
  ASSUME MeshInv, WriteTables
  PROVE  MeshInv'
<1> USE MeshAssumption DEF MeshInv, WriteTables, topology, NoOp, Dests
<1> DEFINE p == meshOp.peer
           mine == {p} \cup announces[p]
<1>1. p \in Peers /\ mine \subseteq Dests /\ pass = NoPass
  BY DEF OpIsForAPeer, MeshTypeOK, PassSeesRoutes, UpdateRoutingForPeer,
     RemoveRoutingForPeer, RecordLatency
<1>2. OpIsForAPeer' /\ PassSeesRoutes'
  BY <1>1 DEF OpIsForAPeer, PassSeesRoutes, NoPass
<1>3. CASE UpdateRoutingForPeer(p)
  <2> USE <1>1, <1>3 DEF UpdateRoutingForPeer
  <2>1. MeshTypeOK'
    BY DEF MeshTypeOK
  <2>2. IdsAreRouted'
    BY DEF IdsAreRouted, MeshTypeOK, OpIsForAPeer
  <2>3. RoutesAreOwned'
    BY DEF RoutesAreOwned, MeshTypeOK, OpIsForAPeer
  <2>4. DetoursAreNeeded'
    BY DEF DetoursAreNeeded, RoutesAreOwned, MeshTypeOK
  <2> QED
    BY <1>2, <2>1, <2>2, <2>3, <2>4
<1>4. CASE RemoveRoutingForPeer(p)
  <2> USE <1>1, <1>4 DEF RemoveRoutingForPeer
  <2>1. MeshTypeOK'
    BY DEF MeshTypeOK
  <2>2. IdsAreRouted'
    BY DEF IdsAreRouted, MeshTypeOK, OpIsForAPeer
  <2>3. RoutesAreOwned'
    BY DEF RoutesAreOwned, MeshTypeOK, OpIsForAPeer
  <2>4. DetoursAreNeeded'
    BY DEF DetoursAreNeeded, RoutesAreOwned, MeshTypeOK
  <2> QED
    BY <1>2, <2>1, <2>2, <2>3, <2>4
<1>5. CASE RecordLatency(p)
  <2> USE <1>1, <1>5 DEF RecordLatency
  <2>1. MeshTypeOK' /\ IdsAreRouted'
    BY DEF MeshTypeOK, IdsAreRouted
  <2>2. RoutesAreOwned'
    BY DEF RoutesAreOwned, IdsAreRouted, OpIsForAPeer, MeshTypeOK
  <2>3. DetoursAreNeeded'
    BY DEF DetoursAreNeeded
  <2> QED
    BY <1>2, <2>1, <2>2, <2>3
<1> QED
  BY <1>3, <1>4, <1>5

\* The routing pass: a detour is set for an owner that does not answer for the
\* destination, and cannot come to before the pass is over.
LEMMA PassInv ==
  ASSUME MeshInv, BeginPass \/ (\E d \in Dests : FindDetour(d)) \/ SetDetour \/ EndPass
  PROVE  MeshInv'
<1> USE MeshAssumption DEF MeshInv, topology, tables, NoPass, Dests
<1>1. CASE BeginPass
  <2> USE <1>1 DEF BeginPass
  <2>1. MeshTypeOK' /\ PassSeesRoutes'
    BY DEF MeshTypeOK, PassSeesRoutes
  <2> QED
    BY <2>1 DEF IdsAreRouted, OpIsForAPeer, RoutesAreOwned, DetoursAreNeeded
<1>2. CASE \E d \in Dests : FindDetour(d)
  <2>1. PICK d \in Dests : FindDetour(d)
    BY <1>2
  <2>2. UNCHANGED <<topology, tables, meshOp>> /\ d \in pass.todo /\ pass.dest = NoPeer
    BY <2>1 DEF FindDetour
  <2>3. pass.running
    BY <2>2 DEF PassSeesRoutes
  <2>4. CASE pass' = [pass EXCEPT !.todo = @ \ {d}]
    <3>1. MeshTypeOK' /\ PassSeesRoutes'
      BY <2>2, <2>3, <2>4 DEF MeshTypeOK, PassSeesRoutes
    <3> QED
      BY <2>2, <3>1 DEF IdsAreRouted, OpIsForAPeer, RoutesAreOwned, DetoursAreNeeded
  <2>5. CASE \E p \in Peers :
               /\ pass' = [pass EXCEPT !.todo = @ \ {d}, !.dest = d, !.hop = p]
               /\ route[d] \in known /\ ~up[route[d]]
    <3>1. PICK p \in Peers : pass' = [pass EXCEPT !.todo = @ \ {d}, !.dest = d, !.hop = p]
      BY <2>5
    <3>2. MeshTypeOK'
      BY <2>2, <3>1 DEF MeshTypeOK
    <3>3. /\ pass'.todo = pass.todo \ {d} /\ pass'.dest = d /\ pass'.hop = p
          /\ pass'.running
      BY <2>3, <3>1 DEF MeshTypeOK
    <3>4. owner[d] # NoPeer
      BY <2>2 DEF PassSeesRoutes, RoutesAreOwned
    <3>5. \/ ~up[owner[d]] \/ d \notin announces[owner[d]]
          \/ meshOp = [kind |-> "announce", peer |-> owner[d]]
      BY <2>5 DEF DetoursAreNeeded
    <3>6. PassSeesRoutes'
      BY <2>2, <3>3, <3>4, <3>5 DEF PassSeesRoutes
    <3> QED
      BY <2>2, <3>2, <3>6 DEF IdsAreRouted, OpIsForAPeer, RoutesAreOwned, DetoursAreNeeded
  <2> QED
    BY <2>1, <2>4, <2>5 DEF FindDetour, Alternatives, MeshTypeOK
<1>3. CASE SetDetour
  <2> USE <1>3 DEF SetDetour
  <2>1. MeshTypeOK'
    BY DEF MeshTypeOK, PassSeesRoutes
  <2>2. PassSeesRoutes'
    BY DEF PassSeesRoutes, MeshTypeOK
  <2>3. IdsAreRouted' /\ OpIsForAPeer'
    BY DEF IdsAreRouted, OpIsForAPeer
  <2>4. RoutesAreOwned' /\ DetoursAreNeeded'
    BY DEF RoutesAreOwned, DetoursAreNeeded, PassSeesRoutes, MeshTypeOK
  <2> QED
    BY <2>1, <2>2, <2>3, <2>4
<1>4. CASE EndPass
  <2> USE <1>4 DEF EndPass
  <2>1. MeshTypeOK' /\ PassSeesRoutes'
    BY DEF MeshTypeOK, PassSeesRoutes
  <2> QED
    BY <2>1 DEF IdsAreRouted, OpIsForAPeer, RoutesAreOwned, DetoursAreNeeded
<1> QED
  BY <1>1, <1>2, <1>3, <1>4

\* Every step of the mesh keeps the invariant.
LEMMA MeshStepInv == MeshInv /\ [MeshNext]_meshVars => MeshInv'
<1> SUFFICES ASSUME MeshInv, [MeshNext]_meshVars PROVE MeshInv'
  OBVIOUS
<1>1. ASSUME NEW p \in Peers, NEW prefixes \in SUBSET Prefixes, NEW connected \in BOOLEAN,
             AddPeer(p, prefixes, connected) \/ UpsertPeer(p, prefixes, connected)
      PROVE  MeshInv'
  <2>1. TopologyStep("announce", p) /\ known' = known \cup {p}
    BY <1>1 DEF AddPeer, UpsertPeer, Know, TopologyStep, MeshInv, MeshTypeOK
  <2> QED
    BY <2>1, AnnounceInv
<1>2. ASSUME NEW p \in Peers, UpdatePeerLatency(p)
      PROVE  MeshInv'
  <2>1. TopologyStep("time", p) /\ p \in known /\ UNCHANGED <<known, up, announces>>
    BY <1>2 DEF UpdatePeerLatency, TopologyStep, topology, MeshInv, MeshTypeOK
  <2> QED
    BY <2>1, WithdrawInv
<1>3. ASSUME NEW p \in Peers, RemovePeer(p)
      PROVE  MeshInv'
  <2>1. /\ TopologyStep("remove", p) /\ p \in known /\ known' = known \ {p}
        /\ up'[p] = FALSE /\ announces'[p] = {}
    BY <1>3 DEF RemovePeer, TopologyStep, MeshInv, MeshTypeOK
  <2> QED
    BY <2>1, WithdrawInv
<1>4. CASE UNCHANGED meshVars
  BY <1>4 DEF meshVars, topology, tables, MeshInv, MeshTypeOK, IdsAreRouted, OpIsForAPeer,
     PassSeesRoutes, RoutesAreOwned, DetoursAreNeeded
<1> QED
  BY <1>1, <1>2, <1>3, <1>4, UpdateTopologyInv, WriteTablesInv, PassInv DEF MeshNext

\* MeshNetwork's routing, latency and owner tables, for any peers and prefixes:
\* they agree, and no route outlives its owner's removal.
THEOREM TablesAgree == MeshSpec => []RoutesAreOwned
<1>1. MeshInv => RoutesAreOwned
  BY DEF MeshInv
<1> QED
  BY <1>1, MeshInitInv, MeshStepInv, PTL DEF MeshSpec

\* updateRouting against the operations, for any peers and prefixes: no detour
\* is left in the way of an owner that is back.
THEOREM DetoursEnd == MeshSpec => []DetoursAreNeeded
<1>1. MeshInv => DetoursAreNeeded
  BY DEF MeshInv
<1> QED
  BY <1>1, MeshInitInv, MeshStepInv, PTL DEF MeshSpec

=============================================================================
