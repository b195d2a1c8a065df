---------------------------- MODULE LegacyClient ----------------------------
(***************************************************************************)
(* The relay client of pkg/relay/client.go in its json mode, where every   *)
(* call writes a request to one socket and takes the next response from    *)
(* it.  CreateTunnel and SendHeartbeat keep Client.mu from the request to  *)
(* the response; Connect and Authenticate do not, and nobody else locks    *)
(* the socket, its encoder or its decoder.                                 *)
(*                                                                         *)
(* A response is there when its request is: the relay may answer at once,  *)
(* and no call here has a deadline.  A read or write that failed once      *)
(* fails ever after, since the JSON coders keep their errors.  The mode is *)
(* set before the client is used, and stays.                               *)
(*                                                                         *)
(* A definition named Faulty... is the one after it with a plausible bug;  *)
(* no action uses it, and it breaks the property below.                    *)
(***************************************************************************)
EXTENDS Sequences

CONSTANTS
  Talkers, NoTalker,     \* goroutines
  Links, NoLink          \* sockets that may be dialled (a bound), and none

ASSUME LegacyAssumption == NoTalker \notin Talkers /\ NoLink \notin Links

VARIABLES
  mu,                    \* the owner of Client.mu while it is kept
  legacyUp,              \* Client.connected
  socket,                \* Client.conn, with its encoder and decoder
  openLinks, spentLinks, \* the sockets that are open, and all that were dialled
  brokenLinks,           \* those on which a read or a write has failed
  pipe,                  \* the responses on each socket, in order
  talkerAt, talk,        \* where each goroutine is, and in which call
  ownLink, listensOn,    \* the socket that its Connect dialled, and the one it reads
  mismatched,            \* history: a call took the response to another
  crashed,               \* a nil encoder or decoder was used: the process is gone
  exposed                \* history: a call without the mutex overlapped another

wire == <<socket, openLinks, spentLinks, brokenLinks, pipe>>
talkers == <<talkerAt, talk, ownLink, listensOn>>
legacyVars == <<mu, legacyUp, wire, talkers, mismatched, crashed, exposed>>

Unlocked == {"connect", "authenticate"}
Locked == {"tunnel", "heartbeat"}

LegacyInit ==
  /\ mu = NoTalker /\ legacyUp = FALSE
  /\ socket = NoLink /\ openLinks = {} /\ spentLinks = {} /\ brokenLinks = {}
  /\ pipe = [l \in Links |-> <<>>]
  /\ talkerAt = [t \in Talkers |-> "idle"] /\ talk = [t \in Talkers |-> "none"]
  /\ ownLink = [t \in Talkers |-> NoLink] /\ listensOn = [t \in Talkers |-> NoLink]
  /\ mismatched = FALSE /\ crashed = FALSE /\ exposed = FALSE

TalkerGoes(t, stage) == talkerAt' = [talkerAt EXCEPT ![t] = stage]
Talks(t, call) == talk' = [talk EXCEPT ![t] = call]
LegacyReturns(t) ==
  /\ TalkerGoes(t, "idle") /\ Talks(t, "none")
  /\ ownLink' = [ownLink EXCEPT ![t] = NoLink]
  /\ listensOn' = [listensOn EXCEPT ![t] = NoLink]
  /\ mu' = IF mu = t THEN NoTalker ELSE mu

InCall(t) == talkerAt[t] # "idle"

\* The calls that are made, whether or not they get anywhere.
LegacyCall(t, call) ==
  /\ ~InCall(t) /\ mu = NoTalker /\ ~crashed
  /\ exposed' = \/ exposed
                \/ \E u \in Talkers \ {t} : InCall(u) /\ (talk[u] \in Unlocked \/ call \in Unlocked)

-----------------------------------------------------------------------------
(* Connect. *)

ChecksConnect(t) ==
  /\ LegacyCall(t, "connect") /\ ~legacyUp
  /\ TalkerGoes(t, "dialing") /\ Talks(t, "connect")
  /\ UNCHANGED <<mu, legacyUp, wire, ownLink, listensOn, mismatched, crashed>>

\* The fields are set without the mutex, whatever was there.
LegacyDials(t) ==
  /\ talkerAt[t] = "dialing"
  /\ \E l \in Links \ spentLinks :
       /\ socket' = l /\ ownLink' = [ownLink EXCEPT ![t] = l]
       /\ openLinks' = openLinks \cup {l} /\ spentLinks' = spentLinks \cup {l}
  /\ TalkerGoes(t, "sending")
  /\ UNCHANGED <<mu, legacyUp, brokenLinks, pipe, talk, listensOn, mismatched, crashed, exposed>>

LegacyDialFails(t) ==
  /\ talkerAt[t] = "dialing" /\ LegacyReturns(t)
  /\ UNCHANGED <<legacyUp, wire, mismatched, crashed, exposed>>

-----------------------------------------------------------------------------
(* Authenticate, CreateTunnel and SendHeartbeat begin.                     *)

\* The token has been checked; tenant and token are stored before it is sent.
BeginsAuthenticate(t) ==
  /\ LegacyCall(t, "authenticate") /\ legacyUp
  /\ TalkerGoes(t, "sending") /\ Talks(t, "authenticate")
  /\ UNCHANGED <<mu, legacyUp, wire, ownLink, listensOn, mismatched, crashed>>

\* Releases the mutex before the request, as Authenticate does.
FaultyBeginsLocked(t, call) ==
  /\ LegacyCall(t, call) /\ legacyUp
  /\ TalkerGoes(t, "sending") /\ Talks(t, call)
  /\ UNCHANGED <<mu, legacyUp, wire, ownLink, listensOn, mismatched, crashed>>

BeginsLocked(t, call) ==
  /\ LegacyCall(t, call) /\ legacyUp
  /\ mu' = t
  /\ TalkerGoes(t, "sending") /\ Talks(t, call)
  /\ UNCHANGED <<legacyUp, wire, ownLink, listensOn, mismatched, crashed>>

-----------------------------------------------------------------------------
(* sendMessage and receiveMessage, on whatever socket the client has then. *)

Crash ==
  /\ socket = NoLink /\ crashed' = TRUE
  /\ UNCHANGED <<mu, legacyUp, wire, talkers, mismatched, exposed>>

SendsMessage(t) ==
  /\ talkerAt[t] = "sending"
  /\ \/ Crash
     \/ /\ socket \in openLinks
        /\ pipe' = IF socket \in brokenLinks THEN pipe
                   ELSE [pipe EXCEPT ![socket] = Append(@, talk[t])]
        /\ TalkerGoes(t, "asking")
        /\ UNCHANGED <<mu, legacyUp, socket, openLinks, spentLinks, brokenLinks, talk, ownLink,
                       listensOn, mismatched, crashed, exposed>>

Listens(t) ==
  /\ talkerAt[t] = "asking"
  /\ \/ Crash
     \/ /\ socket # NoLink
        /\ listensOn' = [listensOn EXCEPT ![t] = socket]
        /\ TalkerGoes(t, "reading")
        /\ UNCHANGED <<mu, legacyUp, wire, talk, ownLink, mismatched, crashed, exposed>>

\* Connect closes the socket that it dialled, which need not be the client's.
LegacyFails(t) ==
  /\ \/ talkerAt[t] = "sending" /\ socket # NoLink /\ brokenLinks' = brokenLinks \cup {socket}
     \/ talkerAt[t] = "reading" /\ brokenLinks' = brokenLinks \cup {listensOn[t]}
  /\ openLinks' = openLinks \ {ownLink[t]}
  /\ LegacyReturns(t)
  /\ UNCHANGED <<legacyUp, socket, spentLinks, pipe, mismatched, crashed, exposed>>

Arrives(t) ==
  /\ talkerAt[t] = "reading" /\ listensOn[t] \notin brokenLinks
  /\ pipe[listensOn[t]] # <<>>

Answer(t) == Head(pipe[listensOn[t]])
TakesAnswer(t) == pipe' = [pipe EXCEPT ![listensOn[t]] = Tail(@)]

\* "unexpected response type".
ReadsAnother(t) ==
  /\ Arrives(t) /\ Answer(t) # talk[t] /\ TakesAnswer(t)
  /\ mismatched' = TRUE
  /\ openLinks' = openLinks \ {ownLink[t]}
  /\ LegacyReturns(t)
  /\ UNCHANGED <<legacyUp, socket, spentLinks, brokenLinks, crashed, exposed>>

\* A heartbeat locks the mutex again to record the time, and stays there.
ReadsItsOwn(t) ==
  /\ Arrives(t) /\ Answer(t) = talk[t] /\ TakesAnswer(t)
  /\ legacyUp' = (legacyUp \/ talk[t] = "connect")
  /\ IF talk[t] = "heartbeat"
     THEN TalkerGoes(t, "wedged") /\ UNCHANGED <<mu, talk, ownLink, listensOn>>
     ELSE LegacyReturns(t)
  /\ UNCHANGED <<socket, openLinks, spentLinks, brokenLinks, mismatched, crashed, exposed>>

-----------------------------------------------------------------------------
(* Disconnect and Close. *)

\* The event is emitted with the mutex held: the call never gets past it.
LegacyDisconnect(t) ==
  /\ LegacyCall(t, "disconnect") /\ legacyUp
  /\ openLinks' = openLinks \ {socket} /\ socket' = NoLink
  /\ legacyUp' = FALSE
  /\ mu' = t /\ TalkerGoes(t, "wedged") /\ Talks(t, "disconnect")
  /\ UNCHANGED <<spentLinks, brokenLinks, pipe, ownLink, listensOn, mismatched, crashed>>

\* The closed socket stays in the field.
LegacyClose(t) ==
  /\ LegacyCall(t, "close") /\ legacyUp
  /\ openLinks' = openLinks \ {socket}
  /\ legacyUp' = FALSE
  /\ UNCHANGED <<mu, socket, spentLinks, brokenLinks, pipe, talkers, mismatched, crashed>>

-----------------------------------------------------------------------------
LegacyStep(t) ==
  \/ LegacyDials(t) \/ LegacyDialFails(t)
  \/ SendsMessage(t) \/ Listens(t) \/ LegacyFails(t) \/ ReadsAnother(t) \/ ReadsItsOwn(t)

LegacyNext ==
  \E t \in Talkers :
    \/ ChecksConnect(t) \/ BeginsAuthenticate(t)
    \/ \E call \in Locked : BeginsLocked(t, call)
    \/ LegacyDisconnect(t) \/ LegacyClose(t)
    \/ ~crashed /\ LegacyStep(t)

LegacySpec == LegacyInit /\ [][LegacyNext]_legacyVars

-----------------------------------------------------------------------------
(* Properties. *)

\* What the client and its callers may hold.
LegacyTypeOK ==
  /\ mu \in Talkers \cup {NoTalker} /\ legacyUp \in BOOLEAN
  /\ socket \in Links \cup {NoLink}
  /\ spentLinks \in SUBSET Links /\ openLinks \in SUBSET spentLinks
  /\ brokenLinks \in SUBSET spentLinks
  /\ pipe \in [Links -> Seq(Unlocked \cup Locked)]
  /\ talkerAt \in [Talkers -> {"idle", "dialing", "sending", "asking", "reading", "wedged"}]
  /\ talk \in [Talkers -> Unlocked \cup Locked \cup {"none", "disconnect"}]
  /\ ownLink \in [Talkers -> Links \cup {NoLink}]
  /\ listensOn \in [Talkers -> Links \cup {NoLink}]
  /\ mismatched \in BOOLEAN /\ crashed \in BOOLEAN /\ exposed \in BOOLEAN

\* A socket that is open and that the client has lost sight of.
Lost == openLinks \ {socket} # {}

\* The mutex keeps the calls that take it apart: as long as no Connect and no
\* Authenticate overlaps another call, each response reaches its call, no socket
\* is lost, and no call finds the client without one.
LockedCallsKeepApart == mismatched \/ crashed \/ Lost => exposed

=============================================================================
