------------------------ MODULE LegacyServiceProofs ------------------------
(***************************************************************************)
(* What the json-mode relay client guarantees for any number of goroutines *)
(* and sockets, and the service commands for any set of platforms.  Each   *)
(* has an inductive invariant of its own.                                  *)
(***************************************************************************)
EXTENDS LegacyClient, ServiceInstall, TLAPS

LOCAL INSTANCE SequencesExt

-----------------------------------------------------------------------------
(* The json-mode client. *)

\* A call that locks the mutex owns it for as long as it lasts.
MutexIsKept ==
  \A t \in Talkers : InCall(t) /\ talk[t] \in Locked \cup {"disconnect"} => mu = t

\* A goroutine that sends, or waits for a response.
OnTheWire(t) == talkerAt[t] \in {"sending", "asking", "reading"}

\* What a goroutine that is at some stage of a call may be in.
CallsKeepTo ==
  \A t \in Talkers :
    /\ talkerAt[t] = "dialing" \/ OnTheWire(t) => talk[t] \in Unlocked \cup Locked
    /\ talkerAt[t] = "dialing" => talk[t] = "connect"
    /\ talkerAt[t] = "wedged" => talk[t] \in {"heartbeat", "disconnect"}
    /\ ownLink[t] # NoLink => talk[t] = "connect" /\ OnTheWire(t)

\* No two goroutines are in calls at the same time.
OneTalks == \A t, u \in Talkers : InCall(t) /\ InCall(u) => t = u

\* The one open socket is the client's, and whoever is to use it finds it there.
\* A Connect under way is not connected yet, every other call is.
LinkIsHeld ==
  /\ ~Lost
  /\ legacyUp => socket # NoLink
  /\ openLinks # {} => legacyUp \/ \E t \in Talkers : ownLink[t] = socket
  /\ \A t \in Talkers : InCall(t) /\ talk[t] = "connect" => ~legacyUp
  /\ \A t \in Talkers : OnTheWire(t) =>
       /\ socket # NoLink
       /\ IF talk[t] = "connect" THEN ownLink[t] = socket ELSE legacyUp

\* Its request is out.
Awaits(t) == talkerAt[t] \in {"asking", "reading"}

\* A socket that still works holds the response to the request that was sent on
\* it last, until that is read, and no other.
PipesAreInStep ==
  /\ \A l \in Links \ brokenLinks :
       l # socket \/ (\A t \in Talkers : ~Awaits(t)) => pipe[l] = <<>>
  /\ \A t \in Talkers : Awaits(t) /\ socket \notin brokenLinks => pipe[socket] = <<talk[t]>>
  /\ \A t \in Talkers : talkerAt[t] = "reading" => listensOn[t] = socket

\* Every socket anybody knows has been dialled.
LinksWereDialled ==
  /\ socket \in spentLinks \cup {NoLink}
  /\ \A t \in Talkers : {ownLink[t], listensOn[t]} \subseteq spentLinks \cup {NoLink}
  /\ \A t \in Talkers : talkerAt[t] = "reading" => listensOn[t] # NoLink

\* How things are while no Connect and no Authenticate has overlapped a call.
Orderly == OneTalks /\ LinkIsHeld /\ PipesAreInStep /\ ~mismatched /\ ~crashed

\* How things always are.
Settled == LegacyTypeOK /\ LinksWereDialled /\ MutexIsKept /\ CallsKeepTo

LegacyInv == Settled /\ (~exposed => Orderly)

\* The beginning of a call.
LegacyBegins(t) ==
  \/ ChecksConnect(t) \/ BeginsAuthenticate(t)
  \/ (\E call \in Locked : BeginsLocked(t, call))
  \/ LegacyDisconnect(t) \/ LegacyClose(t)

-----------------------------------------------------------------------------
\* Facts about the pipes.
LEMMA EmptyIsASeq == \A S : <<>> \in Seq(S)
OBVIOUS

\* A pipe with one reply in it, as it is written and read.
LEMMA OneElement == \A x : Append(<<>>, x) = <<x>> /\ Head(<<x>>) = x /\ Tail(<<x>>) = <<>>
OBVIOUS

-----------------------------------------------------------------------------
\* The client as it is made.
LEMMA LegacyInitInv == LegacyInit => LegacyInv
<1> SUFFICES ASSUME LegacyInit PROVE LegacyInv
  OBVIOUS
<1> USE LegacyAssumption DEF LegacyInit
<1>1. pipe \in [Links -> Seq(Unlocked \cup Locked)]
  BY EmptyIsASeq
<1>2. LegacyTypeOK
  BY <1>1 DEF LegacyTypeOK
<1>3. LinksWereDialled /\ MutexIsKept /\ CallsKeepTo /\ OneTalks
  BY DEF LinksWereDialled, MutexIsKept, CallsKeepTo, OneTalks, InCall, OnTheWire
<1>4. LinkIsHeld /\ PipesAreInStep
  BY DEF LinkIsHeld, Lost, PipesAreInStep, InCall, OnTheWire, Awaits
<1> QED
  BY <1>2, <1>3, <1>4 DEF LegacyInv, Orderly, Settled

\* The end of a call, whatever its outcome.
LEMMA ReturnIsTyped ==
  ASSUME LegacyTypeOK, LinksWereDialled, NEW t \in Talkers, LegacyReturns(t)
  PROVE  /\ mu' \in Talkers \cup {NoTalker}
         /\ talkerAt' = [talkerAt EXCEPT ![t] = "idle"]
         /\ talkerAt' \in [Talkers -> {"idle", "dialing", "sending", "asking", "reading", "wedged"}]
         /\ talk' \in [Talkers -> Unlocked \cup Locked \cup {"none", "disconnect"}]
         /\ ownLink' \in [Talkers -> Links \cup {NoLink}]
         /\ listensOn' \in [Talkers -> Links \cup {NoLink}]
         /\ \A u \in Talkers : {ownLink'[u], listensOn'[u]} \subseteq spentLinks \cup {NoLink}
         /\ \A u \in Talkers : talkerAt'[u] = "reading" => listensOn'[u] # NoLink
BY DEF LegacyTypeOK, LinksWereDialled, LegacyReturns, TalkerGoes, Talks

\* The response that is taken out of a pipe.
LEMMA AnswerIsTyped ==
  ASSUME LegacyTypeOK, LinksWereDialled, NEW t \in Talkers, Arrives(t), TakesAnswer(t)
  PROVE  /\ Answer(t) \in Unlocked \cup Locked
         /\ pipe' \in [Links -> Seq(Unlocked \cup Locked)]
<1>0. listensOn[t] \in Links
  BY LegacyAssumption DEF LegacyTypeOK, LinksWereDialled, Arrives
<1>1. pipe[listensOn[t]] \in Seq(Unlocked \cup Locked) /\ pipe[listensOn[t]] # <<>>
  BY <1>0 DEF LegacyTypeOK, Arrives
<1>2. /\ Head(pipe[listensOn[t]]) \in Unlocked \cup Locked
      /\ Tail(pipe[listensOn[t]]) \in Seq(Unlocked \cup Locked)
  BY <1>1
<1> QED
  BY <1>0, <1>2 DEF LegacyTypeOK, TakesAnswer, Answer

\* What holds whether or not calls overlap: the types, and who was dialled...
LEMMA LegacyTypeStep ==
  ASSUME Settled, NEW t \in Talkers, LegacyBegins(t) \/ LegacyStep(t)
  PROVE  LegacyTypeOK' /\ LinksWereDialled'
<1> USE LegacyAssumption DEF Settled, LegacyTypeOK, LinksWereDialled, TalkerGoes, Talks,
                                wire, talkers
<1>1. CASE LegacyBegins(t)
  <2>1. CASE ChecksConnect(t)
    BY <2>1 DEF ChecksConnect, LegacyCall, Unlocked
  <2>2. CASE BeginsAuthenticate(t)
    BY <2>2 DEF BeginsAuthenticate, LegacyCall, Unlocked
  <2>3. CASE \E call \in Locked : BeginsLocked(t, call)
    BY <2>3 DEF BeginsLocked, LegacyCall
  <2>4. CASE LegacyDisconnect(t)
    BY <2>4 DEF LegacyDisconnect, LegacyCall
  <2>5. CASE LegacyClose(t)
    BY <2>5 DEF LegacyClose, LegacyCall
  <2> QED
    BY <1>1, <2>1, <2>2, <2>3, <2>4, <2>5 DEF LegacyBegins
<1>2. CASE LegacyDials(t)
  BY <1>2 DEF LegacyDials
<1>3. CASE LegacyDialFails(t)
  BY <1>3, ReturnIsTyped DEF LegacyDialFails
<1>4. CASE SendsMessage(t)
  <2>1. CASE Crash
    BY <2>1 DEF Crash
  <2>2. CASE ~Crash
    <3>1. talk[t] \in Unlocked \cup Locked
      BY <1>4 DEF SendsMessage, CallsKeepTo, OnTheWire
    <3>2. ASSUME socket \in Links
          PROVE  Append(pipe[socket], talk[t]) \in Seq(Unlocked \cup Locked)
      BY <3>1, <3>2
    <3>3. /\ talkerAt' = [talkerAt EXCEPT ![t] = "asking"]
          /\ pipe' = pipe \/ pipe' = [pipe EXCEPT ![socket] = Append(@, talk[t])]
          /\ socket \in Links
          /\ UNCHANGED <<mu, legacyUp, socket, openLinks, spentLinks, brokenLinks, talk, ownLink,
                         listensOn, mismatched, crashed, exposed>>
      BY <1>4, <2>2 DEF SendsMessage
    <3>4. pipe' \in [Links -> Seq(Unlocked \cup Locked)]
      BY <3>2, <3>3
    <3> QED
      BY <3>3, <3>4
  <2> QED
    BY <2>1, <2>2
<1>5. CASE Listens(t)
  <2>1. CASE Crash
    BY <2>1 DEF Crash
  <2>2. CASE ~Crash
    <3>1. /\ talkerAt' = [talkerAt EXCEPT ![t] = "reading"]
          /\ listensOn' = [listensOn EXCEPT ![t] = socket] /\ socket # NoLink
          /\ UNCHANGED <<mu, legacyUp, wire, talk, ownLink, mismatched, crashed, exposed>>
      BY <1>5, <2>2 DEF Listens
    <3> QED
      BY <3>1
  <2> QED
    BY <2>1, <2>2
<1>6. CASE LegacyFails(t)
  BY <1>6, ReturnIsTyped DEF LegacyFails
<1>7. CASE ReadsAnother(t)
  BY <1>7, ReturnIsTyped, AnswerIsTyped DEF ReadsAnother
<1>8. CASE ReadsItsOwn(t)
  <2>1. CASE talk[t] = "heartbeat"
    <3>1. /\ talkerAt' = [talkerAt EXCEPT ![t] = "wedged"]
          /\ pipe' \in [Links -> Seq(Unlocked \cup Locked)]
          /\ legacyUp' \in BOOLEAN
          /\ UNCHANGED <<mu, talk, ownLink, listensOn, socket, openLinks, spentLinks, brokenLinks,
                         mismatched, crashed, exposed>>
      BY <1>8, <2>1, AnswerIsTyped DEF ReadsItsOwn
    <3> QED
      BY <3>1
  <2>2. CASE talk[t] # "heartbeat"
    BY <1>8, <2>2, ReturnIsTyped, AnswerIsTyped DEF ReadsItsOwn
  <2> QED
    BY <2>1, <2>2
<1> QED
  BY <1>1, <1>2, <1>3, <1>4, <1>5, <1>6, <1>7, <1>8 DEF LegacyStep

\* ... and who owns the mutex.
LEMMA CallsStep ==
  ASSUME Settled, NEW t \in Talkers, LegacyBegins(t) \/ LegacyStep(t)
  PROVE  MutexIsKept' /\ CallsKeepTo'
<1> USE LegacyAssumption
    DEF Settled, MutexIsKept, CallsKeepTo, InCall, OnTheWire, TalkerGoes, Talks, talkers
<1>0. /\ talkerAt \in [Talkers -> {"idle", "dialing", "sending", "asking", "reading", "wedged"}]
      /\ talk \in [Talkers -> Unlocked \cup Locked \cup {"none", "disconnect"}]
      /\ ownLink \in [Talkers -> Links \cup {NoLink}]
  BY DEF LegacyTypeOK
<1>1. CASE LegacyBegins(t)
  <2>1. CASE ChecksConnect(t)
    BY <2>1, <1>0 DEF ChecksConnect, LegacyCall, Locked, Unlocked
  <2>2. CASE BeginsAuthenticate(t)
    BY <2>2, <1>0 DEF BeginsAuthenticate, LegacyCall, Locked, Unlocked
  <2>3. CASE \E call \in Locked : BeginsLocked(t, call)
    BY <2>3, <1>0 DEF BeginsLocked, LegacyCall, Locked, Unlocked
  <2>4. CASE LegacyDisconnect(t)
    BY <2>4, <1>0 DEF LegacyDisconnect, LegacyCall, Locked, Unlocked
  <2>5. CASE LegacyClose(t)
    BY <2>5, <1>0 DEF LegacyClose, LegacyCall
  <2> QED
    BY <1>1, <2>1, <2>2, <2>3, <2>4, <2>5 DEF LegacyBegins
<1>2. CASE LegacyDials(t)
  BY <1>2, <1>0 DEF LegacyDials
<1>3. CASE LegacyReturns(t)
  BY <1>3, <1>0 DEF LegacyReturns
<1>4. CASE SendsMessage(t)
  BY <1>4, <1>0 DEF SendsMessage, Crash
<1>5. CASE Listens(t)
  BY <1>5, <1>0 DEF Listens, Crash
<1>6. CASE ReadsItsOwn(t) /\ talk[t] = "heartbeat"
  BY <1>6, <1>0 DEF ReadsItsOwn, Arrives
<1> QED
  BY <1>1, <1>2, <1>3, <1>4, <1>5, <1>6
  DEF LegacyStep, LegacyDialFails, LegacyFails, ReadsAnother, ReadsItsOwn

\* A call that leaves the history clean finds nobody in a call: one that kept the
\* mutex would have shut it out, one that did not would have been seen.
LEMMA CallIsAlone ==
  ASSUME LegacyInv, NEW t \in Talkers, NEW call, LegacyCall(t, call), ~exposed'
  PROVE  ~exposed /\ \A u \in Talkers : ~InCall(u) /\ ownLink[u] = NoLink
<1> USE DEF LegacyInv, Settled
<1>1. ASSUME NEW u \in Talkers, InCall(u), u # t PROVE FALSE
  <2>1. talk[u] \notin Unlocked
    BY <1>1 DEF LegacyCall
  <2>2. talk[u] \in Locked \cup {"disconnect"}
    BY <1>1, <2>1
    DEF LegacyTypeOK, CallsKeepTo, InCall, OnTheWire
  <2> QED
    BY <1>1, <2>2, LegacyAssumption DEF LegacyCall, MutexIsKept, InCall
<1> QED
  BY <1>1 DEF LegacyCall, CallsKeepTo, InCall, OnTheWire

\* Its beginning disturbs nothing.
LEMMA CallStaysOrderly ==
  ASSUME LegacyInv, NEW t \in Talkers, LegacyBegins(t), ~exposed'
  PROVE  Orderly'
<1> USE LegacyAssumption
    DEF LegacyInv, Settled, LegacyTypeOK, Orderly, OneTalks, LinkIsHeld, Lost, PipesAreInStep,
        InCall, OnTheWire, Awaits, Locked, Unlocked, TalkerGoes, Talks, wire, talkers
<1>1. CASE ChecksConnect(t)
  BY <1>1, CallIsAlone DEF ChecksConnect
<1>2. CASE BeginsAuthenticate(t)
  BY <1>2, CallIsAlone DEF BeginsAuthenticate
<1>3. CASE \E call \in Locked : BeginsLocked(t, call)
  BY <1>3, CallIsAlone DEF BeginsLocked
<1>4. CASE LegacyDisconnect(t)
  BY <1>4, CallIsAlone DEF LegacyDisconnect
<1>5. CASE LegacyClose(t)
  BY <1>5, CallIsAlone DEF LegacyClose
<1> QED
  BY <1>1, <1>2, <1>3, <1>4, <1>5 DEF LegacyBegins

\* The same of the steps that follow: the one who takes them is alone.
LEMMA TalkerIsAlone ==
  ASSUME LegacyInv, NEW t \in Talkers, LegacyStep(t), ~exposed'
  PROVE  /\ InCall(t) /\ Orderly
         /\ \A u \in Talkers \ {t} : ~InCall(u) /\ ownLink[u] = NoLink
<1>1. InCall(t) /\ ~exposed
  BY DEF LegacyStep, LegacyDials, LegacyDialFails, SendsMessage, Listens, LegacyFails, ReadsAnother,
         ReadsItsOwn, Arrives, Crash, InCall
<1>2. \A u \in Talkers \ {t} : ~InCall(u)
  BY <1>1 DEF LegacyInv, Orderly, OneTalks
<1> QED
  BY <1>1, <1>2 DEF LegacyInv, Settled, CallsKeepTo, InCall, OnTheWire

\* A request meets an empty pipe and a response its own request.
LEMMA StepStaysOrderly ==
  ASSUME LegacyInv, NEW t \in Talkers, LegacyStep(t), ~exposed'
  PROVE  Orderly'
<1> USE LegacyAssumption, TalkerIsAlone
    DEF LegacyInv, Settled, LegacyTypeOK, Orderly, OneTalks, LinkIsHeld, Lost, PipesAreInStep,
        InCall, OnTheWire, Awaits, TalkerGoes, Talks, wire, talkers, CallsKeepTo, LinksWereDialled
<1>1. CASE LegacyDials(t)
  BY <1>1 DEF LegacyDials
<1>2. CASE LegacyDialFails(t)
  BY <1>2 DEF LegacyDialFails, LegacyReturns
<1>3. CASE SendsMessage(t)
  <2>1. ~Crash
    BY <1>3 DEF SendsMessage, Crash
  <2>2. /\ talkerAt' = [talkerAt EXCEPT ![t] = "asking"]
        /\ socket \in openLinks
        /\ pipe' = IF socket \in brokenLinks THEN pipe
                   ELSE [pipe EXCEPT ![socket] = Append(@, talk[t])]
        /\ UNCHANGED <<mu, legacyUp, socket, openLinks, spentLinks, brokenLinks, talk, ownLink,
                       listensOn, mismatched, crashed, exposed>>
    BY <1>3, <2>1 DEF SendsMessage
  <2>3. socket \notin brokenLinks => pipe'[socket] = <<talk[t]>>
    <3>1. ASSUME socket \notin brokenLinks PROVE pipe[socket] = <<>>
      BY <1>3, <2>2, <3>1 DEF SendsMessage
    <3>2. socket \in Links
      BY <2>2
    <3> QED
      BY <2>2, <3>1, <3>2, OneElement
  <2>4. \A l \in Links : l # socket => pipe'[l] = pipe[l]
    BY <2>2
  <2>5. OneTalks' /\ LinkIsHeld'
    BY <1>3, <2>2 DEF SendsMessage
  <2>6. PipesAreInStep'
    BY <1>3, <2>2, <2>3, <2>4 DEF SendsMessage
  <2> QED
    BY <2>2, <2>5, <2>6
<1>4. CASE Listens(t)
  <2>1. ~Crash
    BY <1>4 DEF Listens, Crash
  <2> QED
    BY <1>4, <2>1 DEF Listens
<1>5. CASE LegacyFails(t)
  BY <1>5 DEF LegacyFails, LegacyReturns
<1>6. CASE ReadsAnother(t)
  BY <1>6 DEF ReadsAnother, LegacyReturns, Arrives, Answer, TakesAnswer
<1>7. CASE ReadsItsOwn(t)
  <2>1. /\ socket \in Links \ brokenLinks /\ listensOn[t] = socket
        /\ pipe' = [pipe EXCEPT ![socket] = <<>>]
    <3>1. /\ socket \in Links \ brokenLinks /\ listensOn[t] = socket
          /\ pipe[socket] = <<talk[t]>>
      BY <1>7 DEF ReadsItsOwn, Arrives
    <3> QED
      BY <1>7, <3>1, OneElement DEF ReadsItsOwn, TakesAnswer
  <2>2. \A u \in Talkers : ~Awaits(u)'
    BY <1>7 DEF ReadsItsOwn, LegacyReturns, Arrives
  <2>3. PipesAreInStep'
    BY <1>7, <2>1, <2>2 DEF ReadsItsOwn, Arrives
  <2>4. CASE talk[t] = "heartbeat"
    BY <1>7, <2>3, <2>4 DEF ReadsItsOwn, Arrives
  <2>5. CASE talk[t] # "heartbeat"
    <3>1. OneTalks' /\ ~mismatched' /\ ~crashed' /\ ~Lost'
      BY <1>7, <2>5 DEF ReadsItsOwn, LegacyReturns, Arrives
    <3>2. LinkIsHeld'
      <4>1. \A u \in Talkers : ~InCall(u)'
        BY <1>7, <2>5 DEF ReadsItsOwn, LegacyReturns, Arrives
      <4>2. socket' = socket /\ socket # NoLink /\ openLinks' = openLinks
        BY <1>7, <2>1 DEF ReadsItsOwn
      <4>3. legacyUp'
        BY <1>7 DEF ReadsItsOwn, Arrives
      <4> QED
        BY <3>1, <4>1, <4>2, <4>3
    <3> QED
      BY <2>3, <3>1, <3>2
  <2> QED
    BY <2>4, <2>5
<1> QED
  BY <1>1, <1>2, <1>3, <1>4, <1>5, <1>6, <1>7 DEF LegacyStep

\* Every step of a caller, and of the relay, keeps the invariant.
LEMMA LegacyStepInv == LegacyInv /\ [LegacyNext]_legacyVars => LegacyInv'
<1> SUFFICES ASSUME LegacyInv, [LegacyNext]_legacyVars PROVE LegacyInv'
  OBVIOUS
<1>1. ASSUME NEW t \in Talkers, LegacyBegins(t) \/ LegacyStep(t) PROVE LegacyInv'
  BY <1>1, LegacyTypeStep, CallsStep, CallStaysOrderly, StepStaysOrderly DEF LegacyInv, Settled
<1>2. CASE LegacyNext
  BY <1>1, <1>2 DEF LegacyNext, LegacyBegins
<1>3. CASE UNCHANGED legacyVars
  BY <1>3
  DEF legacyVars, wire, talkers, LegacyInv, Settled, LegacyTypeOK, LinksWereDialled, MutexIsKept,
      CallsKeepTo, Orderly, OneTalks, LinkIsHeld, Lost, PipesAreInStep, InCall, OnTheWire, Awaits
<1> QED
  BY <1>2, <1>3

\* So it holds throughout.
LEMMA LegacyInvariance == LegacySpec => []LegacyInv
BY LegacyInitInv, LegacyStepInv, PTL DEF LegacySpec

\* What the fields of the json-mode client hold, for any number of goroutines and
\* sockets.
THEOREM LegacyTypes == LegacySpec => []LegacyTypeOK
<1>1. LegacyInv => LegacyTypeOK
  BY DEF LegacyInv, Settled
<1> QED
  BY <1>1, LegacyInvariance, PTL

\* CreateTunnel and SendHeartbeat under Client.mu, for any number of goroutines and
\* sockets: unless Connect or Authenticate overlapped another call, no response
\* reaches another call, no socket is lost and no nil coder is used.
THEOREM MutexKeepsCallsApart == LegacySpec => []LockedCallsKeepApart
<1>1. LegacyInv => LockedCallsKeepApart
  BY DEF LegacyInv, Orderly, LinkIsHeld, LockedCallsKeepApart
<1> QED
  BY <1>1, LegacyInvariance, PTL

-----------------------------------------------------------------------------
(* The service commands. *)

StepNames ==
  {"config", "binary", "unit", "reload", "enabled", "registered", "parameters", "labels", "stop"}

\* The command under way has yet to do x.
Remains(x) == \E i \in 1 .. Len(plan.steps) : plan.steps[i] = x

\* A command under way has a step left.
PlanIsTyped ==
  /\ plan \in [doing : {"nothing", "install", "uninstall"}, steps : Seq(StepNames)]
  /\ plan.doing # "nothing" => plan.steps # <<>>

\* An install has a step left for whatever is not whole, whichever commands were
\* cut short before it.
WhatIsMissingRemains ==
  plan.doing = "install" => \A x \in Parts(platform) : part[x] = "whole" \/ Remains(x)

\* A command tells nothing before its last step.
SilentUntilItEnds == plan.doing # "nothing" => reported = "nothing"

ServiceInv ==
  /\ ServiceTypeOK /\ PlanIsTyped /\ SilentUntilItEnds
  /\ WhatIsMissingRemains /\ InstallTellsTheTruth

-----------------------------------------------------------------------------
\* The plans, platform by platform.
LEMMA PlansAreSteps ==
  ASSUME NEW p \in {"linux", "windows", "darwin"}
  PROVE  /\ InstallPlan(p) \in Seq(StepNames) /\ InstallPlan(p) # <<>>
         /\ UninstallPlan(p) \in Seq(StepNames) /\ UninstallPlan(p) # <<>>
<1>1. CASE p = "linux"
  BY <1>1 DEF InstallPlan, UninstallPlan, StepNames
<1>2. CASE p = "windows"
  BY <1>2 DEF InstallPlan, UninstallPlan, StepNames
<1>3. CASE p = "darwin"
  BY <1>3 DEF InstallPlan, UninstallPlan, StepNames
<1> QED
  BY <1>1, <1>2, <1>3

\* Every part of a service is installed by a step of its plan, and none is the reload.
LEMMA PartsAreInstalled ==
  \A p : \A x \in Parts(p) :
    x # "reload" /\ \E i \in 1 .. Len(InstallPlan(p)) : InstallPlan(p)[i] = x
BY DEF Parts, ToSet

\* What dropping the first step leaves.
LEMMA TailRemains ==
  ASSUME NEW s \in Seq(StepNames), s # <<>>
  PROVE  /\ Tail(s) \in Seq(StepNames)
         /\ Len(s) # 1 => Tail(s) # <<>>
         /\ Len(s) = 1 => \A i \in 1 .. Len(s) : s[i] = Head(s)
         /\ \A i \in 1 .. Len(s) : s[i] # Head(s) => \E j \in 1 .. Len(Tail(s)) : Tail(s)[j] = s[i]
<1>1. Tail(s) \in Seq(StepNames) /\ Len(Tail(s)) = Len(s) - 1 /\ Len(s) \in Nat /\ Len(s) # 0
  OBVIOUS
<1>2. ASSUME NEW i \in 1 .. Len(s), s[i] # Head(s)
      PROVE  \E j \in 1 .. Len(Tail(s)) : Tail(s)[j] = s[i]
  <2>1. i # 1 /\ i - 1 \in 1 .. Len(Tail(s)) /\ Tail(s)[i - 1] = s[i]
    BY <1>1, <1>2
  <2> QED
    BY <2>1
<1>3. Len(s) # 1 => Tail(s) # <<>>
  BY <1>1
<1>4. Len(s) = 1 => \A i \in 1 .. Len(s) : s[i] = Head(s)
  BY <1>1
<1> QED
  BY <1>1, <1>2, <1>3, <1>4

\* A command that ends, with whatever it tells.
LEMMA EndingKeeps ==
  ASSUME NEW told, CommandEnds(told)
  PROVE  PlanIsTyped' /\ SilentUntilItEnds' /\ plan'.doing = "nothing" /\ reported' = told
<1>1. <<>> \in Seq(StepNames)
  OBVIOUS
<1> QED
  BY <1>1 DEF CommandEnds, PlanIsTyped, SilentUntilItEnds

-----------------------------------------------------------------------------
\* The command as it is typed, on a machine with or without a service.
LEMMA ServiceInitInv == ServiceInit => ServiceInv
<1> SUFFICES ASSUME ServiceInit PROVE ServiceInv
  OBVIOUS
<1> USE DEF ServiceInit
<1>1. <<>> \in Seq(StepNames)
  OBVIOUS
<1>2. \A S : [x \in S |-> "none"] \in [S -> {"none", "half", "whole"}]
  OBVIOUS
<1>3. ServiceTypeOK
  BY <1>2 DEF ServiceTypeOK
<1> QED
  BY <1>1, <1>3
  DEF ServiceInv, PlanIsTyped, SilentUntilItEnds, WhatIsMissingRemains, InstallTellsTheTruth

\* What a step of the plan under way leaves to do.
LEMMA StepDoneKeeps ==
  ASSUME PlanIsTyped, SilentUntilItEnds, plan.doing # "nothing", StepDone
  PROVE  /\ PlanIsTyped' /\ SilentUntilItEnds'
         /\ \/ plan'.doing = "nothing" /\ reported' = plan.doing
               /\ \A x : Remains(x) => x = Head(plan.steps)
            \/ plan'.doing = plan.doing /\ reported' = "nothing"
               /\ \A x : Remains(x) => x = Head(plan.steps) \/ Remains(x)'
<1>1. plan.steps \in Seq(StepNames) /\ plan.steps # <<>>
  BY DEF PlanIsTyped
<1>2. CASE Len(plan.steps) = 1
  <2>1. CommandEnds(plan.doing)
    BY <1>2 DEF StepDone
  <2> QED
    BY <1>1, <1>2, <2>1, EndingKeeps, TailRemains DEF Remains
<1>3. CASE Len(plan.steps) # 1
  <2>1. plan' = [doing |-> plan.doing, steps |-> Tail(plan.steps)] /\ reported' = reported
    BY <1>3 DEF StepDone, PlanIsTyped
  <2> QED
    <3>1. Tail(plan.steps) \in Seq(StepNames) /\ Tail(plan.steps) # <<>>
      BY <1>1, <1>3, TailRemains
    <3>2. PlanIsTyped' /\ SilentUntilItEnds'
      BY <2>1, <3>1 DEF PlanIsTyped, SilentUntilItEnds
    <3>3. ASSUME NEW x, Remains(x), x # Head(plan.steps) PROVE Remains(x)'
      BY <1>1, <2>1, <3>3, TailRemains DEF Remains
    <3> QED
      BY <2>1, <3>2, <3>3 DEF SilentUntilItEnds
<1> QED
  BY <1>2, <1>3

\* A new command says nothing, and an install has everything before it.
LEMMA BeginKeeps ==
  ASSUME ServiceInv, BeginInstall \/ BeginUninstall
  PROVE  ServiceInv'
<1> USE ServiceAssumption
    DEF ServiceInv, ServiceTypeOK, PlanIsTyped, SilentUntilItEnds, WhatIsMissingRemains,
        InstallTellsTheTruth
<1>1. CASE BeginInstall
  <2>1. /\ plan' = [doing |-> "install", steps |-> InstallPlan(platform)]
        /\ reported' = "nothing" /\ UNCHANGED <<platform, part, running>>
    BY <1>1 DEF BeginInstall, CommandBegins
  <2>2. InstallPlan(platform) \in Seq(StepNames) /\ InstallPlan(platform) # <<>>
    BY PlansAreSteps
  <2>3. \A x \in Parts(platform) : Remains(x)'
    BY <2>1, PartsAreInstalled DEF Remains
  <2> QED
    BY <2>1, <2>2, <2>3
<1>2. CASE BeginUninstall
  BY <1>2, PlansAreSteps DEF BeginUninstall, CommandBegins
<1> QED
  BY <1>1, <1>2

\* A step of an install that makes its part whole.
LEMMA InstallStepKeeps ==
  ASSUME ServiceInv, NEW x, Doing("install", x), StepDone, platform' = platform, running' \in BOOLEAN,
         \/ x = "reload" /\ part' = part
         \/ part' = [part EXCEPT ![x] = "whole"]
  PROVE  ServiceInv'
<1> USE DEF ServiceInv, ServiceTypeOK, WhatIsMissingRemains, InstallTellsTheTruth
<1>1. plan.doing = "install" /\ Head(plan.steps) = x
  BY DEF Doing
<1>2. ServiceTypeOK'
  BY <1>1, StepDoneKeeps DEF PlanIsTyped
<1>3. Parts(platform) \subseteq DOMAIN part
  OBVIOUS
<1>4. \A y \in Parts(platform) : part'[y] = "whole" \/ (y # x /\ Remains(y))
  BY <1>1, <1>3, PartsAreInstalled
<1>5. WhatIsMissingRemains' /\ InstallTellsTheTruth'
  BY <1>1, <1>4, StepDoneKeeps DEF Complete
<1> QED
  BY <1>1, <1>2, <1>5, StepDoneKeeps

\* A truncated file is the one whose step is not done yet.
LEMMA OpenFileKeeps ==
  ASSUME ServiceInv, NEW file \in Files, OpenFile(file)
  PROVE  ServiceInv'
<1> USE DEF ServiceInv, ServiceTypeOK, WhatIsMissingRemains, InstallTellsTheTruth
<1>1. Remains(file)
  BY DEF OpenFile, Doing, PlanIsTyped, Remains
<1>2. WhatIsMissingRemains'
  BY <1>1 DEF OpenFile, Remains
<1> QED
  BY <1>2 DEF OpenFile, Doing, PlanIsTyped, SilentUntilItEnds

\* An uninstall never reports an install.
LEMMA UninstallStepKeeps ==
  ASSUME ServiceInv, (\E x : Undo(x)) \/ UndoFails
  PROVE  ServiceInv'
<1> USE DEF ServiceInv, ServiceTypeOK, WhatIsMissingRemains, InstallTellsTheTruth
<1>1. CASE \E x : Undo(x)
  BY <1>1, StepDoneKeeps DEF Undo, Doing
<1>2. CASE UndoFails
  BY <1>2, StepDoneKeeps, EndingKeeps DEF UndoFails
<1> QED
  BY <1>1, <1>2

\* What ends a command early, and what happens between commands.
LEMMA EndKeeps ==
  ASSUME ServiceInv, InstallFails \/ Killed \/ ServiceStarts \/ ServiceStops
  PROVE  ServiceInv'
<1> USE DEF ServiceInv, ServiceTypeOK, WhatIsMissingRemains, InstallTellsTheTruth
<1>1. CASE InstallFails \/ Killed
  BY <1>1, EndingKeeps DEF InstallFails, Killed, Startable
<1>2. CASE ServiceStarts \/ ServiceStops
  BY <1>2 DEF ServiceStarts, ServiceStops, PlanIsTyped, SilentUntilItEnds, Complete, Remains
<1> QED
  BY <1>1, <1>2

\* Every step of the command keeps the invariant.
LEMMA ServiceStepInv == ServiceInv /\ [ServiceNext]_serviceVars => ServiceInv'
<1> SUFFICES ASSUME ServiceInv, [ServiceNext]_serviceVars PROVE ServiceInv'
  OBVIOUS
<1>1. ASSUME NEW file \in Files, WriteFile(file) PROVE ServiceInv'
  BY <1>1, InstallStepKeeps DEF WriteFile, ServiceInv, ServiceTypeOK
<1>2. ASSUME NEW x, RunTool(x) PROVE ServiceInv'
  BY <1>2, InstallStepKeeps DEF RunTool, ServiceInv, ServiceTypeOK
<1>3. CASE UNCHANGED serviceVars
  BY <1>3 DEF serviceVars, ServiceInv, ServiceTypeOK, WhatIsMissingRemains, InstallTellsTheTruth,
              PlanIsTyped, SilentUntilItEnds, Complete, Remains
<1> QED
  BY <1>1, <1>2, <1>3, BeginKeeps, OpenFileKeeps, UninstallStepKeeps, EndKeeps DEF ServiceNext

\* So it holds throughout.
LEMMA ServiceInvariance == ServiceSpec => []ServiceInv
BY ServiceInitInv, ServiceStepInv, PTL DEF ServiceSpec

\* What a machine has of the service, on any of the platforms.
THEOREM ServiceTypes == ServiceSpec => []ServiceTypeOK
<1>1. ServiceInv => ServiceTypeOK
  BY DEF ServiceInv
<1> QED
  BY <1>1, ServiceInvariance, PTL

\* createServiceConfig and Install, on every platform and after any history of
\* failed, killed and undone commands: a success means that each part is whole.
THEOREM InstallReportsTheTruth == ServiceSpec => []InstallTellsTheTruth
<1>1. ServiceInv => InstallTellsTheTruth
  BY DEF ServiceInv
<1> QED
  BY <1>1, ServiceInvariance, PTL

=============================================================================
