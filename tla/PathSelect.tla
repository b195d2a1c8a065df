----------------------------- MODULE PathSelect -----------------------------
(***************************************************************************)
(* The path ladder of pkg/pathselect: LadderSelector.Ensure and            *)
(* LadderSelector.HealthTick over the RelayQUICPath and GRPCTunnelPath     *)
(* adapters, with the Session state machine they drive.                    *)
(*                                                                         *)
(* A call holds the selector's mutex from its first step to its return     *)
(* (call # NoCall), but probing and opening are network operations, so the *)
(* network changes between its steps.  Handles stand for the QUIC          *)
(* connection or gRPC tunnel an adapter opens; several sessions may share  *)
(* one selector.                                                           *)
(*                                                                         *)
(* A definition named Faulty... is the one after it with a plausible bug;  *)
(* no action uses it, and each breaks one property below.                  *)
(***************************************************************************)
EXTENDS Naturals, Sequences

CONSTANTS
  Sessions, Paths, Ids,        \* sessions, path names, handle identities
  Order,                       \* Config.Order: the ladder, a sequence of paths
  Registered,                  \* the paths an adapter was given for
  NeedsToken,                  \* adapters whose Open refuses an empty token
  SoftFail,                    \* Config.SoftFail
  NoPath, NoSession, NoId

ASSUME LadderAssumption ==
  /\ Order \in Seq(Paths)
  /\ Registered \subseteq Paths
  /\ NeedsToken \subseteq Paths
  /\ SoftFail \in BOOLEAN
  /\ NoPath \notin Paths
  /\ NoSession \notin Sessions
  /\ NoId \notin Ids

VARIABLES
  state,       \* Session.State
  active,      \* Session.Active
  activePath,  \* Session.ActivePath
  cooling,     \* cooling[s]: less than FailoverCooldown since Session.LastFailover
  adapter,     \* the session each path adapter remembers (p.active)
  live,        \* the handles whose connection has not been closed
  up,          \* the adapters the network lets a probe and a dial of through
  call         \* the Ensure or HealthTick that holds LadderSelector.mu

sessVars == <<state, active, activePath, cooling>>
vars == <<state, active, activePath, cooling, adapter, live, up, call>>

States == {"idle", "authenticating", "control_ready", "probing", "path_selected",
           "degraded", "handing_over", "failed", "closed"}

Handles == [path : Paths, id : Ids]
NoHandle == [path |-> NoPath, id |-> NoId]

\* usable is a history of the call: the paths that were up at every moment
\* since it began, as long as its deadline has not passed.
Calls == [op : {"ensure", "tick"}, sess : Sessions, stage : {"health", "probe", "open"},
          rung : Nat, token : BOOLEAN, expired : BOOLEAN, usable : SUBSET Paths]
NoCall == [op |-> "none", sess |-> NoSession, stage |-> "none", rung |-> 0,
           token |-> FALSE, expired |-> FALSE, usable |-> {}]

-----------------------------------------------------------------------------
(* The session's state machine. *)

Allowed ==
  [st \in States |->
     CASE st = "idle"           -> {"authenticating", "closed"}
       [] st = "authenticating" -> {"control_ready", "failed", "closed"}
       [] st = "control_ready"  -> {"probing", "failed", "closed"}
       [] st = "probing"        -> {"path_selected", "failed", "closed"}
       [] st = "path_selected"  -> {"degraded", "handing_over", "probing", "failed", "closed"}
       [] st = "degraded"       -> {"probing", "handing_over", "path_selected", "failed", "closed"}
       [] st = "handing_over"   -> {"path_selected", "degraded", "failed", "closed"}
       [] st = "failed"         -> {"probing", "authenticating", "closed"}
       [] st = "closed"         -> {}]

\* A refused transition returns an error, which the selector ignores, and
\* leaves the state as it was.
Transition(from, to) == IF to \in Allowed[from] THEN to ELSE from

\* How Ensure brings a session to probing.
EnsureEntry(st) ==
  IF st \in {"idle", "authenticating"}
  THEN Transition(Transition(Transition(st, "authenticating"), "control_ready"), "probing")
  ELSE Transition(st, "probing")

-----------------------------------------------------------------------------
Init ==
  /\ state = [s \in Sessions |-> "idle"]
  /\ active = [s \in Sessions |-> NoHandle]
  /\ activePath = [s \in Sessions |-> NoPath]
  /\ cooling = [s \in Sessions |-> FALSE]
  /\ adapter = [p \in Paths |-> NoHandle]
  /\ live = {}
  /\ up \in SUBSET Registered
  /\ call = NoCall

(* The environment: reachability, the cooldown clock, the call's deadline. *)

NetworkChange(p) ==
  /\ up' = IF p \in up THEN up \ {p} ELSE up \cup {p}
  /\ call' = [call EXCEPT !.usable = @ \ {p}]
  /\ UNCHANGED <<sessVars, adapter, live>>

CooldownPasses(s) ==
  /\ cooling[s]
  /\ cooling' = [cooling EXCEPT ![s] = FALSE]
  /\ UNCHANGED <<state, active, activePath, adapter, live, up, call>>

\* LadderTimeout or the caller's context: from here on every
\* probe and open of this call fails.
DeadlineExpires ==
  /\ call # NoCall
  /\ ~call.expired
  /\ call' = [call EXCEPT !.expired = TRUE, !.usable = {}]
  /\ UNCHANGED <<sessVars, adapter, live, up>>

(* The owner of a session drives the edges the selector does not. *)

CallerTransition(s, next) ==
  /\ call.sess # s
  /\ next \in Allowed[state[s]]
  /\ \/ next \in {"authenticating", "control_ready", "handing_over", "failed", "closed"}
     \/ state[s] = "handing_over"
  /\ state' = [state EXCEPT ![s] = next]
  /\ UNCHANGED <<active, activePath, cooling, adapter, live, up, call>>

ClearActive(s) ==
  /\ call.sess # s
  /\ state[s] \in {"failed", "closed"}
  /\ active[s] # NoHandle
  /\ live' = live \ {active[s]}
  /\ active' = [active EXCEPT ![s] = NoHandle]
  /\ activePath' = [activePath EXCEPT ![s] = NoPath]
  /\ UNCHANGED <<state, cooling, adapter, up, call>>

-----------------------------------------------------------------------------
(* Ensure and HealthTick. *)

\* Starts the ladder at its second rung.
FaultyEnsureBegin(s, token) ==
  /\ call = NoCall
  /\ Order # <<>>
  /\ EnsureEntry(state[s]) = "probing"
  /\ state' = [state EXCEPT ![s] = EnsureEntry(@)]
  /\ call' = [op |-> "ensure", sess |-> s, stage |-> "probe", rung |-> 2,
              token |-> token, expired |-> FALSE, usable |-> up]
  /\ UNCHANGED <<active, activePath, cooling, adapter, live, up>>

EnsureBegin(s, token) ==
  /\ call = NoCall
  /\ Order # <<>>
  /\ EnsureEntry(state[s]) = "probing"
  /\ state' = [state EXCEPT ![s] = EnsureEntry(@)]
  /\ call' = [op |-> "ensure", sess |-> s, stage |-> "probe", rung |-> 1,
              token |-> token, expired |-> FALSE, usable |-> up]
  /\ UNCHANGED <<active, activePath, cooling, adapter, live, up>>

\* The request a health failover builds from the session has no Meta.
FailoverToken == FALSE

TickBegin(s) ==
  /\ call = NoCall
  /\ state[s] \in {"path_selected", "degraded"}
  /\ activePath[s] # NoPath
  /\ call' = [op |-> "tick", sess |-> s, stage |-> "health", rung |-> 1,
              token |-> FailoverToken, expired |-> FALSE, usable |-> up]
  /\ UNCHANGED <<sessVars, adapter, live, up>>

ActiveAnswers == activePath[call.sess] \in up /\ ~call.expired

HealthOK ==
  /\ call.stage = "health"
  /\ ActiveAnswers
  /\ state' = [state EXCEPT ![call.sess] = Transition(@, "path_selected")]
  /\ call' = NoCall
  /\ UNCHANGED <<active, activePath, cooling, adapter, live, up>>

HealthFailsInCooldown ==
  /\ call.stage = "health"
  /\ ~ActiveAnswers
  /\ cooling[call.sess]
  /\ state' = [state EXCEPT ![call.sess] = Transition(@, "degraded")]
  /\ call' = NoCall
  /\ UNCHANGED <<active, activePath, cooling, adapter, live, up>>

\* Does not look at the cooldown.
FaultyHealthFailsReladder ==
  /\ call.stage = "health"
  /\ ~ActiveAnswers
  /\ state' = [state EXCEPT ![call.sess] = Transition(Transition(@, "degraded"), "probing")]
  /\ call' = [call EXCEPT !.stage = "probe"]
  /\ UNCHANGED <<active, activePath, cooling, adapter, live, up>>

HealthFailsReladder ==
  /\ call.stage = "health"
  /\ ~ActiveAnswers
  /\ ~cooling[call.sess]
  /\ state' = [state EXCEPT ![call.sess] = Transition(Transition(@, "degraded"), "probing")]
  /\ call' = [call EXCEPT !.stage = "probe"]
  /\ UNCHANGED <<active, activePath, cooling, adapter, live, up>>

Rung == Order[call.rung]

\* The rungs a call does not try: names without an adapter and, in a failover
\* that is not soft, the path whose health probe has just failed.
Skipped(p) ==
  \/ p \notin Registered
  \/ call.op = "tick" /\ ~SoftFail /\ p = activePath[call.sess]

\* Steps over a rung.
FaultyNextRung == call' = [call EXCEPT !.stage = "probe", !.rung = @ + 2]

NextRung == call' = [call EXCEPT !.stage = "probe", !.rung = @ + 1]

ProbeRung ==
  /\ call.stage = "probe"
  /\ call.rung <= Len(Order)
  /\ IF ~Skipped(Rung) /\ Rung \in up /\ ~call.expired
     THEN call' = [call EXCEPT !.stage = "open"]
     ELSE NextRung
  /\ UNCHANGED <<sessVars, adapter, live, up>>

CanOpen(p) == p \in up /\ ~call.expired /\ (p \in NeedsToken => call.token)

\* Retries the rung that failed.
FaultyOpenFailsRetry ==
  /\ call.stage = "open"
  /\ ~CanOpen(Rung)
  /\ call' = [call EXCEPT !.stage = "probe"]
  /\ UNCHANGED <<sessVars, adapter, live, up>>

\* The adapter closes what it remembers before it dials.
FaultyOpenFailsClosed ==
  /\ call.stage = "open"
  /\ ~CanOpen(Rung)
  /\ NextRung
  /\ live' = live \ {adapter[Rung]}
  /\ UNCHANGED <<sessVars, adapter, up>>

OpenFails ==
  /\ call.stage = "open"
  /\ ~CanOpen(Rung)
  /\ NextRung
  /\ UNCHANGED <<sessVars, adapter, live, up>>

Fresh(h) ==
  /\ h \notin live
  /\ \A s \in Sessions : active[s] # h
  /\ \A p \in Paths : adapter[p] # h

\* What OpenSucceeds does, closing only the handles in `closed`.
InstallClosing(h, closed) ==
  LET s == call.sess
      p == Rung
  IN /\ call.stage = "open"
     /\ CanOpen(p)
     /\ h.path = p
     /\ Fresh(h)
     /\ live' = (live \ closed) \cup {h}
     /\ adapter' = [adapter EXCEPT ![p] = h]
     /\ active' = [active EXCEPT ![s] = h]
     /\ activePath' = [activePath EXCEPT ![s] = p]
     /\ cooling' = [cooling EXCEPT ![s] = @ \/ call.op = "tick"]
     /\ state' = [state EXCEPT ![s] = Transition(@, "path_selected")]
     /\ call' = NoCall
     /\ UNCHANGED up

\* The selector forgets the session's old handle without closing it.
FaultyOpenLeaksActive(h) == InstallClosing(h, {adapter[Rung]})

\* The adapter closes the session it remembered and remembers the new one;
\* the selector closes the session's old handle and installs the new one.
OpenSucceeds(h) == InstallClosing(h, {adapter[Rung], active[call.sess]})

\* Drops the carrier with the search.
FaultyLadderExhausted ==
  /\ call.stage = "probe"
  /\ call.rung > Len(Order)
  /\ state' = [state EXCEPT ![call.sess] = Transition(@, "failed")]
  /\ active' = [active EXCEPT ![call.sess] = NoHandle]
  /\ activePath' = [activePath EXCEPT ![call.sess] = NoPath]
  /\ call' = NoCall
  /\ UNCHANGED <<cooling, adapter, live, up>>

\* The session keeps the handle it had.
LadderExhausted ==
  /\ call.stage = "probe"
  /\ call.rung > Len(Order)
  /\ state' = [state EXCEPT ![call.sess] = Transition(@, "failed")]
  /\ call' = NoCall
  /\ UNCHANGED <<active, activePath, cooling, adapter, live, up>>

-----------------------------------------------------------------------------
Advance ==
  \/ HealthOK \/ HealthFailsInCooldown \/ HealthFailsReladder
  \/ ProbeRung \/ OpenFails \/ LadderExhausted
  \/ \E h \in Handles : OpenSucceeds(h)

Next ==
  \/ Advance
  \/ DeadlineExpires
  \/ \E p \in Registered : NetworkChange(p)
  \/ \E s \in Sessions :
       \/ EnsureBegin(s, TRUE) \/ EnsureBegin(s, FALSE)
       \/ TickBegin(s) \/ CooldownPasses(s) \/ ClearActive(s)
       \/ \E next \in States : CallerTransition(s, next)

Spec == Init /\ [][Next]_vars

\* Every probe and dial carries a context with a deadline, so a call in
\* progress always takes its next step; nothing makes a caller call.
FairSpec == Spec /\ WF_vars(Advance)

-----------------------------------------------------------------------------
(* Properties. *)

\* What the session's fields, the adapters and the call in progress may hold.
TypeOK ==
  /\ state \in [Sessions -> States]
  /\ active \in [Sessions -> Handles \cup {NoHandle}]
  /\ activePath \in [Sessions -> Paths \cup {NoPath}]
  /\ cooling \in [Sessions -> BOOLEAN]
  /\ adapter \in [Paths -> Handles \cup {NoHandle}]
  /\ live \in SUBSET Handles
  /\ up \in SUBSET Registered
  /\ call \in Calls \cup {NoCall}

\* A session that may carry data has a handle, and the handle belongs to the
\* path the session names.  Transition errors are ignored throughout
\* selector.go, so state and handle could drift apart.
SelectedIsBound ==
  \A s \in Sessions :
    /\ activePath[s] = active[s].path
    /\ state[s] \in {"path_selected", "degraded", "handing_over"} => active[s] # NoHandle

\* No connection is open that no session holds: replacing, failing over,
\* exhausting the ladder and clearing leave nothing behind.
NoLeakedHandle == \A h \in live : \E s \in Sessions : active[s] = h

\* However many sessions share the selector, a path carries one connection,
\* the one its adapter remembers.
OneLivePerPath == \A h \in live : adapter[h.path] = h

\* "Handle is an open path instance held by the session" (types.go:73).
ActiveIsOpen == \A s \in Sessions : active[s] # NoHandle => active[s] \in live

\* The rungs that could have served the call from its beginning to now.
Candidates ==
  {p \in call.usable : ~Skipped(p) /\ (p \in NeedsToken => call.token)}

Returns(st) ==
  /\ call # NoCall /\ call' = NoCall
  /\ state'[call.sess] = st

\* Neither call gives up while a rung it could open was up all along.
LadderIsExhaustive ==
  [][Returns("failed") => \A i \in 1..Len(Order) : Order[i] \notin Candidates]_vars

\* A rung is chosen only if no earlier rung was up all along: the ladder is a
\* policy, and a slow or flapping rung does not reorder it.
LadderRespectsOrder ==
  [][active' # active /\ call # NoCall /\ call' = NoCall =>
       \A i \in 1..(call.rung - 1) : Order[i] \notin Candidates]_vars

\* A health tick never takes the connection away from a session whose path
\* answered throughout the tick, and never moves a session in its cooldown.
FailoverIsJustified ==
  [][\A s \in Sessions :
       call.op = "tick" /\ call.sess = s /\ active'[s] # active[s] =>
         activePath[s] \notin call.usable /\ ~cooling[s]]_vars

\* A call in progress returns and frees the selector.
CallReturns == (call # NoCall) ~> (call = NoCall)

\* "if fail: HandingOver to next path": a failover gives up only if every
\* other path of the ladder was down at some moment of it.
FailoverReachesNextPath ==
  [][Returns("failed") /\ call.op = "tick" =>
       \A i \in 1..Len(Order) :
         ~Skipped(Order[i]) => Order[i] \notin call.usable]_vars

-----------------------------------------------------------------------------
(* The session as its owner sees it. *)

PhaseOf(st) ==
  CASE st \in {"idle", "authenticating", "control_ready"} -> "setup"
    [] st = "probing"       -> "searching"
    [] st = "path_selected" -> "serving"
    [] st = "degraded"      -> "impaired"
    [] st = "handing_over"  -> "migrating"
    [] st = "failed"        -> "down"
    [] st = "closed"        -> "closed"

Promise == INSTANCE SessionPromise
             WITH phase <- [s \in Sessions |-> PhaseOf(state[s])],
                  carrier <- activePath

\* The ladder keeps the promise: the carrier changes only at the end of a
\* search that succeeded or when a session that is down or closed is cleared.
KeepsPromise == Promise!Spec

=============================================================================
