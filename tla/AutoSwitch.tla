------------------------------ MODULE AutoSwitch ------------------------------
(***************************************************************************)
(* The fallback from QUIC to WireGuard: the AutoSwitchManager of           *)
(* pkg/relay/autoswitch.go with its health-check loop and its callbacks,   *)
(* and the WireGuardManager of pkg/relay/wireguard.go with the network     *)
(* interface it makes and removes by external commands.                    *)
(*                                                                         *)
(* AutoSwitchManager.mu is held over the health check and over every       *)
(* command; the process may die between two of them and leave the          *)
(* interface to its successor.  NewClient starts the manager, so a process *)
(* begins with it started, and WireGuard is enabled and installed.         *)
(*                                                                         *)
(* A definition named Faulty... is the one after it with a plausible bug;  *)
(* no action uses it, and each breaks one property below.                  *)
(***************************************************************************)
EXTENDS Integers

CONSTANTS
  Users,           \* goroutines that call ForceSwitch and Stop
  Loop,            \* the health-check goroutine
  Free,            \* the owner of a mutex nobody holds
  MaxPending,      \* bound: callbacks spawned and not run
  MaxCrashes       \* bound: times the process is killed

ASSUME FallbackAssumption ==
  /\ Loop \notin Users /\ Free \notin Users \cup {Loop}
  /\ MaxPending \in Nat \ {0} /\ MaxCrashes \in Nat

Procs == Users \cup {Loop}
Modes == {"quic", "wireguard"}

VARIABLES
  lock,            \* the owner of AutoSwitchManager.mu
  at,              \* what each goroutine is doing, or waits for the mutex to do
  stage,           \* the command or the check the owner of the mutex waits for
  mode,            \* AutoSwitchManager.currentMode
  running,         \* Stop has not cancelled the context
  connected,       \* WireGuardManager.connected
  link,            \* the interface as the kernel has it
  quic,            \* a UDP packet to the relay can be sent
  able,            \* the ip and wg commands succeed
  crashes,         \* how often the process was killed
  pending,         \* callbacks that have been spawned and have not run, by new mode
  gauge,           \* the mode the callback reported last (metrics)
  stray,           \* history: the link outlived a failed removal or a process
  balance,         \* history: callbacks run for WireGuard minus those for QUIC
  overlapped       \* history: the last callback was spawned while another waited

control == <<lock, at, stage>>
tunnel == <<connected, link, stray>>
world == <<quic, able, crashes>>
reports == <<pending, gauge, balance, overlapped>>
vars == <<control, mode, running, tunnel, world, reports>>

Doing == {"idle", "check", "wireguard", "quic", "stop"}
Stages == {"none", "probing", "looking", "creating", "configuring", "raising", "undoing",
           "lowering", "deleting"}
Links == {"absent", "bare", "configured", "up"}

Init ==
  /\ lock = Free /\ at = [p \in Procs |-> "idle"] /\ stage = "none"
  /\ mode = "quic" /\ running = TRUE
  /\ connected = FALSE /\ link = "absent" /\ stray = FALSE
  /\ quic \in BOOLEAN /\ able \in BOOLEAN /\ crashes = 0
  /\ pending = [m \in Modes |-> 0] /\ gauge = "quic"
  /\ balance = 0 /\ overlapped = FALSE

Go(p, what) == at' = [at EXCEPT ![p] = what]
Proceed(next) == stage' = next /\ UNCHANGED <<lock, at>>
Return == lock' = Free /\ stage' = "none" /\ Go(lock, "idle")

Waiting == pending["quic"] + pending["wireguard"]

\* The callback is spawned with the modes as they are now; it runs later.
Announce(m) ==
  /\ pending' = [pending EXCEPT ![m] = @ + 1]
  /\ overlapped' = (Waiting > 0)
  /\ UNCHANGED <<gauge, balance>>

\* Changes the mode without telling anybody.
FaultySwitched(m) ==
  /\ mode' = m
  /\ UNCHANGED reports
  /\ Return

Switched(m) ==
  /\ mode' = m
  /\ Announce(m)
  /\ Return

-----------------------------------------------------------------------------
(* The environment. *)

QuicChanges ==
  quic' = ~quic /\ UNCHANGED <<control, mode, running, tunnel, able, crashes, reports>>
CommandsChange ==
  able' = ~able /\ UNCHANGED <<control, mode, running, tunnel, quic, crashes, reports>>

\* The process is killed and another is started: the kernel keeps the link.
Crash ==
  /\ crashes < MaxCrashes /\ crashes' = crashes + 1
  /\ lock' = Free /\ at' = [p \in Procs |-> "idle"] /\ stage' = "none"
  /\ mode' = "quic" /\ running' = TRUE
  /\ connected' = FALSE /\ stray' = (link # "absent")
  /\ pending' = [m \in Modes |-> 0] /\ gauge' = "quic"
  /\ balance' = 0 /\ overlapped' = FALSE
  /\ UNCHANGED <<link, quic, able>>

\* A callback runs; two of them may run in either order.
Callback(m) ==
  /\ pending[m] > 0
  /\ pending' = [pending EXCEPT ![m] = @ - 1]
  /\ gauge' = m
  /\ balance' = IF m = "wireguard" THEN balance + 1 ELSE balance - 1
  /\ UNCHANGED <<control, mode, running, tunnel, world, overlapped>>

-----------------------------------------------------------------------------
(* Calls, and the health-check loop. *)

Call(u, what) ==
  /\ at[u] = "idle" /\ what \in {"wireguard", "quic", "stop"}
  /\ Go(u, what)
  /\ UNCHANGED <<lock, stage, mode, running, tunnel, world, reports>>

\* The loop takes a tick; a stopped one takes no more.
Tick ==
  /\ at[Loop] = "idle" /\ running
  /\ Go(Loop, "check")
  /\ UNCHANGED <<lock, stage, mode, running, tunnel, world, reports>>

\* A call that finds the mode it asks for returns at once.
AlreadyThere(p) ==
  /\ lock = Free /\ at[p] = mode
  /\ Go(p, "idle")
  /\ UNCHANGED <<lock, stage, mode, running, tunnel, world, reports>>

\* Where the holder of the mutex begins: the check, Connect or TearDown.
FirstStage(what) ==
  CASE what = "check" -> "probing" [] what = "wireguard" -> "looking" [] OTHER -> "lowering"

Enter(p) ==
  /\ lock = Free /\ at[p] # "idle" /\ at[p] # mode
  /\ Waiting < MaxPending
  /\ lock' = p /\ stage' = FirstStage(at[p])
  /\ UNCHANGED <<at, mode, running, tunnel, world, reports>>

\* Never switches back.
FaultyCheck ==
  /\ stage = "probing"
  /\ IF mode = "quic" /\ ~quic
     THEN Go(lock, "wireguard") /\ stage' = "looking" /\ UNCHANGED lock
     ELSE Return
  /\ UNCHANGED <<mode, running, tunnel, world, reports>>

\* performHealthCheck leaves a QUIC that fails and returns to one that works.
Check ==
  /\ stage = "probing"
  /\ IF mode = "quic" /\ ~quic
     THEN Go(lock, "wireguard") /\ stage' = "looking" /\ UNCHANGED lock
     ELSE IF mode = "wireguard" /\ quic
     THEN Go(lock, "quic") /\ stage' = "lowering" /\ UNCHANGED lock
     ELSE Return
  /\ UNCHANGED <<mode, running, tunnel, world, reports>>

-----------------------------------------------------------------------------
(* WireGuardManager.Connect: one step for each command. *)

\* An interface of that name is taken as it is.
Look ==
  /\ stage = "looking"
  /\ IF connected \/ (link # "absent" /\ able)
     THEN Switched("wireguard") /\ connected' = TRUE
     ELSE Proceed("creating") /\ UNCHANGED <<mode, connected, reports>>
  /\ UNCHANGED <<running, link, stray, world>>

\* Does not look at what Connect returned.
FaultyCreate ==
  /\ stage = "creating"
  /\ IF able /\ link = "absent"
     THEN link' = "bare" /\ Proceed("configuring") /\ UNCHANGED <<mode, reports>>
     ELSE Switched("wireguard") /\ UNCHANGED link
  /\ UNCHANGED <<running, connected, stray, world>>

Create ==
  /\ stage = "creating"
  /\ IF able /\ link = "absent"
     THEN link' = "bare" /\ Proceed("configuring")
     ELSE Return /\ UNCHANGED link
  /\ UNCHANGED <<mode, running, connected, stray, world, reports>>

\* Returns the error and leaves the interface.
FaultyConfigure ==
  /\ stage = "configuring"
  /\ IF able
     THEN link' = "configured" /\ Proceed("raising")
     ELSE Return /\ UNCHANGED link
  /\ UNCHANGED <<mode, running, connected, stray, world, reports>>

\* The key and the MTU.
Configure ==
  /\ stage = "configuring"
  /\ IF able
     THEN link' = "configured" /\ Proceed("raising")
     ELSE Proceed("undoing") /\ UNCHANGED link
  /\ UNCHANGED <<mode, running, connected, stray, world, reports>>

Raise ==
  /\ stage = "raising"
  /\ IF able
     THEN link' = "up" /\ connected' = TRUE /\ Switched("wireguard")
     ELSE Proceed("undoing") /\ UNCHANGED <<link, connected, mode, reports>>
  /\ UNCHANGED <<running, stray, world>>

Delete ==
  /\ link' = IF able THEN "absent" ELSE link
  /\ stray' = (link' # "absent")

\* A failed Connect removes what it made, if it can.
Undo ==
  /\ stage = "undoing"
  /\ Delete
  /\ Return
  /\ UNCHANGED <<mode, running, connected, world, reports>>

-----------------------------------------------------------------------------
(* WireGuardManager.TearDown, whose failures are only logged. *)

\* A manager that is not connected has nothing to lower.
Lower ==
  /\ stage = "lowering"
  /\ link' = IF connected /\ able /\ link = "up" THEN "configured" ELSE link
  /\ Proceed("deleting")
  /\ UNCHANGED <<mode, running, connected, stray, world, reports>>

\* The interface is removed; Stop keeps the mode and ends the loop.
TearDown ==
  /\ stage = "deleting"
  /\ IF connected THEN Delete ELSE UNCHANGED <<link, stray>>
  /\ connected' = FALSE
  /\ IF at[lock] = "stop"
     THEN running' = FALSE /\ Return /\ UNCHANGED <<mode, reports>>
     ELSE Switched("quic") /\ UNCHANGED running
  /\ UNCHANGED world

-----------------------------------------------------------------------------

Section == Check \/ Look \/ Create \/ Configure \/ Raise \/ Undo \/ Lower \/ TearDown
Take(p) == AlreadyThere(p) \/ Enter(p)

Next ==
  \/ QuicChanges \/ CommandsChange \/ Crash \/ Tick \/ Section
  \/ \E m \in Modes : Callback(m)
  \/ \E u \in Users, what \in Doing : Call(u, what)
  \/ \E p \in Procs : Take(p)

Spec == Init /\ [][Next]_vars

\* The ticker ticks, commands and the check's dial end, goroutines run, and
\* the mutex serves a waiter in the end.
FairSpec ==
  /\ Spec
  /\ WF_vars(Tick) /\ WF_vars(Section)
  /\ \A m \in Modes : WF_vars(Callback(m))
  /\ \A p \in Procs : SF_vars(Take(p))

-----------------------------------------------------------------------------

\* What the variables may hold.
TypeOK ==
  /\ lock \in Procs \cup {Free} /\ at \in [Procs -> Doing] /\ stage \in Stages
  /\ mode \in Modes /\ gauge \in Modes /\ link \in Links
  /\ running \in BOOLEAN /\ connected \in BOOLEAN /\ stray \in BOOLEAN
  /\ quic \in BOOLEAN /\ able \in BOOLEAN /\ overlapped \in BOOLEAN
  /\ pending \in [Modes -> 0..MaxPending] /\ balance \in Int
  /\ crashes \in 0..MaxCrashes

\* The mode and the WireGuard manager agree through failed commands: traffic is
\* sent into WireGuard only while it is connected, or after Stop.
ModeHasTunnel ==
  /\ connected => mode = "wireguard"
  /\ mode = "wireguard" /\ running => connected

\* Every interface is accounted for when nobody is at work on it: it is up and
\* used, or a removal failed or a process died and left it.
LinkIsAccountedFor ==
  lock = Free /\ ~stray => link = IF connected THEN "up" ELSE "absent"

\* Each switch spawns one callback, and the mode that was reported last is the
\* mode, unless the last two callbacks waited at the same time.
SwitchesAreReported ==
  /\ balance + pending["wireguard"] - pending["quic"] = IF mode = "wireguard" THEN 1 ELSE 0
  /\ Waiting = 0 /\ ~overlapped => gauge = mode

\* While the manager runs and its commands work, it falls back from a QUIC that
\* stays down and returns to one that stays up, whatever its users force and
\* whatever link an earlier process left.
FollowsHealth ==
  /\ <>[](~quic /\ able /\ running) => []<>(mode = "wireguard")
  /\ <>[](quic /\ able /\ running) => []<>(mode = "quic")
=============================================================================
