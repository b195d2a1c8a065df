--------------------------- MODULE ServiceInstall ---------------------------
(***************************************************************************)
(* The service commands of cmd/cloudbridge-client and pkg/service: install *)
(* and uninstall as the steps of a platform's plan, each of which may fail *)
(* or be the last before the process is killed, and start, stop and        *)
(* restart.  A file is truncated before it is written, and on Linux the    *)
(* system refuses to open the binary of a running service for writing.     *)
(*                                                                         *)
(* Whoever operates the machine runs one command at a time.                *)
(*                                                                         *)
(* A definition named Faulty... is the one after it with a plausible bug;  *)
(* no action uses it, and it breaks the property below.                    *)
(***************************************************************************)
EXTENDS Sequences, Naturals

LOCAL INSTANCE SequencesExt

CONSTANT Platforms       \* of "linux", "windows", "darwin"

ASSUME ServiceAssumption == Platforms \subseteq {"linux", "windows", "darwin"}

VARIABLES
  platform,
  part,                  \* what there is of each part: "none", "half" or "whole"
  running,               \* the service runs
  plan,                  \* the steps that the command under way has left
  reported               \* what the last command told: a success, or nothing

serviceVars == <<platform, part, running, plan, reported>>

Files == {"config", "binary", "unit"}

\* createServiceConfig, then Install.
InstallPlan(p) ==
  CASE p = "linux" -> <<"config", "binary", "unit", "reload", "enabled">>
    [] p = "windows" -> <<"config", "registered", "parameters", "labels", "enabled">>
    [] p = "darwin" -> <<"config", "binary", "unit", "enabled">>

\* nssm runs the binary where it is; only launchd's "load" starts what it enables.
Parts(p) == ToSet(InstallPlan(p)) \ {"reload"}

UninstallPlan(p) ==
  CASE p = "linux" -> <<"stop", "enabled", "unit", "binary", "reload">>
    [] p = "windows" -> <<"stop", "registered">>
    [] p = "darwin" -> <<"enabled", "unit", "binary">>

\* What systemd or nssm need for a start.
Startable == \A x \in Parts(platform) \cap {"binary", "unit", "registered"} : part[x] = "whole"

Complete == \A x \in Parts(platform) : part[x] = "whole"

ServiceInit ==
  /\ platform \in Platforms
  /\ part = [x \in UNION {Parts(p) : p \in Platforms} |-> "none"]
  /\ running = FALSE
  /\ plan = [doing |-> "nothing", steps |-> <<>>] /\ reported = "nothing"

CommandBegins(what, steps) ==
  /\ plan.doing = "nothing"
  /\ plan' = [doing |-> what, steps |-> steps]
  /\ reported' = "nothing"
  /\ UNCHANGED <<platform, part, running>>

CommandEnds(told) == plan' = [doing |-> "nothing", steps |-> <<>>] /\ reported' = told

\* The step is done; after the last the command reports.
StepDone ==
  IF Len(plan.steps) = 1
  THEN CommandEnds(plan.doing)
  ELSE plan' = [plan EXCEPT !.steps = Tail(plan.steps)] /\ UNCHANGED reported

Doing(what, step) == plan.doing = what /\ Head(plan.steps) = step

-----------------------------------------------------------------------------
(* Install. *)

BeginInstall == CommandBegins("install", InstallPlan(platform))

InUse(file) == file = "binary" /\ running /\ part[file] = "whole" /\ platform = "linux"

\* os.WriteFile truncates first.
OpenFile(file) ==
  /\ Doing("install", file) /\ part[file] # "half" /\ ~InUse(file)
  /\ part' = [part EXCEPT ![file] = "half"]
  /\ UNCHANGED <<platform, running, plan, reported>>

WriteFile(file) ==
  /\ Doing("install", file) /\ part[file] = "half"
  /\ part' = [part EXCEPT ![file] = "whole"]
  /\ StepDone
  /\ UNCHANGED <<platform, running>>

\* systemctl, nssm or launchctl; nssm does not install what it has.
RunTool(x) ==
  /\ Doing("install", x) /\ (x = "registered" => part[x] = "none")
  /\ part' = IF x = "reload" THEN part ELSE [part EXCEPT ![x] = "whole"]
  /\ running' = (running \/ (platform = "darwin" /\ x = "enabled"))
  /\ StepDone
  /\ UNCHANGED platform

\* Warns and goes on, as uninstall does.
FaultyInstallFails ==
  /\ plan.doing = "install" /\ StepDone
  /\ UNCHANGED <<platform, part, running>>

\* The first error ends it, and nothing is taken back.
InstallFails ==
  /\ plan.doing = "install" /\ CommandEnds("nothing")
  /\ UNCHANGED <<platform, part, running>>

-----------------------------------------------------------------------------
(* Uninstall: what fails is warned of and passed over, but for the last    *)
(* step on Linux and Windows.  The configuration stays.                    *)

BeginUninstall == CommandBegins("uninstall", UninstallPlan(platform))

\* nssm forgets the service with all that was set; launchd stops what it unloads.
Undo(x) ==
  /\ Doing("uninstall", x)
  /\ part' = [y \in DOMAIN part |->
                IF y = x \/ (x = "registered" /\ y # "config") THEN "none" ELSE part[y]]
  /\ running' = (running /\ x \notin {"stop", "registered"}
                         /\ ~(platform = "darwin" /\ x = "enabled"))
  /\ StepDone
  /\ UNCHANGED platform

UndoFails ==
  /\ plan.doing = "uninstall"
  /\ IF Len(plan.steps) > 1 \/ platform = "darwin" THEN StepDone ELSE CommandEnds("nothing")
  /\ UNCHANGED <<platform, part, running>>

-----------------------------------------------------------------------------
\* The process is killed, or the machine goes down: the service with it, to
\* come back if it is enabled and can be started.
Killed ==
  /\ plan.doing # "nothing" /\ CommandEnds("nothing")
  /\ running' \in {running, part["enabled"] = "whole" /\ Startable}
  /\ UNCHANGED <<platform, part>>

\* Stop and Start, by systemd, nssm or launchd; restart is one after the other.
\* launchctl is asked for a label other than the one the plist has, and never finds it.
ServiceStarts ==
  /\ plan.doing = "nothing" /\ ~running /\ platform # "darwin"
  /\ Startable
  /\ running' = TRUE
  /\ UNCHANGED <<platform, part, plan, reported>>

ServiceStops ==
  /\ plan.doing = "nothing" /\ running /\ platform # "darwin"
  /\ running' = FALSE
  /\ UNCHANGED <<platform, part, plan, reported>>

-----------------------------------------------------------------------------
ServiceNext ==
  \/ BeginInstall \/ BeginUninstall
  \/ \E file \in Files : OpenFile(file) \/ WriteFile(file)
  \/ \E x \in {"reload", "registered", "parameters", "labels", "enabled"} : RunTool(x)
  \/ \E x \in {"stop", "enabled", "unit", "binary", "registered", "reload"} : Undo(x)
  \/ InstallFails \/ UndoFails \/ Killed
  \/ ServiceStarts \/ ServiceStops

ServiceSpec == ServiceInit /\ [][ServiceNext]_serviceVars

-----------------------------------------------------------------------------
(* Properties. *)

\* What a machine may have of the service.
ServiceTypeOK ==
  /\ platform \in Platforms /\ running \in BOOLEAN
  /\ part \in [UNION {Parts(p) : p \in Platforms} -> {"none", "half", "whole"}]
  /\ plan.doing \in {"nothing", "install", "uninstall"}
  /\ reported \in {"nothing", "install", "uninstall"}

\* An install that reports success has left a whole service that is enabled,
\* whatever commands failed or were killed before it, and what they had left.
InstallTellsTheTruth == reported = "install" => Complete

=============================================================================
