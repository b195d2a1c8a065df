-------------------------- MODULE MCClientCommands --------------------------
(***************************************************************************)
(* The client's calls and the commands that make them, in one instance.    *)
(* CommandLine knows the client by outcomes and a mutex of its own, so     *)
(* that each behaviour is one of the component that focus names, with the  *)
(* other where it begins.                                                  *)
(***************************************************************************)
EXTENDS RelayClient, CommandLine

VARIABLE focus

allVars == <<focus, vars, commandVars>>

BothInit ==
  /\ focus \in {"client", "command"}
  /\ Init /\ CommandInit
  /\ focus = "client" => command = "run" /\ transport = "grpc"

ClientTurn ==
  /\ focus = "client" /\ Next
  /\ UNCHANGED <<focus, commandVars>>

CommandTurn ==
  /\ focus = "command" /\ CommandNext
  /\ UNCHANGED <<focus, vars>>

BothNext == ClientTurn \/ CommandTurn

\* Where a component begins none of its fair actions is enabled.
BothSpec ==
  /\ BothInit /\ [][BothNext]_allVars
  /\ CommandFairness /\ \A t \in Threads : SF_vars(Step(t))

=============================================================================
