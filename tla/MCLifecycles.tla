---------------------------- MODULE MCLifecycles ----------------------------
(***************************************************************************)
(* The components that start, retry and stop, in one instance.  They share *)
(* no state, so that each behaviour is one of the component that focus     *)
(* names, with the others where they begin.                                *)
(***************************************************************************)
EXTENDS ApiManager, P2PManager, QuicConnection, ConfigReload

\* A change of the certificate, one of the credentials, and a file without any.
MCConfigs == {[relay |-> 1, secret |-> 1, ca |-> 1],
              [relay |-> 1, secret |-> 1, ca |-> 2],
              [relay |-> 1, secret |-> 0, ca |-> 1],
              [relay |-> 1, secret |-> 2, ca |-> 1]}

VARIABLE focus

vars == <<focus, apiVars, p2pVars, quicVars, reloadVars>>

Components == {"api", "p2p", "quic", "reload"}

\* A component out of focus has one initial state.
Rest(c) ==
  CASE c = "p2p" -> ~smoke
    [] c = "reload" -> file = [relay |-> 1, secret |-> 1, ca |-> 1]
    [] OTHER -> TRUE

Init ==
  /\ focus \in Components
  /\ ApiInit /\ P2PInit /\ QuicInit /\ ReloadInit
  /\ \A c \in Components \ {focus} : Rest(c)

ApiTurn ==
  /\ focus = "api" /\ ApiNext
  /\ UNCHANGED <<focus, p2pVars, quicVars, reloadVars>>

P2PTurn ==
  /\ focus = "p2p" /\ P2PNext
  /\ UNCHANGED <<focus, apiVars, quicVars, reloadVars>>

QuicTurn ==
  /\ focus = "quic" /\ QuicNext
  /\ UNCHANGED <<focus, apiVars, p2pVars, reloadVars>>

ReloadTurn ==
  /\ focus = "reload" /\ ReloadNext
  /\ UNCHANGED <<focus, apiVars, p2pVars, quicVars>>

Next == ApiTurn \/ P2PTurn \/ QuicTurn \/ ReloadTurn

\* Where a component begins none of its fair actions is enabled.
Spec ==
  /\ Init /\ [][Next]_vars
  /\ ApiFairness /\ P2PFairness /\ QuicFairness /\ ReloadFairness

=============================================================================
