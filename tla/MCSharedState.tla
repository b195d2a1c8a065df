--------------------------- MODULE MCSharedState ---------------------------
(***************************************************************************)
(* The components that any number of goroutines use at the same time, in   *)
(* one instance.  They share no state, so that each behaviour is one of    *)
(* the component that focus names, with the others where they begin.       *)
(***************************************************************************)
EXTENDS MeshNetwork, TunnelOpening, AuthManager, ServiceInstall, LegacyClient

CONSTANTS net, host      \* a network, and an address in it

MCCovers == {<<net, host>>}

VARIABLE focus

vars == <<focus, meshVars, openVars, authVars, serviceVars, legacyVars>>

\* The opening of a tunnel is one use of the transport.
Components == {"mesh", "transport", "open", "auth", "service", "legacy"}

\* A component out of focus has one initial state.
Rest(c) ==
  CASE c = "auth" -> published = Keys /\ authConfig.type = "oidc"
    [] c = "open" -> hasToken
    [] c = "service" -> platform = "linux"
    [] OTHER -> TRUE

Init ==
  /\ focus \in Components
  /\ MeshInit /\ OpenInit /\ AuthInit /\ ServiceInit /\ LegacyInit
  /\ \A c \in Components \ {focus} : Rest(c)

MeshTurn ==
  /\ focus = "mesh" /\ MeshNext
  /\ UNCHANGED <<focus, openVars, authVars, serviceVars, legacyVars>>

TransportTurn ==
  /\ focus = "transport" /\ TransportNext
  /\ UNCHANGED <<focus, openerVars, meshVars, authVars, serviceVars, legacyVars>>

OpenTurn ==
  /\ focus = "open" /\ OpenNext
  /\ UNCHANGED <<focus, meshVars, authVars, serviceVars, legacyVars>>

AuthTurn ==
  /\ focus = "auth" /\ AuthNext
  /\ UNCHANGED <<focus, meshVars, openVars, serviceVars, legacyVars>>

ServiceTurn ==
  /\ focus = "service" /\ ServiceNext
  /\ UNCHANGED <<focus, meshVars, openVars, authVars, legacyVars>>

LegacyTurn ==
  /\ focus = "legacy" /\ LegacyNext
  /\ UNCHANGED <<focus, meshVars, openVars, authVars, serviceVars>>

Next == MeshTurn \/ TransportTurn \/ OpenTurn \/ AuthTurn \/ ServiceTurn \/ LegacyTurn

Spec == Init /\ [][Next]_vars

=============================================================================
