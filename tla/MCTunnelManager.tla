--------------------------- MODULE MCTunnelManager ---------------------------
(***************************************************************************)
(* Instances of TunnelManager for TLC.                                     *)
(***************************************************************************)
EXTENDS TunnelManager, TLC

\* Nothing but invariants is checked, and no definition tells these apart.
Interchangeable ==
  Permutations(Ids) \cup Permutations(Ports) \cup Permutations(Tuns)
    \cup Permutations(Conns) \cup Permutations(Bufs)
=============================================================================
