---------------------------- MODULE MCPathSelect ----------------------------
(* Small ladders for PathSelect. *)
EXTENDS PathSelect, TLC

MCQuic == "relay_quic"
MCGrpc == "grpc_tunnel"
MCWireGuard == "wireguard"

\* DefaultConfig().Order
MCDefaultOrder == <<MCQuic, MCGrpc>>
\* A ladder that names a path NewDefaultPaths has no adapter for.
MCLongOrder == <<MCWireGuard, MCQuic, MCGrpc>>

MCTwoPaths == {MCQuic, MCGrpc}
MCThreePaths == {MCQuic, MCGrpc, MCWireGuard}
MCTokenPaths == {MCQuic}

MCSymmetry == Permutations(Ids) \cup Permutations(Sessions)

=============================================================================
