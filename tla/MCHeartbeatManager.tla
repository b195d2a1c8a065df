------------------------- MODULE MCHeartbeatManager -------------------------
(* A small heartbeat manager: two generations of goroutines. *)
EXTENDS HeartbeatManager, TLC

\* 2 s, backed off up to 3 s: jitter and ceiling both matter at the second failure.
MCIntervals == {200}
MCJitters == {85, 115}
MCFailLimits == {1, 2}

MCSymmetry == Permutations(Loops) \cup Permutations(Watchers)

=============================================================================
