----------------------------- MODULE ApiPromise -----------------------------
(***************************************************************************)
(* What the control-plane manager promises the P2P manager that owns it:   *)
(* it serves only a registered peer, it may register the peer again at any *)
(* time, and it serves once: a manager that was stopped is used up.        *)
(***************************************************************************)
CONSTANTS RegIds, NoReg        \* the registrations a relay issues, and none

VARIABLES serving, retired, registered

Init == serving = FALSE /\ retired = FALSE /\ registered = NoReg

Register ==
  /\ registered' \in RegIds \ {registered}
  /\ UNCHANGED <<serving, retired>>

Serve ==
  /\ ~serving /\ ~retired /\ registered # NoReg
  /\ serving' = TRUE
  /\ UNCHANGED <<retired, registered>>

Retire ==
  /\ serving
  /\ serving' = FALSE /\ retired' = TRUE
  /\ UNCHANGED registered

Next == Register \/ Serve \/ Retire

Spec == Init /\ [][Next]_<<serving, retired, registered>>

=============================================================================
