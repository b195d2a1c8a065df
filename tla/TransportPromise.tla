-------------------------- MODULE TransportPromise --------------------------
(***************************************************************************)
(* What the transport manager promises whoever uses it, from however many  *)
(* goroutines: one connection at a time, each of them new, and none after  *)
(* a Close.  Modes, mutexes and dials under way are not visible here.      *)
(***************************************************************************)
CONSTANT Sockets               \* the connections that may be dialled

VARIABLES
  live,                        \* the connections that are open
  used,                        \* all that ever were
  final                        \* a Close has returned

Init == live = {} /\ used = {} /\ final = FALSE

Open ==
  /\ live = {} /\ ~final
  /\ \E s \in Sockets \ used : live' = {s} /\ used' = used \cup {s}
  /\ UNCHANGED final

Drop == live' = {} /\ UNCHANGED <<used, final>>

Finish == live' = {} /\ final' = TRUE /\ UNCHANGED used

Next == Open \/ Drop \/ Finish

Spec == Init /\ [][Next]_<<live, used, final>>

\* What a user may rely on: there is one connection or none, and none in the end.
OneOrNone ==
  /\ \A s, t \in live : s = t
  /\ live \subseteq used
  /\ final => live = {}

=============================================================================
