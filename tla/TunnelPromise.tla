---------------------------- MODULE TunnelPromise ----------------------------
(***************************************************************************)
(* What the tunnel manager promises: identifiers with a local port each    *)
(* that no other has, and relays that each copy through a buffer of their  *)
(* own, in which they find nothing of another.  Tunnel objects, proxies,   *)
(* pools and the steps of a registration are not visible here.             *)
(***************************************************************************)
CONSTANTS
  Names, Places,               \* identifiers and local ports
  Relays, Buffers,             \* who copies, and through what
  Nothing

VARIABLES
  route,                       \* the port of each identifier, or Nothing
  lent,                        \* the buffer of each relay, or Nothing
  soiled                       \* the buffers that hold bytes

vars == <<route, lent, soiled>>

Init ==
  /\ route = [n \in Names |-> Nothing]
  /\ lent = [r \in Relays |-> Nothing]
  /\ soiled = {}

Enter(n, p) ==
  /\ route[n] = Nothing /\ \A m \in Names : route[m] # p
  /\ route' = [route EXCEPT ![n] = p]
  /\ UNCHANGED <<lent, soiled>>

Remove(n) == route' = [route EXCEPT ![n] = Nothing] /\ UNCHANGED <<lent, soiled>>

Lend(r, b) ==
  /\ lent[r] = Nothing /\ \A q \in Relays : lent[q] # b
  /\ b \notin soiled
  /\ lent' = [lent EXCEPT ![r] = b]
  /\ UNCHANGED <<route, soiled>>

Soil(r) ==
  /\ lent[r] # Nothing
  /\ soiled' = soiled \cup {lent[r]}
  /\ UNCHANGED <<route, lent>>

TakeBack(r) ==
  /\ lent[r] # Nothing
  /\ lent' = [lent EXCEPT ![r] = Nothing]
  /\ soiled' = soiled \ {lent[r]}
  /\ UNCHANGED route

Next ==
  \/ \E n \in Names : Remove(n) \/ \E p \in Places : Enter(n, p)
  \/ \E r \in Relays : Soil(r) \/ TakeBack(r) \/ \E b \in Buffers : Lend(r, b)

Spec == Init /\ [][Next]_vars

\* What an application may rely on: its port is nobody else's, its bytes go through
\* a buffer that nobody else has, and those that nobody has hold none.
KeptApart ==
  /\ \A n, m \in Names : route[n] # Nothing /\ route[n] = route[m] => n = m
  /\ \A r, q \in Relays : lent[r] # Nothing /\ lent[r] = lent[q] => r = q
  /\ \A b \in soiled : b # Nothing /\ \E r \in Relays : lent[r] = b

=============================================================================
