--------------------------- MODULE SessionPromise ---------------------------
(***************************************************************************)
(* What a path-selection session promises the application that holds it    *)
(* (pkg/pathselect): a phase, and the path that carries its data.          *)
(* The ladder, its probes, the handles and the mutex are not visible here. *)
(***************************************************************************)
CONSTANTS Sessions, Paths, NoPath

VARIABLES
  phase,    \* phase[s]: what the session is doing for its owner
  carrier   \* carrier[s]: the path its data would take, or NoPath

vars == <<phase, carrier>>

Phases == {"setup", "searching", "serving", "impaired", "migrating",
           "down", "closed"}

\* Phases in which the application may send: a carrier has to be bound.
Bound == {"serving", "impaired", "migrating"}

\* Every session has a phase and at most one carrier.
TypeOK ==
  /\ phase \in [Sessions -> Phases]
  /\ carrier \in [Sessions -> Paths \cup {NoPath}]

Init ==
  /\ phase = [s \in Sessions |-> "setup"]
  /\ carrier = [s \in Sessions |-> NoPath]

Become(s, ph) ==
  /\ phase' = [phase EXCEPT ![s] = ph]
  /\ UNCHANGED carrier

\* A search keeps the carrier that is already bound, if there is one.
Search(s) == phase[s] \in {"setup", "serving", "impaired", "down"} /\ Become(s, "searching")

\* Only a search changes which path carries the session.
Bind(s, p) ==
  /\ phase[s] = "searching"
  /\ phase' = [phase EXCEPT ![s] = "serving"]
  /\ carrier' = [carrier EXCEPT ![s] = p]

Impair(s)  == phase[s] \in {"serving", "migrating"} /\ Become(s, "impaired")
Recover(s) == phase[s] \in {"impaired", "migrating"} /\ Become(s, "serving")
Migrate(s) == phase[s] \in {"serving", "impaired"} /\ Become(s, "migrating")
GiveUp(s)  == phase[s] # "closed" /\ Become(s, "down")
Restart(s) == phase[s] = "down" /\ Become(s, "setup")
End(s)     == Become(s, "closed")

Release(s) ==
  /\ phase[s] \in {"down", "closed"}
  /\ carrier' = [carrier EXCEPT ![s] = NoPath]
  /\ UNCHANGED phase

Next ==
  \E s \in Sessions :
    \/ Search(s) \/ Impair(s) \/ Recover(s) \/ Migrate(s)
    \/ GiveUp(s) \/ Restart(s) \/ End(s) \/ Release(s)
    \/ \E p \in Paths : Bind(s, p)

Spec == Init /\ [][Next]_vars

=============================================================================
