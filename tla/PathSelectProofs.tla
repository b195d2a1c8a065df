-------------------------- MODULE PathSelectProofs --------------------------
(***************************************************************************)
(* What PathSelect guarantees for every ladder, any number of sessions and *)
(* any number of paths.  The inductive invariant is Inv; each part of it   *)
(* says something about the call in progress that the actions rely on.     *)
(***************************************************************************)
EXTENDS PathSelect, TLAPS

\* The rung a call is at exists, or it is the one past the end.
RungOK ==
  call # NoCall =>
    /\ call.rung \in 1..(Len(Order) + 1)
    /\ call.stage = "open" => call.rung <= Len(Order)

\* While the health probe runs, the session is one that may carry data; while
\* the ladder is climbed, it is probing.
StageMatchesState ==
  call # NoCall =>
    state[call.sess] \in IF call.stage = "health" THEN {"path_selected", "degraded"}
                                                 ELSE {"probing"}

\* The history of a call is bounded by the present.
UsableOK ==
  /\ call.usable \subseteq up
  /\ call.expired => call.usable = {}

\* A failover in progress had reason to start.
FailoverHasCause ==
  call # NoCall /\ call.op = "tick" /\ call.stage # "health" =>
    /\ activePath[call.sess] \notin call.usable
    /\ ~cooling[call.sess]

\* The rungs behind the one a call is at could not have served it.
PassedAreUnusable ==
  call # NoCall => \A i \in 1..(call.rung - 1) : i <= Len(Order) => Order[i] \notin Candidates

Inv ==
  /\ TypeOK
  /\ SelectedIsBound
  /\ NoLeakedHandle
  /\ OneLivePerPath
  /\ RungOK
  /\ StageMatchesState
  /\ UsableOK
  /\ FailoverHasCause
  /\ PassedAreUnusable

-----------------------------------------------------------------------------
\* A call in progress is told from none by its op.
LEMMA CallFields ==
  ASSUME TypeOK, call # NoCall
  PROVE  /\ call \in Calls
         /\ call.op \in {"ensure", "tick"} /\ call.sess \in Sessions
         /\ call.stage \in {"health", "probe", "open"} /\ call.rung \in Nat
         /\ call.token \in BOOLEAN /\ call.expired \in BOOLEAN
         /\ call.usable \in SUBSET Paths
BY DEF TypeOK, Calls

\* The fields of the record that stands for an idle selector.
LEMMA NoCallFields ==
  /\ NoCall.op = "none" /\ NoCall.sess = NoSession /\ NoCall.stage = "none"
  /\ NoCall.expired = FALSE /\ NoCall.usable = {}
BY DEF NoCall

\* Nothing is bound and no call runs at the start.
LEMMA InitInv == Init => Inv
<1> SUFFICES ASSUME Init PROVE Inv
  OBVIOUS
<1> USE LadderAssumption
<1>1. TypeOK
  BY DEF Init, TypeOK, States
<1>2. SelectedIsBound
  BY DEF Init, SelectedIsBound, NoHandle
<1>3. NoLeakedHandle /\ OneLivePerPath
  BY DEF Init, NoLeakedHandle, OneLivePerPath
<1>4. RungOK /\ StageMatchesState /\ FailoverHasCause /\ PassedAreUnusable
  BY DEF Init, RungOK, StageMatchesState, FailoverHasCause, PassedAreUnusable
<1>5. UsableOK
  BY NoCallFields DEF Init, UsableOK
<1> QED
  BY <1>1, <1>2, <1>3, <1>4, <1>5 DEF Inv

\* A path that goes down or comes up between two steps of a call leaves the
\* invariant alone: it only takes the path out of the call's history.
LEMMA NetworkChangeInv ==
  ASSUME Inv, NEW p \in Registered, NetworkChange(p)
  PROVE  Inv'
<1> USE LadderAssumption DEF NetworkChange, sessVars
<1>1. CASE call = NoCall
  <2>1. call' = NoCall
    BY <1>1 DEF NoCall
  <2> QED
    BY <1>1, <2>1, NoCallFields
       DEF Inv, TypeOK, SelectedIsBound, NoLeakedHandle, OneLivePerPath, RungOK,
           StageMatchesState, UsableOK, FailoverHasCause, PassedAreUnusable
<1>2. CASE call # NoCall
  <2>1. /\ call' \in Calls /\ call' # NoCall /\ call'.usable = call.usable \ {p}
        /\ call'.op = call.op /\ call'.sess = call.sess /\ call'.stage = call.stage
        /\ call'.rung = call.rung /\ call'.token = call.token /\ call'.expired = call.expired
    BY <1>2, CallFields, NoCallFields DEF Inv, Calls
  <2>2. TypeOK'
    BY <2>1 DEF Inv, TypeOK
  <2>3. SelectedIsBound' /\ NoLeakedHandle' /\ OneLivePerPath'
    BY DEF Inv, SelectedIsBound, NoLeakedHandle, OneLivePerPath
  <2>4. RungOK' /\ StageMatchesState' /\ UsableOK' /\ FailoverHasCause'
    BY <1>2, <2>1 DEF Inv, RungOK, StageMatchesState, UsableOK, FailoverHasCause
  <2>5. PassedAreUnusable'
    BY <1>2, <2>1 DEF Inv, PassedAreUnusable, Candidates, Skipped
  <2> QED
    BY <2>2, <2>3, <2>4, <2>5 DEF Inv
<1> QED
  BY <1>1, <1>2

\* The cooldown may run out while a failover that began after it is climbing.
LEMMA CooldownPassesInv ==
  ASSUME Inv, NEW s \in Sessions, CooldownPasses(s)
  PROVE  Inv'
<1> USE LadderAssumption DEF CooldownPasses, Inv
<1>1. TypeOK'
  BY DEF TypeOK
<1>2. SelectedIsBound' /\ NoLeakedHandle' /\ OneLivePerPath'
  BY DEF SelectedIsBound, NoLeakedHandle, OneLivePerPath
<1>3. RungOK' /\ StageMatchesState' /\ UsableOK'
  BY DEF RungOK, StageMatchesState, UsableOK
<1>4. FailoverHasCause'
  BY CallFields DEF FailoverHasCause, TypeOK
<1>5. PassedAreUnusable'
  BY DEF PassedAreUnusable, Candidates, Skipped
<1> QED
  BY <1>1, <1>2, <1>3, <1>4, <1>5

\* A call whose deadline passes has no usable rung any more.
LEMMA DeadlineExpiresInv ==
  ASSUME Inv, DeadlineExpires
  PROVE  Inv'
<1> USE LadderAssumption DEF DeadlineExpires, sessVars
<1>1. /\ call' \in Calls /\ call' # NoCall /\ call'.usable = {} /\ call'.expired
      /\ call'.op = call.op /\ call'.sess = call.sess /\ call'.stage = call.stage
      /\ call'.rung = call.rung
  BY CallFields, NoCallFields DEF Inv, Calls
<1>2. TypeOK'
  BY <1>1 DEF Inv, TypeOK
<1>3. SelectedIsBound' /\ NoLeakedHandle' /\ OneLivePerPath'
  BY DEF Inv, SelectedIsBound, NoLeakedHandle, OneLivePerPath
<1>4. RungOK' /\ StageMatchesState' /\ UsableOK' /\ FailoverHasCause'
  BY <1>1 DEF Inv, RungOK, StageMatchesState, UsableOK, FailoverHasCause
<1>5. PassedAreUnusable'
  BY <1>1 DEF PassedAreUnusable, Candidates
<1> QED
  BY <1>2, <1>3, <1>4, <1>5 DEF Inv

\* The owner's transitions and its cleanup leave the session of the call in
\* progress alone.
LEMMA CallerTransitionInv ==
  ASSUME Inv, NEW s \in Sessions, NEW next \in States, CallerTransition(s, next)
  PROVE  Inv'
<1> USE LadderAssumption DEF CallerTransition, Inv
<1>1. TypeOK'
  BY DEF TypeOK
<1>2. SelectedIsBound'
  BY DEF SelectedIsBound, TypeOK, Allowed, States
<1>3. NoLeakedHandle' /\ OneLivePerPath'
  BY DEF NoLeakedHandle, OneLivePerPath
<1>4. RungOK' /\ StageMatchesState' /\ UsableOK' /\ FailoverHasCause'
  BY CallFields DEF RungOK, StageMatchesState, UsableOK, FailoverHasCause, TypeOK
<1>5. PassedAreUnusable'
  BY DEF PassedAreUnusable, Candidates, Skipped
<1> QED
  BY <1>1, <1>2, <1>3, <1>4, <1>5

\* Clearing a session that is down closes the one connection it holds.
LEMMA ClearActiveInv ==
  ASSUME Inv, NEW s \in Sessions, ClearActive(s)
  PROVE  Inv'
<1> USE LadderAssumption DEF ClearActive, Inv
<1>1. TypeOK'
  BY DEF TypeOK
<1>2. SelectedIsBound'
  BY DEF SelectedIsBound, TypeOK, NoHandle
<1>3. NoLeakedHandle' /\ OneLivePerPath'
  BY DEF NoLeakedHandle, OneLivePerPath, TypeOK
<1>4. RungOK' /\ StageMatchesState' /\ UsableOK' /\ FailoverHasCause'
  BY CallFields DEF RungOK, StageMatchesState, UsableOK, FailoverHasCause, TypeOK
<1>5. PassedAreUnusable'
  BY CallFields DEF PassedAreUnusable, Candidates, Skipped, TypeOK
<1> QED
  BY <1>1, <1>2, <1>3, <1>4, <1>5

\* Ensure starts at the first rung with the session probing.
LEMMA EnsureBeginInv ==
  ASSUME Inv, NEW s \in Sessions, NEW token \in BOOLEAN, EnsureBegin(s, token)
  PROVE  Inv'
<1> USE LadderAssumption DEF EnsureBegin, Inv
<1>1. /\ call' \in Calls /\ call' # NoCall /\ call'.usable = up /\ ~call'.expired
      /\ call'.op = "ensure" /\ call'.stage = "probe" /\ call'.rung = 1
  BY DEF Calls, NoCall, TypeOK
<1>2. state' = [state EXCEPT ![s] = "probing"]
  OBVIOUS
<1>3. TypeOK'
  BY <1>1, <1>2 DEF TypeOK, States
<1>4. SelectedIsBound'
  BY <1>2 DEF SelectedIsBound, TypeOK
<1>5. NoLeakedHandle' /\ OneLivePerPath'
  BY DEF NoLeakedHandle, OneLivePerPath
<1>6. RungOK' /\ StageMatchesState' /\ UsableOK' /\ FailoverHasCause' /\ PassedAreUnusable'
  BY <1>1, <1>2 DEF RungOK, StageMatchesState, UsableOK, FailoverHasCause, PassedAreUnusable, TypeOK
<1> QED
  BY <1>3, <1>4, <1>5, <1>6

\* A health tick starts on a session that has a path.
LEMMA TickBeginInv ==
  ASSUME Inv, NEW s \in Sessions, TickBegin(s)
  PROVE  Inv'
<1> USE LadderAssumption DEF TickBegin, Inv, sessVars
<1>1. /\ call' \in Calls /\ call' # NoCall /\ call'.usable = up /\ ~call'.expired
      /\ call'.sess = s /\ call'.stage = "health" /\ call'.rung = 1
  BY DEF Calls, NoCall, TypeOK, FailoverToken
<1>2. TypeOK'
  BY <1>1 DEF TypeOK
<1>3. SelectedIsBound' /\ NoLeakedHandle' /\ OneLivePerPath'
  BY DEF SelectedIsBound, NoLeakedHandle, OneLivePerPath
<1>4. RungOK' /\ StageMatchesState' /\ UsableOK' /\ FailoverHasCause' /\ PassedAreUnusable'
  BY <1>1 DEF RungOK, StageMatchesState, UsableOK, FailoverHasCause, PassedAreUnusable
<1> QED
  BY <1>2, <1>3, <1>4

\* When a call returns nothing is left to say about it.
LEMMA ReturnInv ==
  ASSUME call' = NoCall
  PROVE  RungOK' /\ StageMatchesState' /\ UsableOK' /\ FailoverHasCause' /\ PassedAreUnusable'
BY NoCallFields
   DEF RungOK, StageMatchesState, UsableOK, FailoverHasCause, PassedAreUnusable

\* A health probe that is answered ends the tick and keeps the connection.
LEMMA HealthOKInv ==
  ASSUME Inv, HealthOK
  PROVE  Inv'
<1> USE LadderAssumption DEF HealthOK, Inv
<1>1. call # NoCall /\ call.sess \in Sessions
  BY CallFields, NoCallFields
<1>2. state[call.sess] \in {"path_selected", "degraded"}
  BY <1>1 DEF StageMatchesState
<1>3. state' = [state EXCEPT ![call.sess] = "path_selected"]
  BY <1>1, <1>2 DEF Transition, Allowed, States, TypeOK
<1>4. TypeOK'
  BY <1>1, <1>3 DEF TypeOK, States
<1>5. SelectedIsBound'
  BY <1>1, <1>2, <1>3 DEF SelectedIsBound, TypeOK
<1>6. NoLeakedHandle' /\ OneLivePerPath'
  BY DEF NoLeakedHandle, OneLivePerPath
<1> QED
  BY <1>4, <1>5, <1>6, ReturnInv

\* A health probe that fails in the cooldown only degrades the session.
LEMMA HealthFailsInCooldownInv ==
  ASSUME Inv, HealthFailsInCooldown
  PROVE  Inv'
<1> USE LadderAssumption DEF HealthFailsInCooldown, Inv
<1>1. call # NoCall /\ call.sess \in Sessions
  BY CallFields, NoCallFields
<1>2. state[call.sess] \in {"path_selected", "degraded"}
  BY <1>1 DEF StageMatchesState
<1>3. state' = [state EXCEPT ![call.sess] = "degraded"]
  BY <1>1, <1>2 DEF Transition, Allowed, States, TypeOK
<1>4. TypeOK'
  BY <1>1, <1>3 DEF TypeOK, States
<1>5. SelectedIsBound'
  BY <1>1, <1>2, <1>3 DEF SelectedIsBound, TypeOK
<1>6. NoLeakedHandle' /\ OneLivePerPath'
  BY DEF NoLeakedHandle, OneLivePerPath
<1> QED
  BY <1>4, <1>5, <1>6, ReturnInv

\* The fields of the call when only its stage and its rung change.
LEMMA NextRungFields ==
  ASSUME TypeOK, call # NoCall, NextRung
  PROVE  /\ call' \in Calls /\ call' # NoCall
         /\ call'.op = call.op /\ call'.sess = call.sess /\ call'.stage = "probe"
         /\ call'.rung = call.rung + 1 /\ call'.token = call.token
         /\ call'.expired = call.expired /\ call'.usable = call.usable
<1> DEFINE probing == [call EXCEPT !.stage = "probe"]
<1>1. /\ probing \in Calls /\ probing.op = call.op /\ probing.sess = call.sess
      /\ probing.stage = "probe" /\ probing.rung = call.rung /\ probing.token = call.token
      /\ probing.expired = call.expired /\ probing.usable = call.usable
  BY CallFields DEF Calls
<1>2. call' = [probing EXCEPT !.rung = call.rung + 1]
  BY CallFields DEF NextRung, Calls
<1> HIDE DEF probing
<1>3. /\ call' \in Calls
      /\ call'.op = probing.op /\ call'.sess = probing.sess /\ call'.stage = probing.stage
      /\ call'.rung = call.rung + 1 /\ call'.token = probing.token
      /\ call'.expired = probing.expired /\ call'.usable = probing.usable
  BY <1>1, <1>2, CallFields DEF Calls
<1>4. call' # NoCall
  BY <1>1, <1>3, CallFields, NoCallFields
<1> QED
  BY <1>1, <1>3, <1>4

\* A health probe that fails outside the cooldown starts the ladder, and the
\* active path was down at some moment of the tick.
LEMMA HealthFailsReladderInv ==
  ASSUME Inv, HealthFailsReladder
  PROVE  Inv'
<1> USE LadderAssumption DEF HealthFailsReladder, Inv
<1>1. call # NoCall /\ call.sess \in Sessions
  BY CallFields, NoCallFields
<1>2. state[call.sess] \in {"path_selected", "degraded"}
  BY <1>1 DEF StageMatchesState
<1>3. state' = [state EXCEPT ![call.sess] = "probing"]
  BY <1>1, <1>2 DEF Transition, Allowed, States, TypeOK
<1>4. /\ call' \in Calls /\ call' # NoCall /\ call'.op = call.op /\ call'.sess = call.sess
      /\ call'.stage = "probe" /\ call'.rung = call.rung /\ call'.token = call.token
      /\ call'.expired = call.expired /\ call'.usable = call.usable
  BY <1>1, CallFields, NoCallFields DEF Calls
<1>5. activePath[call.sess] \notin call.usable
  BY DEF ActiveAnswers, UsableOK
<1>6. TypeOK'
  BY <1>1, <1>3, <1>4 DEF TypeOK, States
<1>7. SelectedIsBound'
  BY <1>1, <1>3 DEF SelectedIsBound, TypeOK
<1>8. NoLeakedHandle' /\ OneLivePerPath'
  BY DEF NoLeakedHandle, OneLivePerPath
<1>9. RungOK' /\ StageMatchesState' /\ UsableOK' /\ FailoverHasCause'
  BY <1>1, <1>3, <1>4, <1>5
     DEF RungOK, StageMatchesState, UsableOK, FailoverHasCause, TypeOK
<1>10. PassedAreUnusable'
  BY <1>1, <1>4 DEF PassedAreUnusable, Candidates, Skipped
<1> QED
  BY <1>6, <1>7, <1>8, <1>9, <1>10

\* A rung that is passed joins those that could not have served the call.
LEMMA PassRungInv ==
  ASSUME Inv, call # NoCall, call.stage \in {"probe", "open"}, call.rung <= Len(Order),
         NextRung, UNCHANGED <<sessVars, adapter, live, up>>,
         Rung \notin Candidates
  PROVE  Inv'
<1> USE LadderAssumption DEF Inv, sessVars
<1> USE NextRungFields
<1>1. TypeOK'
  BY DEF TypeOK
<1>2. SelectedIsBound' /\ NoLeakedHandle' /\ OneLivePerPath'
  BY DEF SelectedIsBound, NoLeakedHandle, OneLivePerPath
<1>3. RungOK' /\ StageMatchesState' /\ UsableOK' /\ FailoverHasCause'
  BY CallFields DEF RungOK, StageMatchesState, UsableOK, FailoverHasCause
<1>4. Candidates' = Candidates
  BY DEF Candidates, Skipped
<1>5. \A i \in 1..call.rung : i <= Len(Order) => Order[i] \notin Candidates
  BY CallFields DEF PassedAreUnusable, Rung, RungOK
<1>6. PassedAreUnusable'
  BY <1>4, <1>5, CallFields DEF PassedAreUnusable
<1> QED
  BY <1>1, <1>2, <1>3, <1>6

\* Probing one rung opens it or passes it.
LEMMA ProbeRungInv ==
  ASSUME Inv, ProbeRung
  PROVE  Inv'
<1> USE LadderAssumption DEF ProbeRung, Inv, sessVars
<1>1. call # NoCall
  BY NoCallFields
<1>2. CASE ~Skipped(Rung) /\ Rung \in up /\ ~call.expired
  <2>1. /\ call' \in Calls /\ call' # NoCall /\ call'.op = call.op /\ call'.sess = call.sess
        /\ call'.stage = "open" /\ call'.rung = call.rung /\ call'.token = call.token
        /\ call'.expired = call.expired /\ call'.usable = call.usable
    BY <1>1, <1>2, CallFields, NoCallFields DEF Calls
  <2>2. TypeOK'
    BY <2>1 DEF TypeOK
  <2>3. SelectedIsBound' /\ NoLeakedHandle' /\ OneLivePerPath'
    BY DEF SelectedIsBound, NoLeakedHandle, OneLivePerPath
  <2>4. RungOK' /\ StageMatchesState' /\ UsableOK' /\ FailoverHasCause'
    BY <1>1, <2>1 DEF RungOK, StageMatchesState, UsableOK, FailoverHasCause
  <2>5. PassedAreUnusable'
    BY <1>1, <2>1 DEF PassedAreUnusable, Candidates, Skipped
  <2> QED
    BY <2>2, <2>3, <2>4, <2>5
<1>3. CASE ~(~Skipped(Rung) /\ Rung \in up /\ ~call.expired)
  <2>1. Rung \notin Candidates
    BY <1>3 DEF Candidates, UsableOK
  <2> QED
    BY <1>1, <1>3, <2>1, PassRungInv
<1> QED
  BY <1>2, <1>3

\* A rung that cannot be opened is passed.
LEMMA OpenFailsInv ==
  ASSUME Inv, OpenFails
  PROVE  Inv'
<1> USE DEF OpenFails, Inv
<1>1. call # NoCall
  BY NoCallFields
<1>2. Rung \notin Candidates
  BY DEF Candidates, CanOpen, UsableOK
<1>3. call.rung <= Len(Order)
  BY <1>1 DEF RungOK
<1> QED
  BY <1>1, <1>2, <1>3, PassRungInv

\* A ladder without rungs left fails the session and keeps its connection.
LEMMA LadderExhaustedInv ==
  ASSUME Inv, LadderExhausted
  PROVE  Inv'
<1> USE LadderAssumption DEF LadderExhausted, Inv
<1>1. call # NoCall /\ call.sess \in Sessions
  BY CallFields, NoCallFields
<1>2. PICK st \in {state[call.sess], "failed"} : state' = [state EXCEPT ![call.sess] = st]
  BY <1>1 DEF Transition
<1>3. TypeOK'
  BY <1>1, <1>2 DEF TypeOK, States
<1>4. SelectedIsBound'
  BY <1>1, <1>2 DEF SelectedIsBound, TypeOK
<1>5. NoLeakedHandle' /\ OneLivePerPath'
  BY DEF NoLeakedHandle, OneLivePerPath
<1> QED
  BY <1>3, <1>4, <1>5, ReturnInv

\* The rung an open call is at is a path of the ladder.
LEMMA OpenRungIsPath ==
  ASSUME Inv, call # NoCall, call.stage = "open"
  PROVE  Rung \in Paths
BY LadderAssumption, CallFields DEF Inv, RungOK, Rung

\* Opening a rung closes what the adapter and the session held before: the new
\* connection is the only one of its path and has a holder.
LEMMA OpenSucceedsInv ==
  ASSUME Inv, NEW h \in Handles, OpenSucceeds(h)
  PROVE  Inv'
<1> USE LadderAssumption DEF OpenSucceeds, InstallClosing, Inv
<1>1. call # NoCall /\ call.sess \in Sessions
  BY CallFields, NoCallFields
<1>2. Rung \in Paths /\ h.path = Rung
  BY <1>1, OpenRungIsPath
<1>3. h # NoHandle
  BY <1>2 DEF NoHandle
<1>4. PICK st \in {state[call.sess], "path_selected"} :
        state' = [state EXCEPT ![call.sess] = st]
  BY <1>1 DEF Transition
<1>5. TypeOK'
  BY <1>1, <1>2, <1>4 DEF TypeOK, States
<1>6. SelectedIsBound'
  BY <1>1, <1>2, <1>3, <1>4 DEF SelectedIsBound, TypeOK
<1>7. NoLeakedHandle'
  BY <1>1 DEF NoLeakedHandle, TypeOK
<1>8. OneLivePerPath'
  BY <1>2 DEF OneLivePerPath, TypeOK, Handles
<1> QED
  BY <1>5, <1>6, <1>7, <1>8, ReturnInv

\* A step that changes nothing preserves the invariant.
LEMMA StutterInv ==
  ASSUME Inv, UNCHANGED vars
  PROVE  Inv'
BY DEF vars, Inv, TypeOK, SelectedIsBound, NoLeakedHandle, OneLivePerPath, RungOK,
       StageMatchesState, UsableOK, FailoverHasCause, PassedAreUnusable, Candidates, Skipped

\* Every step of the selector, the owner and the network preserves the invariant.
LEMMA StepInv == Inv /\ [Next]_vars => Inv'
<1> SUFFICES ASSUME Inv, [Next]_vars PROVE Inv'
  OBVIOUS
<1>1. CASE Advance
  BY <1>1, HealthOKInv, HealthFailsInCooldownInv, HealthFailsReladderInv, ProbeRungInv,
     OpenFailsInv, LadderExhaustedInv, OpenSucceedsInv DEF Advance
<1>2. CASE DeadlineExpires
  BY <1>2, DeadlineExpiresInv
<1>3. CASE \E p \in Registered : NetworkChange(p)
  BY <1>3, NetworkChangeInv
<1>4. ASSUME NEW s \in Sessions,
             \/ EnsureBegin(s, TRUE) \/ EnsureBegin(s, FALSE)
             \/ TickBegin(s) \/ CooldownPasses(s) \/ ClearActive(s)
             \/ \E next \in States : CallerTransition(s, next)
      PROVE  Inv'
  BY <1>4, EnsureBeginInv, TickBeginInv, CooldownPassesInv, ClearActiveInv, CallerTransitionInv
<1>5. CASE UNCHANGED vars
  BY <1>5, StutterInv
<1> QED
  BY <1>1, <1>2, <1>3, <1>4, <1>5 DEF Next

-----------------------------------------------------------------------------
\* Inv holds in every reachable state of every ladder.
THEOREM Invariance == Spec => []Inv
<1>1. Init => Inv
  BY InitInv
<1>2. Inv /\ [Next]_vars => Inv'
  BY StepInv
<1> QED
  BY <1>1, <1>2, PTL DEF Spec

\* Every variable keeps its type.
THEOREM TypeCorrect == Spec => []TypeOK
<1>1. Inv => TypeOK
  BY DEF Inv
<1> QED
  BY <1>1, Invariance, PTL

\* A session in a state that may carry data has a handle of the path it
\* names, although every transition error is ignored.
THEOREM SelectedSessionsAreBound == Spec => []SelectedIsBound
<1>1. Inv => SelectedIsBound
  BY DEF Inv
<1> QED
  BY <1>1, Invariance, PTL

\* However many sessions share the selector, and however a call ends, every
\* open connection is one that some session holds and its adapter remembers.
THEOREM NothingLeaks == Spec => []NoLeakedHandle /\ []OneLivePerPath
<1>1. Inv => NoLeakedHandle /\ OneLivePerPath
  BY DEF Inv
<1> QED
  BY <1>1, Invariance, PTL

-----------------------------------------------------------------------------
(* What a call may do, step by step. *)

\* The steps that return: only an exhausted ladder leaves a session failed,
\* only an open changes a handle, and both come from a call in progress.
LEMMA ReturnSteps ==
  ASSUME Inv, Next, call # NoCall, call' = NoCall
  PROVE  \/ (HealthOK \/ HealthFailsInCooldown) /\ UNCHANGED active
            /\ state'[call.sess] \in {"path_selected", "degraded"}
         \/ LadderExhausted
         \/ \E h \in Handles : OpenSucceeds(h)
<1>1. /\ call \in Calls /\ call.sess \in Sessions
  BY CallFields DEF Inv
<1>2. CASE HealthOK \/ HealthFailsInCooldown
  <2>1. state[call.sess] \in {"path_selected", "degraded"}
    BY <1>2 DEF Inv, StageMatchesState, HealthOK, HealthFailsInCooldown
  <2> QED
    BY <1>1, <1>2, <2>1
       DEF HealthOK, HealthFailsInCooldown, Transition, Allowed, States, Inv, TypeOK
<1>3. CASE HealthFailsReladder
  BY <1>1, <1>3, NoCallFields DEF HealthFailsReladder, Calls
<1>4. CASE ProbeRung
  <2>1. CASE NextRung
    BY <2>1, NextRungFields DEF Inv
  <2>2. CASE call' = [call EXCEPT !.stage = "open"]
    BY <1>1, <2>2, NoCallFields DEF Calls
  <2> QED
    BY <1>4, <2>1, <2>2 DEF ProbeRung
<1>5. CASE OpenFails
  BY <1>5, NextRungFields DEF Inv, OpenFails
<1>6. CASE DeadlineExpires
  BY <1>1, <1>6, NoCallFields DEF DeadlineExpires, Calls
<1>7. ASSUME NEW p \in Registered, NetworkChange(p) PROVE FALSE
  BY <1>1, <1>7, CallFields, NoCallFields DEF NetworkChange, Calls, Inv
<1>8. ASSUME NEW s \in Sessions,
             \/ EnsureBegin(s, TRUE) \/ EnsureBegin(s, FALSE)
             \/ TickBegin(s) \/ CooldownPasses(s) \/ ClearActive(s)
             \/ \E next \in States : CallerTransition(s, next)
      PROVE  FALSE
  BY <1>8 DEF EnsureBegin, TickBegin, CooldownPasses, ClearActive, CallerTransition
<1> QED
  BY <1>2, <1>3, <1>4, <1>5, <1>6, <1>7, <1>8 DEF Next, Advance

\* Past the end of the ladder, or at the rung that is opened, every rung
\* behind is one that could not have served the call.
LEMMA PassedFacts ==
  ASSUME Inv, call # NoCall
  PROVE  /\ \A i \in 1..(call.rung - 1) : i <= Len(Order) => Order[i] \notin Candidates
         /\ call.rung \in 1..(Len(Order) + 1)
BY DEF Inv, PassedAreUnusable, RungOK

\* Neither Ensure nor HealthTick gives up while a rung it could open was up
\* from the beginning of the call.
THEOREM LadderExhaustiveness == Spec => LadderIsExhaustive
<1> DEFINE Step == Returns("failed") => \A i \in 1..Len(Order) : Order[i] \notin Candidates
<1>1. Inv /\ [Next]_vars => [Step]_vars
  <2> SUFFICES ASSUME Inv, Next, Returns("failed"), NEW i \in 1..Len(Order)
               PROVE  Order[i] \notin Candidates
    OBVIOUS
  <2>1. LadderExhausted
    <3>1. ASSUME NEW h \in Handles, OpenSucceeds(h) PROVE FALSE
      <4>1. call.sess \in Sessions /\ call.stage = "open"
        BY <3>1, CallFields DEF Inv, OpenSucceeds, InstallClosing, Returns
      <4>2. state[call.sess] = "probing"
        BY <4>1 DEF Inv, StageMatchesState, Returns
      <4> QED
        BY <3>1, <4>1, <4>2 DEF Inv, OpenSucceeds, InstallClosing, Returns, Transition,
             Allowed, States, TypeOK
    <3> QED
      BY <3>1, ReturnSteps DEF Returns
  <2>2. call.rung > Len(Order)
    BY <2>1 DEF LadderExhausted
  <2> QED
    BY <2>2, PassedFacts, LadderAssumption DEF Returns
<1> QED
  BY <1>1, Invariance, PTL DEF Spec, LadderIsExhaustive

\* A session is moved to a rung only past rungs that were not up throughout.
THEOREM LadderOrder == Spec => LadderRespectsOrder
<1> DEFINE Step == active' # active /\ call # NoCall /\ call' = NoCall =>
                     \A i \in 1..(call.rung - 1) : Order[i] \notin Candidates
<1>1. Inv /\ [Next]_vars => [Step]_vars
  <2> SUFFICES ASSUME Inv, Next, active' # active, call # NoCall, call' = NoCall,
                      NEW i \in 1..(call.rung - 1)
               PROVE  Order[i] \notin Candidates
    OBVIOUS
  <2> QED
    BY PassedFacts, CallFields, LadderAssumption DEF Inv
<1> QED
  BY <1>1, Invariance, PTL DEF Spec, LadderRespectsOrder

\* A health tick takes the connection away only from a session whose path
\* failed during the tick and whose cooldown is over.
THEOREM FailoverJustified == Spec => FailoverIsJustified
<1> DEFINE Step == \A s \in Sessions :
                     call.op = "tick" /\ call.sess = s /\ active'[s] # active[s] =>
                       activePath[s] \notin call.usable /\ ~cooling[s]
<1>1. Inv /\ [Next]_vars => [Step]_vars
  <2> SUFFICES ASSUME Inv, Next, NEW s \in Sessions, call.op = "tick", call.sess = s,
                      active'[s] # active[s]
               PROVE  activePath[s] \notin call.usable /\ ~cooling[s]
    OBVIOUS
  <2>1. call # NoCall
    BY NoCallFields
  <2>2. \E h \in Handles : OpenSucceeds(h)
    <3>1. ASSUME NEW t \in Sessions, ClearActive(t) PROVE FALSE
      BY <3>1 DEF ClearActive, Inv, TypeOK
    <3> QED
      BY <3>1 DEF Next, Advance, HealthOK, HealthFailsInCooldown, HealthFailsReladder,
        ProbeRung, OpenFails, LadderExhausted, DeadlineExpires, NetworkChange, EnsureBegin,
        TickBegin, CooldownPasses, CallerTransition, sessVars
  <2>3. call.stage = "open"
    BY <2>2 DEF OpenSucceeds, InstallClosing
  <2> QED
    BY <2>1, <2>3 DEF Inv, FailoverHasCause
<1> QED
  BY <1>1, Invariance, PTL DEF Spec, FailoverIsJustified

-----------------------------------------------------------------------------
\* A session that has the selector to itself never holds a closed connection.
\* (Two sessions that share one may: the adapter closes what it remembers.)
THEOREM SingleSessionKeepsItsConnection ==
  ASSUME \A s, t \in Sessions : s = t
  PROVE  Spec => []ActiveIsOpen
<1>1. Init => ActiveIsOpen
  BY DEF Init, ActiveIsOpen
<1>2. Inv /\ ActiveIsOpen /\ [Next]_vars => ActiveIsOpen'
  <2> SUFFICES ASSUME Inv, ActiveIsOpen, [Next]_vars PROVE ActiveIsOpen'
    OBVIOUS
  <2>1. ASSUME NEW h \in Handles, OpenSucceeds(h) PROVE ActiveIsOpen'
    <3>1. call.sess \in Sessions
      BY <2>1, CallFields, NoCallFields DEF Inv, OpenSucceeds, InstallClosing
    <3> QED
      BY <2>1, <3>1 DEF OpenSucceeds, InstallClosing, ActiveIsOpen, Inv, TypeOK
  <2>2. ASSUME NEW s \in Sessions, ClearActive(s) PROVE ActiveIsOpen'
    BY <2>2 DEF ClearActive, ActiveIsOpen, Inv, TypeOK
  <2>3. CASE UNCHANGED <<active, live>>
    BY <2>3 DEF ActiveIsOpen
  <2> QED
    BY <2>1, <2>2, <2>3 DEF Next, Advance, HealthOK, HealthFailsInCooldown,
      HealthFailsReladder, ProbeRung, OpenFails, LadderExhausted, DeadlineExpires,
      NetworkChange, EnsureBegin, TickBegin, CooldownPasses, CallerTransition, sessVars, vars
<1> QED
  BY <1>1, <1>2, Invariance, PTL DEF Spec

-----------------------------------------------------------------------------
(* The ladder implements the promise a session makes to its owner. *)

phase == [s \in Sessions |-> PhaseOf(state[s])]

\* A step that changes one session's state changes one session's phase.
LEMMA PhaseStep ==
  ASSUME NEW s \in Sessions, NEW st \in States, state \in [Sessions -> States],
         state' = [state EXCEPT ![s] = st]
  PROVE  phase' = [phase EXCEPT ![s] = PhaseOf(st)] /\ phase[s] = PhaseOf(state[s])
BY DEF phase

\* Every step of the ladder is a step the promise allows, or changes nothing the
\* session's owner can see.
LEMMA PromiseStep == Inv /\ [Next]_vars => [Promise!Next]_(Promise!vars)
<1> USE LadderAssumption
<1> SUFFICES ASSUME Inv, [Next]_vars PROVE Promise!Next \/ UNCHANGED Promise!vars
  OBVIOUS
<1> state \in [Sessions -> States]
  BY DEF Inv, TypeOK
<1>1. CASE UNCHANGED <<state, activePath>>
  BY <1>1 DEF Promise!vars
<1>2. ASSUME call # NoCall, NEW st \in States,
             state' = [state EXCEPT ![call.sess] = st], UNCHANGED activePath,
             \/ state[call.sess] \in {"path_selected", "degraded"}
                  /\ st \in {"path_selected", "degraded", "probing"}
             \/ state[call.sess] = "probing" /\ st = "failed"
      PROVE  Promise!Next \/ UNCHANGED Promise!vars
  <2>1. call.sess \in Sessions
    BY <1>2, CallFields DEF Inv
  <2>2. CASE st = state[call.sess]
    BY <1>2, <2>1, <2>2 DEF Promise!vars
  <2>3. CASE st # state[call.sess]
    <3>1. phase' = [phase EXCEPT ![call.sess] = PhaseOf(st)]
            /\ phase[call.sess] = PhaseOf(state[call.sess])
      BY <1>2, <2>1, PhaseStep
    <3>2. \/ PhaseOf(st) = "impaired" /\ PhaseOf(state[call.sess]) = "serving"
          \/ PhaseOf(st) = "serving" /\ PhaseOf(state[call.sess]) = "impaired"
          \/ PhaseOf(st) = "searching" /\ PhaseOf(state[call.sess]) \in {"serving", "impaired"}
          \/ PhaseOf(st) = "down" /\ PhaseOf(state[call.sess]) = "searching"
      BY <1>2, <2>3 DEF PhaseOf
    <3> QED
      BY <1>2, <2>1, <3>1, <3>2
         DEF phase, Promise!Next, Promise!Impair, Promise!Recover, Promise!Search,
             Promise!GiveUp, Promise!Become
  <2> QED
    BY <2>2, <2>3
<1>3. CASE HealthOK \/ HealthFailsInCooldown \/ HealthFailsReladder
  <2>1. /\ call # NoCall /\ call.sess \in Sessions
        /\ state[call.sess] \in {"path_selected", "degraded"}
    BY <1>3, CallFields, NoCallFields
       DEF HealthOK, HealthFailsInCooldown, HealthFailsReladder, Inv, StageMatchesState
  <2>2. PICK st \in {"path_selected", "degraded", "probing"} :
          state' = [state EXCEPT ![call.sess] = st]
    BY <1>3, <2>1 DEF HealthOK, HealthFailsInCooldown, HealthFailsReladder, Transition,
       Allowed, States
  <2> QED
    BY <1>2, <1>3, <2>1, <2>2 DEF HealthOK, HealthFailsInCooldown, HealthFailsReladder, States
<1>4. CASE LadderExhausted
  <2>1. call # NoCall /\ call.sess \in Sessions /\ state[call.sess] = "probing"
    BY <1>4, CallFields, NoCallFields DEF LadderExhausted, Inv, StageMatchesState
  <2>2. state' = [state EXCEPT ![call.sess] = "failed"]
    BY <1>4, <2>1 DEF LadderExhausted, Transition, Allowed, States
  <2> QED
    BY <1>2, <1>4, <2>1, <2>2 DEF LadderExhausted, States
<1>5. ASSUME NEW h \in Handles, OpenSucceeds(h) PROVE Promise!Next
  <2>1. /\ call # NoCall /\ call.sess \in Sessions /\ state[call.sess] = "probing"
        /\ Rung \in Paths
    BY <1>5, CallFields, NoCallFields, OpenRungIsPath
       DEF OpenSucceeds, InstallClosing, Inv, StageMatchesState
  <2>2. state' = [state EXCEPT ![call.sess] = "path_selected"]
    BY <1>5, <2>1 DEF OpenSucceeds, InstallClosing, Transition, Allowed, States
  <2>3. activePath' = [activePath EXCEPT ![call.sess] = Rung]
    BY <1>5 DEF OpenSucceeds, InstallClosing
  <2>4. Promise!Bind(call.sess, Rung)
    BY <2>1, <2>2, <2>3, PhaseStep DEF Promise!Bind, phase, PhaseOf, States
  <2> QED
    BY <2>1, <2>4 DEF Promise!Next
<1>6. ASSUME NEW s \in Sessions, NEW token \in BOOLEAN, EnsureBegin(s, token)
      PROVE  Promise!Next \/ UNCHANGED Promise!vars
  <2>1. state' = [state EXCEPT ![s] = "probing"] /\ UNCHANGED activePath
    BY <1>6 DEF EnsureBegin
  <2>2. CASE state[s] = "probing"
    BY <2>1, <2>2 DEF Promise!vars
  <2>3. CASE state[s] # "probing"
    <3>1. PhaseOf(state[s]) \in {"setup", "serving", "impaired", "down"}
      BY <1>6, <2>3 DEF EnsureBegin, EnsureEntry, Transition, Allowed, States, PhaseOf
    <3> QED
      BY <2>1, <3>1, PhaseStep
         DEF phase, PhaseOf, States, Promise!Next, Promise!Search, Promise!Become
  <2> QED
    BY <2>2, <2>3
<1>7. ASSUME NEW s \in Sessions, NEW next \in States, CallerTransition(s, next)
      PROVE  Promise!Next \/ UNCHANGED Promise!vars
  <2>1. state' = [state EXCEPT ![s] = next] /\ UNCHANGED activePath
    BY <1>7 DEF CallerTransition
  <2>2. phase' = [phase EXCEPT ![s] = PhaseOf(next)] /\ phase[s] = PhaseOf(state[s])
    BY <2>1, PhaseStep
  <2>3. CASE PhaseOf(next) = PhaseOf(state[s])
    BY <2>1, <2>2, <2>3 DEF phase, Promise!vars
  <2>4. CASE PhaseOf(next) # PhaseOf(state[s])
    <3>1. \/ PhaseOf(next) = "closed"
          \/ PhaseOf(next) = "down" /\ PhaseOf(state[s]) # "closed"
          \/ PhaseOf(next) = "setup" /\ PhaseOf(state[s]) = "down"
          \/ PhaseOf(next) = "migrating" /\ PhaseOf(state[s]) \in {"serving", "impaired"}
          \/ PhaseOf(next) \in {"serving", "impaired"} /\ PhaseOf(state[s]) = "migrating"
      BY <1>7, <2>4 DEF CallerTransition, Allowed, States, PhaseOf
    <3> QED
      BY <2>1, <2>2, <3>1
         DEF phase, Promise!Next, Promise!End, Promise!GiveUp, Promise!Restart,
             Promise!Migrate, Promise!Recover, Promise!Impair, Promise!Become
  <2> QED
    BY <2>3, <2>4
<1>8. ASSUME NEW s \in Sessions, ClearActive(s) PROVE Promise!Next
  <2>1. PhaseOf(state[s]) \in {"down", "closed"}
    BY <1>8 DEF ClearActive, PhaseOf
  <2> QED
    BY <1>8, <2>1 DEF ClearActive, Promise!Next, Promise!Release
<1> QED
  BY <1>1, <1>3, <1>4, <1>5, <1>6, <1>7, <1>8 DEF Next, Advance, ProbeRung, OpenFails,
    DeadlineExpires, NetworkChange, TickBegin, CooldownPasses, sessVars, vars

\* The carrier of a session changes only at the end of a search that
\* succeeded, or when a session that is down or closed is cleared.
THEOREM LadderKeepsPromise == Spec => KeepsPromise
<1>1. Init => Promise!Init
  BY DEF Init, Promise!Init, PhaseOf
<1> QED
  BY <1>1, PromiseStep, Invariance, PTL DEF Spec, KeepsPromise, Promise!Spec

=============================================================================
