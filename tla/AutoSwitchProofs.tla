--------------------------- MODULE AutoSwitchProofs ---------------------------
(***************************************************************************)
(* The safety properties of AutoSwitch, proved for any number of users and *)
(* any number of callbacks that wait.                                      *)
(*                                                                         *)
(* The properties speak of a manager at rest.  Inv says what holds while   *)
(* somebody is at work: which stage of which call it is (StageOK), what    *)
(* the interface looks like then (LinkOK), that there is room for one more *)
(* callback (RoomOK), and which callback is the last (LastReport).         *)
(***************************************************************************)
EXTENDS AutoSwitch, TLAPS

Connecting == {"looking", "creating", "configuring", "raising", "undoing"}
TearingDown == {"lowering", "deleting"}

\* The owner of the mutex is in a call, at a stage of that call, and the call
\* is for the mode that is not current.
StageOK ==
  /\ stage = "none" <=> lock = Free
  /\ stage = "probing" => at[lock] = "check"
  /\ stage \in Connecting => at[lock] = "wireguard" /\ mode = "quic"
  /\ stage \in TearingDown => at[lock] \in {"quic", "stop"}
  /\ stage \in TearingDown /\ at[lock] = "quic" => mode = "wireguard"

\* A link that is nobody's remains is exactly as far as the work on it.
LinkOK ==
  /\ stray => link # "absent"
  /\ stage = "configuring" => link = "bare" /\ ~stray
  /\ stage = "raising" => link = "configured" /\ ~stray
  /\ stage = "undoing" => link # "absent" /\ ~stray
  /\ stage \in {"none", "probing", "looking", "creating", "lowering"} /\ ~stray =>
       link = IF connected THEN "up" ELSE "absent"
  /\ stage = "deleting" /\ ~stray /\ ~connected => link = "absent"

\* Whoever is at work may spawn one more callback.
RoomOK == Waiting <= MaxPending /\ (stage # "none" => Waiting < MaxPending)

\* A callback that overlapped with no other tells of the mode that is current.
LastReport ==
  ~overlapped => /\ Waiting = 0 => gauge = mode
                 /\ Waiting > 0 => Waiting = 1 /\ pending[mode] = 1

\* What the callbacks have told and will tell.
ReportsOK == RoomOK /\ SwitchesAreReported /\ LastReport

Inv == TypeOK /\ StageOK /\ ModeHasTunnel /\ LinkOK /\ ReportsOK

-----------------------------------------------------------------------------
(* Callbacks. *)

\* What the callbacks tell is not disturbed by a step that spawns and runs none
\* and keeps the mode, unless it begins some work.
LEMMA ReportsKept ==
  ASSUME ReportsOK, UNCHANGED <<reports, mode>>, stage' # "none" => stage # "none"
  PROVE  ReportsOK'
BY DEF ReportsOK, RoomOK, SwitchesAreReported, LastReport, Waiting, reports

\* The two counters are natural numbers.
LEMMA PendingTypes ==
  ASSUME TypeOK
  PROVE  /\ pending \in [Modes -> 0..MaxPending] /\ MaxPending \in Nat
         /\ pending["quic"] \in Nat /\ pending["wireguard"] \in Nat
         /\ \A m \in Modes : m = "quic" \/ m = "wireguard"
         /\ Waiting = pending["quic"] + pending["wireguard"]
BY FallbackAssumption DEF TypeOK, Modes, Waiting

\* A switch to the other mode spawns the one callback that tells of it.
LEMMA SwitchReports ==
  ASSUME TypeOK, ReportsOK, stage # "none", NEW m \in Modes, m # mode, Switched(m)
  PROVE  ReportsOK' /\ pending' \in [Modes -> 0..MaxPending] /\ mode' \in Modes
         /\ gauge' \in Modes /\ balance' \in Int /\ overlapped' \in BOOLEAN
<1>1. /\ Waiting < MaxPending /\ Waiting >= 0 /\ mode \in Modes /\ balance \in Int /\ gauge \in Modes
  BY PendingTypes DEF ReportsOK, RoomOK, TypeOK
<1>2. /\ mode' = m /\ stage' = "none" /\ gauge' = gauge /\ balance' = balance
      /\ overlapped' = (Waiting > 0)
      /\ pending' = [pending EXCEPT ![m] = @ + 1]
  BY DEF Switched, Announce, Return
<1>3. pending' \in [Modes -> 0..MaxPending] /\ Waiting' = Waiting + 1
  BY <1>1, <1>2, PendingTypes, SMTT(30) DEF Waiting, Modes
<1>4. RoomOK'
  BY <1>1, <1>2, <1>3, PendingTypes DEF RoomOK
<1>5. LastReport'
  <2>1. Waiting' # 0
    BY <1>1, <1>3, PendingTypes
  <2>2. ASSUME ~overlapped' PROVE Waiting' = 1 /\ pending'[m] = 1
    <3>1. Waiting = 0
      <4>1. ~(Waiting > 0)
        BY <2>2, <1>2, Zenon
      <4> QED
        BY <4>1, <1>1, PendingTypes
    <3>2. pending[m] = 0
      BY <3>1, PendingTypes
    <3> QED
      BY <3>1, <3>2, <1>2, <1>3, PendingTypes
  <2> QED
    BY <2>1, <2>2, <1>2, PendingTypes DEF LastReport
<1>6. SwitchesAreReported'
  <2>1. Waiting' # 0
    BY <1>1, <1>3, PendingTypes
  <2>2. CASE m = "wireguard"
    BY <2>1, <2>2, <1>1, <1>2, PendingTypes DEF ReportsOK, SwitchesAreReported, Modes
  <2>3. CASE m = "quic"
    BY <2>1, <2>3, <1>1, <1>2, PendingTypes DEF ReportsOK, SwitchesAreReported, Modes
  <2> QED
    BY <2>2, <2>3, PendingTypes
<1> QED
  BY <1>1, <1>2, <1>3, <1>4, <1>5, <1>6 DEF ReportsOK

\* A callback that runs reports the current mode if it overlapped with no other.
LEMMA CallbackInv == ASSUME Inv, NEW m \in Modes, Callback(m) PROVE Inv'
<1>1. /\ pending[m] > 0 /\ pending' = [pending EXCEPT ![m] = @ - 1] /\ gauge' = m
      /\ balance' = IF m = "wireguard" THEN balance + 1 ELSE balance - 1
      /\ UNCHANGED <<control, mode, running, tunnel, world, overlapped>>
  BY DEF Callback
<1>2. TypeOK /\ mode \in Modes /\ balance \in Int
  BY DEF Inv, TypeOK
<1>3. pending' \in [Modes -> 0..MaxPending] /\ Waiting' = Waiting - 1 /\ Waiting >= 1
  BY <1>1, <1>2, PendingTypes, SMTT(30) DEF Waiting, Modes
<1>4. TypeOK'
  BY <1>1, <1>2, <1>3 DEF TypeOK, control, tunnel, world
<1>5. StageOK' /\ ModeHasTunnel' /\ LinkOK'
  BY <1>1 DEF Inv, StageOK, ModeHasTunnel, LinkOK, control, tunnel
<1>6. RoomOK'
  BY <1>1, <1>2, <1>3, PendingTypes DEF Inv, ReportsOK, RoomOK, control
<1>7. LastReport'
  <2>1. ASSUME ~overlapped PROVE m = mode /\ Waiting' = 0
    <3>1. Waiting = 1 /\ pending[mode] = 1
      BY <2>1, <1>3, PendingTypes, <1>2 DEF Inv, ReportsOK, LastReport
    <3>2. m = mode
      BY <3>1, <1>1, <1>2, PendingTypes DEF Modes
    <3> QED
      BY <3>1, <3>2, <1>3
  <2> QED
    BY <2>1, <1>1 DEF LastReport
<1>8. SwitchesAreReported'
  <2>1. balance' + pending'["wireguard"] - pending'["quic"] = IF mode' = "wireguard" THEN 1 ELSE 0
    <3>1. CASE m = "wireguard"
      BY <3>1, <1>1, <1>2, PendingTypes DEF Inv, ReportsOK, SwitchesAreReported, Modes
    <3>2. CASE m = "quic"
      BY <3>2, <1>1, <1>2, PendingTypes DEF Inv, ReportsOK, SwitchesAreReported, Modes
    <3> QED
      BY <3>1, <3>2, <1>2, PendingTypes
  <2>2. Waiting' = 0 /\ ~overlapped' => gauge' = mode'
    BY <1>7 DEF LastReport
  <2> QED
    BY <2>1, <2>2 DEF SwitchesAreReported
<1> QED
  BY <1>4, <1>5, <1>6, <1>7, <1>8 DEF Inv, ReportsOK

-----------------------------------------------------------------------------
(* The environment, and how work begins. *)

\* Nothing is going on at the start.
LEMMA InitInv == Init => Inv
<1> SUFFICES ASSUME Init PROVE Inv
  OBVIOUS
<1>1. TypeOK
  <2>1. pending \in [Modes -> 0..MaxPending] /\ at \in [Procs -> Doing]
    BY FallbackAssumption DEF Init, Doing
  <2>2. lock \in Procs \cup {Free} /\ stage \in Stages /\ link \in Links /\ balance \in Int
    BY DEF Init, Stages, Links
  <2>3. mode \in Modes /\ gauge \in Modes
    BY DEF Init, Modes
  <2>4. /\ running \in BOOLEAN /\ connected \in BOOLEAN /\ stray \in BOOLEAN
        /\ quic \in BOOLEAN /\ able \in BOOLEAN /\ overlapped \in BOOLEAN
    BY DEF Init
  <2>5. crashes \in 0..MaxCrashes
    BY FallbackAssumption DEF Init
  <2> QED
    BY <2>1, <2>2, <2>3, <2>4, <2>5 DEF TypeOK
<1>2. StageOK /\ ModeHasTunnel /\ LinkOK
  BY DEF Init, StageOK, ModeHasTunnel, LinkOK, Connecting, TearingDown
<1>3. Waiting = 0
  BY DEF Init, Waiting, Modes
<1>4. pending["quic"] = 0 /\ pending["wireguard"] = 0
  BY DEF Init, Modes
<1>5. ReportsOK
  BY <1>3, <1>4, FallbackAssumption
     DEF Init, ReportsOK, RoomOK, SwitchesAreReported, LastReport
<1> QED
  BY <1>1, <1>2, <1>5 DEF Inv

\* A new process finds at most the link.
LEMMA CrashInv == ASSUME Inv, Crash PROVE Inv'
<1>1. TypeOK'
  <2>1. pending' \in [Modes -> 0..MaxPending] /\ at' \in [Procs -> Doing]
    BY FallbackAssumption DEF Crash, Doing
  <2>2. stray' \in BOOLEAN
    BY Zenon DEF Crash
  <2>3. /\ lock' \in Procs \cup {Free} /\ stage' \in Stages /\ link' \in Links
        /\ balance' \in Int /\ mode' \in Modes /\ gauge' \in Modes
    BY DEF Inv, TypeOK, Crash, Stages, Modes
  <2>4. /\ running' \in BOOLEAN /\ connected' \in BOOLEAN
        /\ quic' \in BOOLEAN /\ able' \in BOOLEAN /\ overlapped' \in BOOLEAN
    BY DEF Inv, TypeOK, Crash
  <2>5. crashes' \in 0..MaxCrashes
    BY FallbackAssumption DEF Inv, TypeOK, Crash
  <2> QED
    BY <2>1, <2>2, <2>3, <2>4, <2>5 DEF TypeOK
<1>2. StageOK' /\ ModeHasTunnel' /\ LinkOK'
  BY DEF Crash, StageOK, ModeHasTunnel, LinkOK, Connecting, TearingDown
<1>3. Waiting' = 0
  BY DEF Crash, Waiting, Modes
<1>4. pending'["quic"] = 0 /\ pending'["wireguard"] = 0
  BY DEF Crash, Modes
<1>5. ReportsOK'
  BY <1>3, <1>4, FallbackAssumption
     DEF Crash, ReportsOK, RoomOK, SwitchesAreReported, LastReport
<1> QED
  BY <1>1, <1>2, <1>5 DEF Inv

\* Steps that touch neither the manager at work nor its reports.
LEMMA QuietInv ==
  ASSUME Inv,
         \/ QuicChanges \/ CommandsChange \/ Tick
         \/ \E u \in Users, what \in Doing : Call(u, what)
         \/ \E p \in Procs : AlreadyThere(p)
         \/ UNCHANGED vars
  PROVE  Inv'
<1>1. UNCHANGED <<lock, stage, mode, running, tunnel, reports>>
  BY DEF QuicChanges, CommandsChange, Tick, Call, AlreadyThere, vars, control
<1>2. ReportsOK'
  BY <1>1, ReportsKept DEF Inv
<1>3. TypeOK'
  <2>1. at' \in [Procs -> Doing]
    BY DEF Inv, TypeOK, QuicChanges, CommandsChange, Tick, Call, AlreadyThere, Go, Doing, Procs,
           vars, control
  <2>2. running' \in BOOLEAN /\ UNCHANGED tunnel
    BY <1>1 DEF Inv, TypeOK
  <2>3. quic' \in BOOLEAN /\ able' \in BOOLEAN
    BY Zenon DEF Inv, TypeOK, QuicChanges, CommandsChange, Tick, Call, AlreadyThere, vars, world
  <2>4. crashes' = crashes
    BY DEF QuicChanges, CommandsChange, Tick, Call, AlreadyThere, vars, world
  <2> QED
    BY <1>1, <2>1, <2>2, <2>3, <2>4 DEF Inv, TypeOK, tunnel, reports
<1>4. ModeHasTunnel' /\ LinkOK'
  BY <1>1 DEF Inv, ModeHasTunnel, LinkOK, tunnel
<1>5. stage # "none" => at'[lock] = at[lock]
  <2>1. CASE QuicChanges \/ CommandsChange \/ UNCHANGED vars
    BY <2>1 DEF QuicChanges, CommandsChange, vars, control
  <2>2. CASE Tick
    BY <2>2 DEF Tick, Go, Inv, TypeOK, StageOK, Stages, Connecting, TearingDown
  <2>3. CASE \E u \in Users, what \in Doing : Call(u, what)
    BY <2>3 DEF Call, Go, Inv, TypeOK, StageOK, Stages, Connecting, TearingDown
  <2>4. CASE \E p \in Procs : AlreadyThere(p)
    BY <2>4 DEF AlreadyThere, Inv, StageOK
  <2> QED
    BY <2>1, <2>2, <2>3, <2>4
<1>6. StageOK'
  BY <1>1, <1>5 DEF Inv, StageOK, Connecting, TearingDown
<1> QED
  BY <1>2, <1>3, <1>4, <1>6 DEF Inv

\* Whoever takes the mutex asks for the mode that is not current.
LEMMA EnterInv == ASSUME Inv, NEW p \in Procs, Enter(p) PROVE Inv'
<1>1. /\ lock = Free /\ at[p] # "idle" /\ at[p] # mode /\ Waiting < MaxPending
      /\ lock' = p /\ stage' = FirstStage(at[p])
      /\ UNCHANGED <<at, mode, running, tunnel, world, reports>>
  BY DEF Enter
<1>2. at[p] \in {"check", "wireguard", "quic", "stop"} /\ stage = "none" /\ mode \in Modes
  BY <1>1 DEF Inv, TypeOK, StageOK, Doing
<1>3. /\ stage' \in {"probing", "looking", "lowering"}
      /\ stage' = "probing" => at[p] = "check"
      /\ stage' = "looking" => at[p] = "wireguard"
      /\ stage' = "lowering" => at[p] \in {"quic", "stop"}
  BY <1>1, <1>2 DEF FirstStage
<1>4. TypeOK'
  BY <1>1, <1>3 DEF Inv, TypeOK, Stages, tunnel, world, reports
<1>5. StageOK'
  BY <1>1, <1>2, <1>3, FallbackAssumption DEF StageOK, Connecting, TearingDown, Modes, Procs
<1>6. ModeHasTunnel' /\ LinkOK'
  BY <1>1, <1>2, <1>3 DEF Inv, ModeHasTunnel, LinkOK, tunnel
<1>7. ReportsOK'
  BY <1>1 DEF Inv, ReportsOK, RoomOK, SwitchesAreReported, LastReport, Waiting, reports
<1> QED
  BY <1>4, <1>5, <1>6, <1>7 DEF Inv

-----------------------------------------------------------------------------
(* The sections under the mutex: a check, or one command. *)

\* Inv holds after a step that keeps what the callbacks tell and the mode, if the
\* parts that speak of the stage and of the tunnel do.
LEMMA SectionInv ==
  ASSUME Inv, stage # "none", UNCHANGED <<mode, running, world, reports>>,
         lock' \in Procs \cup {Free}, at' \in [Procs -> Doing], stage' \in Stages,
         connected' \in BOOLEAN, link' \in Links, stray' \in BOOLEAN,
         StageOK', LinkOK', ModeHasTunnel'
  PROVE  Inv'
<1>1. TypeOK'
  BY DEF Inv, TypeOK, world, reports
<1>2. ReportsOK'
  BY ReportsKept DEF Inv
<1> QED
  BY <1>1, <1>2 DEF Inv

\* Whoever returns leaves the mutex free.
LEMMA ReturnControl ==
  ASSUME TypeOK, Return
  PROVE  /\ lock' = Free /\ stage' = "none" /\ StageOK'
         /\ lock' \in Procs \cup {Free} /\ at' \in [Procs -> Doing] /\ stage' \in Stages
<1>1. lock' = Free /\ stage' = "none" /\ at' = [at EXCEPT ![lock] = "idle"]
  BY DEF Return, Go
<1>2. at' \in [Procs -> Doing] /\ stage' \in Stages
  BY <1>1 DEF TypeOK, Doing, Stages
<1> QED
  BY <1>1, <1>2 DEF StageOK, Connecting, TearingDown

\* Whoever goes on holds the mutex and is in the same call.
LEMMA ProceedControl ==
  ASSUME TypeOK, NEW next \in Stages, Proceed(next)
  PROVE  /\ lock' = lock /\ at' = at /\ stage' = next
         /\ lock' \in Procs \cup {Free} /\ at' \in [Procs -> Doing] /\ stage' \in Stages
BY DEF Proceed, TypeOK

\* Inv holds after a switch if the parts that speak of the tunnel do.
LEMMA SwitchInv ==
  ASSUME Inv, stage # "none", NEW m \in Modes, m # mode, Switched(m),
         UNCHANGED <<running, world>>,
         connected' \in BOOLEAN, link' \in Links, stray' \in BOOLEAN,
         LinkOK', ModeHasTunnel'
  PROVE  Inv'
<1>1. TypeOK /\ ReportsOK /\ Return
  BY DEF Inv, Switched
<1>2. /\ ReportsOK' /\ pending' \in [Modes -> 0..MaxPending] /\ mode' \in Modes
      /\ gauge' \in Modes /\ balance' \in Int /\ overlapped' \in BOOLEAN
  BY <1>1, SwitchReports
<1>3. /\ StageOK' /\ lock' \in Procs \cup {Free} /\ at' \in [Procs -> Doing]
      /\ stage' \in Stages
  BY <1>1, ReturnControl
<1>4. running' \in BOOLEAN /\ quic' \in BOOLEAN /\ able' \in BOOLEAN /\ crashes' \in 0..MaxCrashes
  BY <1>1 DEF TypeOK, world
<1>5. TypeOK'
  BY <1>2, <1>3, <1>4 DEF TypeOK
<1> QED
  BY <1>2, <1>3, <1>5 DEF Inv

\* The check is over, or its owner has begun the switch it calls for.
LEMMA CheckInv == ASSUME Inv, Check PROVE Inv'
<1>1. /\ stage = "probing" /\ UNCHANGED <<mode, running, tunnel, world, reports>>
      /\ lock \in Procs /\ lock # Free /\ TypeOK
  BY DEF Check, Inv, TypeOK, StageOK
<1>2. /\ connected' \in BOOLEAN /\ link' \in Links /\ stray' \in BOOLEAN
      /\ ModeHasTunnel'
  BY <1>1 DEF tunnel, Inv, TypeOK, ModeHasTunnel
<1>3. CASE Return
  <2>1. stage' = "none"
    BY <1>1, <1>3, ReturnControl
  <2>2. LinkOK'
    BY <1>1, <2>1 DEF Inv, LinkOK, tunnel
  <2> QED
    BY <1>1, <1>2, <1>3, <2>2, ReturnControl, SectionInv
<1>4. CASE mode = "quic" /\ Go(lock, "wireguard") /\ stage' = "looking" /\ UNCHANGED lock
  <2>1. at' = [at EXCEPT ![lock] = "wireguard"] /\ at'[lock] = "wireguard"
    BY <1>1, <1>4 DEF Go, TypeOK
  <2>2. LinkOK'
    BY <1>1, <1>4 DEF Inv, LinkOK, tunnel
  <2>3. StageOK'
    BY <1>1, <1>4, <2>1 DEF StageOK, Connecting, TearingDown
  <2>4. lock' \in Procs \cup {Free} /\ at' \in [Procs -> Doing] /\ stage' \in Stages
    BY <1>1, <1>4, <2>1 DEF TypeOK, Doing, Stages
  <2> QED
    BY <1>1, <1>2, <2>2, <2>3, <2>4, SectionInv
<1>5. CASE mode = "wireguard" /\ Go(lock, "quic") /\ stage' = "lowering" /\ UNCHANGED lock
  <2>1. at' = [at EXCEPT ![lock] = "quic"] /\ at'[lock] = "quic"
    BY <1>1, <1>5 DEF Go, TypeOK
  <2>2. LinkOK'
    BY <1>1, <1>5 DEF Inv, LinkOK, tunnel
  <2>3. StageOK'
    BY <1>1, <1>5, <2>1 DEF StageOK, Connecting, TearingDown
  <2>4. lock' \in Procs \cup {Free} /\ at' \in [Procs -> Doing] /\ stage' \in Stages
    BY <1>1, <1>5, <2>1 DEF TypeOK, Doing, Stages
  <2> QED
    BY <1>1, <1>2, <2>2, <2>3, <2>4, SectionInv
<1> QED
  BY <1>3, <1>4, <1>5 DEF Check

\* A link that Connect finds and takes is one that was left behind.
LEMMA LookInv == ASSUME Inv, Look PROVE Inv'
<1>1. /\ stage = "looking" /\ UNCHANGED <<running, link, stray, world>> /\ TypeOK
      /\ mode = "quic" /\ ~connected /\ link' \in Links /\ stray' \in BOOLEAN
  BY DEF Look, Inv, TypeOK, StageOK, ModeHasTunnel, Connecting
<1>2. CASE Switched("wireguard") /\ connected' = TRUE /\ link # "absent"
  <2>1. mode' = "wireguard" /\ stage' = "none" /\ "wireguard" \in Modes
    BY <1>2 DEF Switched, Return, Modes
  <2>2. stray
    BY <1>1, <1>2 DEF Inv, LinkOK
  <2>3. LinkOK' /\ ModeHasTunnel'
    BY <1>1, <1>2, <2>1, <2>2 DEF LinkOK, ModeHasTunnel
  <2> QED
    BY <1>1, <1>2, <2>1, <2>3, SwitchInv
<1>3. CASE Proceed("creating") /\ UNCHANGED <<mode, connected, reports>>
  <2>1. "creating" \in Stages
    BY DEF Stages
  <2>2. /\ lock' = lock /\ at' = at /\ stage' = "creating"
        /\ lock' \in Procs \cup {Free} /\ at' \in [Procs -> Doing] /\ stage' \in Stages
    BY <1>1, <1>3, <2>1, ProceedControl
  <2>3. StageOK' /\ LinkOK' /\ ModeHasTunnel' /\ connected' \in BOOLEAN
    BY <1>1, <1>3, <2>2
       DEF Inv, StageOK, LinkOK, ModeHasTunnel, TypeOK, Connecting, TearingDown
  <2> QED
    BY <1>1, <1>3, <2>2, <2>3, SectionInv
<1> QED
  BY <1>1, <1>2, <1>3 DEF Look

\* The link that is made was not there before.
LEMMA CreateInv == ASSUME Inv, Create PROVE Inv'
<1>1. /\ stage = "creating" /\ UNCHANGED <<mode, running, connected, stray, world, reports>>
      /\ TypeOK /\ mode = "quic" /\ ~connected /\ connected' \in BOOLEAN /\ stray' \in BOOLEAN
      /\ ModeHasTunnel'
  BY DEF Create, Inv, TypeOK, StageOK, ModeHasTunnel, Connecting
<1>2. CASE link = "absent" /\ link' = "bare" /\ Proceed("configuring")
  <2>1. "configuring" \in Stages /\ link' \in Links
    BY <1>2 DEF Stages, Links
  <2>2. /\ lock' = lock /\ at' = at /\ stage' = "configuring"
        /\ lock' \in Procs \cup {Free} /\ at' \in [Procs -> Doing] /\ stage' \in Stages
    BY <1>1, <1>2, <2>1, ProceedControl
  <2>3. StageOK' /\ LinkOK'
    BY <1>1, <1>2, <2>2 DEF Inv, StageOK, LinkOK, Connecting, TearingDown
  <2> QED
    BY <1>1, <2>1, <2>2, <2>3, SectionInv
<1>3. CASE Return /\ UNCHANGED link
  <2>1. stage' = "none"
    BY <1>1, <1>3, ReturnControl
  <2>2. LinkOK' /\ link' \in Links
    BY <1>1, <1>3, <2>1 DEF Inv, LinkOK, TypeOK
  <2> QED
    BY <1>1, <1>3, <2>2, ReturnControl, SectionInv
<1> QED
  BY <1>2, <1>3 DEF Create

\* A link that cannot be configured is going to be removed.
LEMMA ConfigureInv == ASSUME Inv, Configure PROVE Inv'
<1>1. /\ stage = "configuring" /\ UNCHANGED <<mode, running, connected, stray, world, reports>>
      /\ TypeOK /\ mode = "quic" /\ connected' \in BOOLEAN /\ stray' \in BOOLEAN
      /\ ModeHasTunnel'
  BY DEF Configure, Inv, TypeOK, StageOK, ModeHasTunnel, Connecting
<1>2. PICK next \in {"raising", "undoing"} :
        /\ Proceed(next) /\ link' \in Links
        /\ next = "raising" => link' = "configured"
        /\ next = "undoing" => link' = link
  BY <1>1 DEF Configure, TypeOK, Links
<1>3. next \in Stages
  BY <1>2 DEF Stages
<1>4. /\ lock' = lock /\ at' = at /\ stage' = next
      /\ lock' \in Procs \cup {Free} /\ at' \in [Procs -> Doing] /\ stage' \in Stages
  BY <1>1, <1>2, <1>3, ProceedControl
<1>5. StageOK' /\ LinkOK'
  BY <1>1, <1>2, <1>4 DEF Inv, StageOK, LinkOK, Connecting, TearingDown
<1> QED
  BY <1>1, <1>2, <1>4, <1>5, SectionInv

\* The link is up when the mode says so.
LEMMA RaiseInv == ASSUME Inv, Raise PROVE Inv'
<1>1. /\ stage = "raising" /\ UNCHANGED <<running, stray, world>> /\ TypeOK
      /\ mode = "quic" /\ stray' \in BOOLEAN
  BY DEF Raise, Inv, TypeOK, StageOK, Connecting
<1>2. CASE link' = "up" /\ connected' = TRUE /\ Switched("wireguard")
  <2>1. mode' = "wireguard" /\ stage' = "none" /\ "wireguard" \in Modes /\ link' \in Links
    BY <1>2 DEF Switched, Return, Modes, Links
  <2>2. LinkOK' /\ ModeHasTunnel'
    BY <1>1, <1>2, <2>1 DEF LinkOK, ModeHasTunnel
  <2> QED
    BY <1>1, <1>2, <2>1, <2>2, SwitchInv
<1>3. CASE Proceed("undoing") /\ UNCHANGED <<link, connected, mode, reports>>
  <2>1. "undoing" \in Stages
    BY DEF Stages
  <2>2. /\ lock' = lock /\ at' = at /\ stage' = "undoing"
        /\ lock' \in Procs \cup {Free} /\ at' \in [Procs -> Doing] /\ stage' \in Stages
    BY <1>1, <1>3, <2>1, ProceedControl
  <2>3. /\ StageOK' /\ LinkOK' /\ ModeHasTunnel' /\ connected' \in BOOLEAN /\ link' \in Links
    BY <1>1, <1>3, <2>2
       DEF Inv, StageOK, LinkOK, ModeHasTunnel, TypeOK, Connecting, TearingDown
  <2> QED
    BY <1>1, <1>3, <2>2, <2>3, SectionInv
<1> QED
  BY <1>1, <1>2, <1>3 DEF Raise

\* A removal takes the link away, or what stays is marked.
LEMMA DeleteLink ==
  ASSUME TypeOK, Delete
  PROVE  link' \in Links /\ stray' \in BOOLEAN /\ (stray' <=> link' # "absent")
<1>1. link' \in Links
  BY DEF Delete, TypeOK, Links
<1>2. stray' = (link' # "absent")
  BY DEF Delete
<1> QED
  BY <1>1, <1>2, Zenon

\* A failed Connect leaves nothing, or what its removal could not take away.
LEMMA UndoInv == ASSUME Inv, Undo PROVE Inv'
<1>1. /\ stage = "undoing" /\ UNCHANGED <<mode, running, connected, world, reports>>
      /\ TypeOK /\ mode = "quic" /\ ~connected /\ connected' \in BOOLEAN /\ ModeHasTunnel'
      /\ Delete /\ Return
  BY DEF Undo, Inv, TypeOK, StageOK, ModeHasTunnel, Connecting
<1>2. link' \in Links /\ stray' \in BOOLEAN /\ (stray' <=> link' # "absent")
  BY <1>1, DeleteLink
<1>3. stage' = "none"
  BY <1>1, ReturnControl
<1>4. LinkOK'
  BY <1>1, <1>2, <1>3 DEF LinkOK
<1> QED
  BY <1>1, <1>2, <1>4, ReturnControl, SectionInv

\* Only the link of a connected manager is lowered.
LEMMA LowerInv == ASSUME Inv, Lower PROVE Inv'
<1>1. /\ stage = "lowering" /\ UNCHANGED <<mode, running, connected, stray, world, reports>>
      /\ TypeOK /\ connected' \in BOOLEAN /\ stray' \in BOOLEAN /\ ModeHasTunnel'
      /\ Proceed("deleting")
      /\ link' = IF connected /\ able /\ link = "up" THEN "configured" ELSE link
  BY DEF Lower, Inv, TypeOK, ModeHasTunnel
<1>2. "deleting" \in Stages /\ link' \in Links
  BY <1>1 DEF Stages, Links, TypeOK
<1>3. /\ lock' = lock /\ at' = at /\ stage' = "deleting"
      /\ lock' \in Procs \cup {Free} /\ at' \in [Procs -> Doing] /\ stage' \in Stages
  BY <1>1, <1>2, ProceedControl
<1>4. StageOK' /\ LinkOK'
  BY <1>1, <1>3 DEF Inv, StageOK, LinkOK, Connecting, TearingDown
<1> QED
  BY <1>1, <1>2, <1>3, <1>4, SectionInv

\* A torn down manager is not connected and, unless it was stopped, not in use.
LEMMA TearDownInv == ASSUME Inv, TearDown PROVE Inv'
<1>1. /\ stage = "deleting" /\ UNCHANGED world /\ connected' = FALSE
      /\ TypeOK /\ at[lock] \in {"quic", "stop"} /\ (at[lock] = "quic" => mode = "wireguard")
  BY DEF TearDown, Inv, StageOK, TearingDown
<1>2. /\ link' \in Links /\ stray' \in BOOLEAN
      /\ stray' => link' # "absent"
      /\ ~stray' => link' = "absent"
  <2>1. CASE connected
    BY <1>1, <2>1, DeleteLink DEF TearDown
  <2>2. CASE ~connected
    BY <1>1, <2>2 DEF TearDown, TypeOK, Inv, LinkOK
  <2> QED
    BY <2>1, <2>2
<1>3. CASE at[lock] = "stop"
  <2>1. running' = FALSE /\ Return /\ UNCHANGED <<mode, reports>>
    BY <1>3 DEF TearDown
  <2>2. /\ lock' = Free /\ stage' = "none" /\ StageOK'
        /\ lock' \in Procs \cup {Free} /\ at' \in [Procs -> Doing] /\ stage' \in Stages
    BY <1>1, <2>1, ReturnControl
  <2>3. LinkOK' /\ ModeHasTunnel'
    BY <1>1, <1>2, <2>1, <2>2 DEF LinkOK, ModeHasTunnel
  <2>4. TypeOK'
    BY <1>1, <1>2, <2>1, <2>2 DEF TypeOK, world, reports
  <2>5. ReportsOK'
    BY <1>1, <2>1, <2>2, ReportsKept DEF Inv
  <2> QED
    BY <2>2, <2>3, <2>4, <2>5 DEF Inv
<1>4. CASE at[lock] = "quic"
  <2>1. Switched("quic") /\ UNCHANGED running
    BY <1>4 DEF TearDown
  <2>2. mode' = "quic" /\ stage' = "none" /\ "quic" \in Modes /\ mode # "quic"
    BY <1>1, <1>4, <2>1 DEF Switched, Return, Modes
  <2>3. LinkOK' /\ ModeHasTunnel' /\ connected' \in BOOLEAN
    BY <1>1, <1>2, <2>2 DEF LinkOK, ModeHasTunnel
  <2> QED
    BY <1>1, <1>2, <2>1, <2>2, <2>3, SwitchInv
<1> QED
  BY <1>1, <1>3, <1>4

-----------------------------------------------------------------------------
(* The theorems. *)

\* Every step keeps the invariant.
LEMMA StepInv == Inv /\ [Next]_vars => Inv'
<1> SUFFICES ASSUME Inv, [Next]_vars PROVE Inv'
  OBVIOUS
<1>1. CASE QuicChanges \/ CommandsChange \/ Tick \/ UNCHANGED vars
  BY <1>1, QuietInv
<1>2. CASE \E u \in Users, what \in Doing : Call(u, what)
  BY <1>2, QuietInv
<1>3. CASE Crash
  BY <1>3, CrashInv
<1>4. CASE \E m \in Modes : Callback(m)
  BY <1>4, CallbackInv
<1>5. CASE \E p \in Procs : Take(p)
  BY <1>5, QuietInv, EnterInv DEF Take
<1>6. CASE Section
  BY <1>6, CheckInv, LookInv, CreateInv, ConfigureInv, RaiseInv, UndoInv, LowerInv, TearDownInv
     DEF Section
<1> QED
  BY <1>1, <1>2, <1>3, <1>4, <1>5, <1>6 DEF Next

\* The inductive invariant holds in every reachable state.
THEOREM Invariance == Spec => []Inv
BY InitInv, StepInv, PTL DEF Spec

\* The variables keep their types: no more callbacks wait than the bound.
THEOREM TypeCorrect == Spec => []TypeOK
<1>1. Inv => TypeOK
  BY DEF Inv
<1> QED
  BY <1>1, Invariance, PTL

\* A running manager is in WireGuard mode exactly when it has the tunnel, whatever
\* commands fail and whenever the process is killed.
THEOREM TunnelInUse == Spec => []ModeHasTunnel
<1>1. Inv => ModeHasTunnel
  BY DEF Inv
<1> QED
  BY <1>1, Invariance, PTL

\* No interface is forgotten: whenever the mutex is free it is there because it is
\* used, or because a removal failed or a process died.
THEOREM NoForgottenLink == Spec => []LinkIsAccountedFor
<1>1. Inv => LinkIsAccountedFor
  BY DEF Inv, StageOK, LinkOK, LinkIsAccountedFor
<1> QED
  BY <1>1, Invariance, PTL

\* Each switch is told once; only callbacks that wait together can leave the wrong
\* mode behind.
THEOREM SwitchesTold == Spec => []SwitchesAreReported
<1>1. Inv => SwitchesAreReported
  BY DEF Inv, ReportsOK
<1> QED
  BY <1>1, Invariance, PTL
=============================================================================
