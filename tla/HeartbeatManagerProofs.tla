----------------------- MODULE HeartbeatManagerProofs -----------------------
(***************************************************************************)
(* What the heartbeat manager guarantees for any number of goroutines, any *)
(* intervals and any limits.  The inductive invariant is Inv.              *)
(***************************************************************************)
EXTENDS HeartbeatManager, TLAPS

\* The counter that decides never runs behind the failures it counts.
MissesAreCounted == misses <= failCount /\ failCount <= MaxCount

Inv == TypeOK /\ OneTicker /\ MissesAreCounted

-----------------------------------------------------------------------------
\* What New takes is one of the identities it is offered.
LEMMA NewIsFresh == ASSUME NEW S, NEW x \in New(S) PROVE x \in S
BY DEF New

\* Doubling never goes below where it starts, nor, from the second failure
\* on, beyond the ceiling.
LEMMA DoubledBound ==
  ASSUME TypeOK, NEW n \in 1..MaxCount
  PROVE  Doubled(n) \in Nat /\ Doubled(n) >= Smaller(baseInterval, MaxBackoff)
<1> USE HeartbeatAssumption
<1>1. baseInterval \in Nat
  BY DEF TypeOK
<1>2. CASE n <= 1
  BY <1>1, <1>2 DEF Doubled, Smaller
<1>3. CASE n > 1
  <2> DEFINE p == 2^(n - 1)
  <2>1. p \in Nat \ {0}
    BY <1>3, PowersOfTwo
  <2> HIDE DEF p
  <2>2. baseInterval * p \in Nat /\ baseInterval * p >= baseInterval
    BY <1>1, <2>1
  <2>3. Doubled(n) = Smaller(baseInterval * p, MaxBackoff)
    BY <1>3 DEF Doubled, p
  <2> QED
    BY <1>1, <2>2, <2>3 DEF Smaller
<1> QED
  BY <1>2, <1>3

\* A backed-off interval lies between 85 percent of the base pace and the
\* ceiling.
LEMMA BackoffBound ==
  ASSUME TypeOK, NEW n \in 1..MaxCount, NEW j \in Jitters
  PROVE  /\ Backoff(n, j) \in Nat /\ Backoff(n, j) <= MaxBackoff
         /\ Backoff(n, j) * 100 + 100 > 85 * Smaller(baseInterval, MaxBackoff)
<1> USE HeartbeatAssumption
<1> DEFINE d == Doubled(n)
           s == Smaller(baseInterval, MaxBackoff)
           q == (d * j) \div 100
<1>1. /\ d \in Nat /\ s \in Nat /\ s <= d /\ s <= MaxBackoff
      /\ j \in Nat /\ j >= 85
  BY DoubledBound DEF Smaller, TypeOK
<1> HIDE DEF d, s
<1>2. d * j \in Nat /\ d * j >= 85 * d
  BY <1>1
<1>3. q \in Nat /\ q * 100 + 100 > d * j
  BY <1>2
<1> HIDE DEF q
<1>4. Backoff(n, j) = Smaller(Larger(q, Second), MaxBackoff)
  BY DEF Backoff, q, d
<1>5. q * 100 + 100 > 85 * s
  BY <1>1, <1>2, <1>3
<1>6. MaxBackoff * 100 + 100 > 85 * s
  BY <1>1
<1>7. /\ Backoff(n, j) \in Nat /\ Backoff(n, j) <= MaxBackoff
      /\ Backoff(n, j) * 100 + 100 > 85 * s
  BY <1>1, <1>3, <1>4, <1>5, <1>6 DEF Smaller, Larger
<1> QED
  BY <1>7 DEF s

\* Replacing the ticker leaves a manager with one ticker, or with none.
LEMMA RetickFacts ==
  ASSUME Inv, Retick, UNCHANGED <<running, stopChan, closed>>
  PROVE  /\ ticker' \in Tickers \cup {Nil} /\ ticking' \in SUBSET Tickers
         /\ OneTicker'
<1> USE HeartbeatAssumption
<1>1. CASE ticker = Nil
  BY <1>1 DEF Retick, Inv, TypeOK, OneTicker
<1>2. CASE ticker # Nil
  BY <1>2, NewIsFresh DEF Retick, FreshTickers, Inv, TypeOK, OneTicker
<1> QED
  BY <1>1, <1>2

\* A changed pace brings a new ticker in place of the old, and the manager still
\* holds the only one.
LEMMA SetPaceFacts ==
  ASSUME Inv, NEW i, SetPace(i), UNCHANGED <<running, stopChan, closed>>
  PROVE  /\ ticker' \in Tickers \cup {Nil} /\ ticking' \in SUBSET Tickers
         /\ interval' = i /\ OneTicker'
<1>1. CASE i # interval
  BY <1>1, RetickFacts DEF SetPace
<1>2. CASE i = interval
  BY <1>2 DEF SetPace, Inv, TypeOK, OneTicker
<1> QED
  BY <1>1, <1>2

\* Shutting down leaves no ticker and no channel.
LEMMA ShutDownFacts ==
  ASSUME Inv, ShutDown
  PROVE  /\ running' = FALSE /\ ticker' = Nil /\ ticking' \in SUBSET Tickers
         /\ stopChan' = Nil /\ closed' \in SUBSET Chans /\ OneTicker'
BY HeartbeatAssumption DEF ShutDown, Inv, TypeOK, OneTicker

-----------------------------------------------------------------------------
\* The manager starts stopped.
LEMMA InitInv == Init => Inv
<1> SUFFICES ASSUME Init PROVE Inv
  OBVIOUS
<1> USE HeartbeatAssumption DEF Init
<1>1. loop \in [Loops -> LoopStates] /\ watcher \in [Watchers -> WatcherStates]
  BY DEF LoopStates, WatcherStates, Idle, IdleWatcher
<1>2. interval \in Nat /\ baseInterval \in Intervals
  OBVIOUS
<1>3. TypeOK
  BY <1>1, <1>2 DEF TypeOK
<1>4. OneTicker /\ MissesAreCounted
  BY DEF OneTicker, MissesAreCounted
<1> QED
  BY <1>3, <1>4 DEF Inv

\* The owner's calls.
LEMMA StartInv ==
  ASSUME Inv, NEW l \in Loops, NEW w \in Watchers, Start(l, w)
  PROVE  Inv'
<1> USE HeartbeatAssumption DEF Start, Inv
<1>1. PICK c \in FreshChans : stopChan' = c /\ closed' = closed \ {c}
  BY NewIsFresh
<1>2. PICK t \in FreshTickers : ticker' = t /\ ticking' = ticking \cup {t}
  BY NewIsFresh
<1>3. loop' \in [Loops -> LoopStates] /\ watcher' \in [Watchers -> WatcherStates]
  BY DEF TypeOK, LoopStates, WatcherStates, Idle, IdleWatcher
<1>4. TypeOK'
  BY <1>1, <1>2, <1>3 DEF TypeOK, FreshChans, FreshTickers
<1>5. OneTicker'
  BY <1>1, <1>2 DEF TypeOK, OneTicker, FreshChans, FreshTickers
<1> QED
  BY <1>4, <1>5 DEF MissesAreCounted

\* What the owner calls, Start and Stop at any moment included, preserves the
\* invariant.
LEMMA OwnerInv ==
  ASSUME Inv, Owner
  PROVE  Inv'
<1> USE HeartbeatAssumption
<1>1. CASE Stop
  BY <1>1, ShutDownFacts DEF Stop, Inv, TypeOK, MissesAreCounted, pace
<1>2. CASE ResetFailCount
  BY <1>2 DEF ResetFailCount, Inv, TypeOK, OneTicker, MissesAreCounted, control
<1>3. ASSUME NEW i \in Intervals \cup {0}, SetInterval(i) PROVE Inv'
  <2>1. i \in Intervals /\ i \in Nat
    BY <1>3 DEF SetInterval
  <2> QED
    BY <1>3, <2>1, RetickFacts DEF SetInterval, Inv, TypeOK, MissesAreCounted
<1>4. ASSUME NEW n \in FailLimits \cup {0}, SetMaxFails(n) PROVE Inv'
  BY <1>4 DEF SetMaxFails, Inv, TypeOK, OneTicker, MissesAreCounted, control
<1> QED
  BY <1>1, <1>2, <1>3, <1>4, StartInv DEF Owner

\* The steps of a heartbeatLoop.
LEMMA BeatInv ==
  ASSUME Inv, NEW l \in Loops, Beat(l)
  PROVE  Inv'
<1> USE HeartbeatAssumption
<1> loop[l] \in LoopStates /\ loop \in [Loops -> LoopStates]
  BY DEF Inv, TypeOK
<1>1. CASE /\ UNCHANGED <<control, pace, watcher, misses>>
           /\ loop' \in [Loops -> LoopStates] /\ panicked' \in BOOLEAN
  BY <1>1 DEF Inv, TypeOK, OneTicker, MissesAreCounted, control, pace
<1>2. CASE LoopReadsStopChan(l)
  BY <1>1, <1>2 DEF LoopReadsStopChan, LoopStates, Inv, TypeOK
<1>3. CASE LoopReadsTicker(l)
  <2>1. loop' \in [Loops -> LoopStates]
    <3>1. CASE ticker = Nil
      BY <1>3, <3>1 DEF LoopReadsTicker
    <3>2. CASE ticker # Nil
      <4> DEFINE armed == [loop[l] EXCEPT !.at = "waiting"]
      <4>1. armed \in LoopStates
        BY DEF LoopStates
      <4>2. [armed EXCEPT !.tick = ticker] \in LoopStates
        BY <4>1 DEF LoopStates, Inv, TypeOK
      <4>3. loop' = [loop EXCEPT ![l] = [armed EXCEPT !.tick = ticker]]
        BY <1>3, <3>2 DEF LoopReadsTicker
      <4> QED
        BY <4>2, <4>3
    <3> QED
      BY <3>1, <3>2
  <2> QED
    BY <1>1, <1>3, <2>1 DEF LoopReadsTicker, Inv, TypeOK
<1>4. CASE LoopStops(l) \/ LoopTicks(l)
  BY <1>1, <1>4 DEF LoopStops, LoopTicks, LoopStates, Idle, Inv, TypeOK
<1>5. ASSUME NEW outcome \in {"good", "bad"}, ClientAnswers(l, outcome) PROVE Inv'
  BY <1>1, <1>5 DEF ClientAnswers, LoopStates, Inv, TypeOK
<1>6. CASE handleHeartbeatSuccess(l)
  <2>1. loop' \in [Loops -> LoopStates]
    BY <1>6 DEF handleHeartbeatSuccess, LoopStates
  <2>2. baseInterval \in Nat
    BY DEF Inv, TypeOK
  <2> QED
    BY <1>6, <2>1, <2>2, SetPaceFacts DEF handleHeartbeatSuccess, Inv, TypeOK, MissesAreCounted
<1>7. CASE handleHeartbeatFailure(l)
  <2>1. loop' \in [Loops -> LoopStates]
    BY <1>7 DEF handleHeartbeatFailure, LoopStates
  <2>2. /\ failCount' \in Nat /\ misses' \in Nat /\ MissesAreCounted'
        /\ failCount + 1 \in 1..MaxCount
    BY <1>7 DEF handleHeartbeatFailure, Inv, TypeOK, MissesAreCounted
  <2>3. interval' \in Nat
    <3>1. PICK j \in Jitters : interval' = Backoff(failCount + 1, j)
      BY <1>7 DEF handleHeartbeatFailure
    <3> QED
      BY <2>2, <3>1, BackoffBound DEF Inv
  <2>4. /\ ticker' \in Tickers \cup {Nil} /\ ticking' \in SUBSET Tickers
        /\ stopChan' \in Chans \cup {Nil} /\ closed' \in SUBSET Chans
        /\ running' \in BOOLEAN /\ OneTicker'
    <3>1. CASE failCount + 1 >= maxFails
      BY <1>7, <3>1, ShutDownFacts DEF handleHeartbeatFailure
    <3>2. CASE ~(failCount + 1 >= maxFails) /\ interval' # interval
      BY <1>7, <3>2, RetickFacts DEF handleHeartbeatFailure, Inv, TypeOK
    <3>3. CASE ~(failCount + 1 >= maxFails) /\ interval' = interval
      BY <1>7, <3>3 DEF handleHeartbeatFailure, Inv, TypeOK, OneTicker
    <3> QED
      BY <3>1, <3>2, <3>3
  <2> QED
    BY <1>7, <2>1, <2>2, <2>3, <2>4 DEF handleHeartbeatFailure, Inv, TypeOK
<1> QED
  BY <1>2, <1>3, <1>4, <1>5, <1>6, <1>7 DEF Beat

\* The steps of a stateEventLoop.
LEMMA WatchInv ==
  ASSUME Inv, NEW w \in Watchers, Watch(w)
  PROVE  Inv'
<1> USE HeartbeatAssumption
<1> DEFINE Kept == watcher' \in [Watchers -> WatcherStates]
<1>1. Kept
  BY DEF Watch, WatcherReadsStopChan, WatcherStops, ClientConnected, ClientDisconnected,
     WatcherStates, IdleWatcher, Inv, TypeOK
<1> HIDE DEF Kept
<1>2. CASE WatcherReadsStopChan(w) \/ WatcherStops(w)
  BY <1>1, <1>2 DEF Kept, WatcherReadsStopChan, WatcherStops, Inv, TypeOK, OneTicker,
     MissesAreCounted, control, pace
<1>3. CASE ClientConnected(w)
  <2>1. baseInterval \in Nat
    BY DEF Inv, TypeOK
  <2> QED
    BY <1>1, <1>3, <2>1, SetPaceFacts DEF Kept, ClientConnected, Inv, TypeOK, MissesAreCounted
<1>4. CASE ClientDisconnected(w)
  <2>1. PICK j \in Jitters : SetPace(Backoff(failCount + 1, j))
    BY <1>4 DEF ClientDisconnected
  <2>2. failCount + 1 \in 1..MaxCount
    BY <1>4 DEF ClientDisconnected, Inv, TypeOK
  <2>3. Backoff(failCount + 1, j) \in Nat
    BY <2>2, BackoffBound DEF Inv
  <2> QED
    BY <1>1, <1>4, <2>1, <2>3, SetPaceFacts
       DEF Kept, ClientDisconnected, Inv, TypeOK, MissesAreCounted
<1> QED
  BY <1>2, <1>3, <1>4 DEF Watch

\* Every step of the manager and of its goroutines preserves the invariant.
LEMMA StepInv == Inv /\ [Next]_vars => Inv'
<1> SUFFICES ASSUME Inv, [Next]_vars PROVE Inv'
  OBVIOUS
<1>1. CASE Next
  BY <1>1, OwnerInv, BeatInv, WatchInv DEF Next
<1>2. CASE UNCHANGED vars
  BY <1>2 DEF vars, control, pace, Inv, TypeOK, OneTicker, MissesAreCounted
<1> QED
  BY <1>1, <1>2

-----------------------------------------------------------------------------
\* Inv holds in every reachable state of every heartbeat manager.
THEOREM Invariance == Spec => []Inv
<1>1. Init => Inv
  BY InitInv
<1>2. Inv /\ [Next]_vars => Inv'
  BY StepInv
<1> QED
  BY <1>1, <1>2, PTL DEF Spec

\* Every variable keeps its type, and no ticker ticks that the manager does
\* not hold: a running manager has exactly one, a stopped one none.
THEOREM TickersAreHeld == Spec => []TypeOK /\ []OneTicker
<1>1. Inv => TypeOK /\ OneTicker
  BY DEF Inv
<1> QED
  BY <1>1, Invariance, PTL

\* No goroutine of any generation begins a beat while the manager is stopped.
THEOREM StoppedIsQuiet == Spec => QuietWhenStopped
<1> DEFINE Step == \A l \in Loops :
                     loop[l].at # "beating" /\ loop'[l].at = "beating" => running
<1>1. Inv /\ [Next]_vars => [Step]_vars
  <2> SUFFICES ASSUME Inv, Next, NEW l \in Loops,
                      loop[l].at # "beating", loop'[l].at = "beating"
               PROVE  running
    OBVIOUS
  <2> loop \in [Loops -> LoopStates]
    BY DEF Inv, TypeOK
  <2>1. CASE Owner
    BY <2>1 DEF Owner, Start, Stop, ResetFailCount, SetInterval, SetMaxFails, Idle
  <2>2. ASSUME NEW w \in Watchers, Watch(w) PROVE FALSE
    BY <2>2 DEF Watch, WatcherReadsStopChan, WatcherStops, ClientConnected, ClientDisconnected
  <2>3. ASSUME NEW k \in Loops, Beat(k) PROVE running
    <3>1. CASE LoopTicks(k)
      BY <3>1 DEF LoopTicks, Inv, OneTicker
    <3>2. CASE LoopReadsTicker(k)
      BY <3>2 DEF LoopReadsTicker, LoopStates
    <3>3. CASE LoopReadsStopChan(k) \/ LoopStops(k)
      BY <3>3 DEF LoopReadsStopChan, LoopStops, Idle
    <3>4. ASSUME NEW outcome \in {"good", "bad"}, ClientAnswers(k, outcome) PROVE FALSE
      BY <3>4 DEF ClientAnswers, LoopStates
    <3>5. CASE handleHeartbeatSuccess(k) \/ handleHeartbeatFailure(k)
      BY <3>5 DEF handleHeartbeatSuccess, handleHeartbeatFailure, LoopStates
    <3> QED
      BY <2>3, <3>1, <3>2, <3>3, <3>4, <3>5 DEF Beat
  <2> QED
    BY <2>1, <2>2, <2>3 DEF Next
<1> QED
  BY <1>1, Invariance, PTL DEF Spec, QuietWhenStopped

\* A manager whose beats fail in a row stops at its limit at the latest.
THEOREM ManagerGivesUp == Spec => GivesUp
<1> DEFINE Step == misses' > misses /\ misses' >= maxFails => ~running'
<1>1. Inv /\ [Next]_vars => [Step]_vars
  <2> SUFFICES ASSUME Inv, Next, misses' > misses, misses' >= maxFails PROVE ~running'
    OBVIOUS
  <2>1. PICK l \in Loops : handleHeartbeatFailure(l)
    <3> misses \in Nat
      BY DEF Inv, TypeOK
    <3>1. CASE Owner
      BY <3>1 DEF Owner, Start, Stop, ResetFailCount, SetInterval, SetMaxFails
    <3>2. ASSUME NEW w \in Watchers, Watch(w) PROVE FALSE
      BY <3>2 DEF Watch, WatcherReadsStopChan, WatcherStops, ClientConnected, ClientDisconnected
    <3>3. ASSUME NEW l \in Loops, Beat(l), ~handleHeartbeatFailure(l) PROVE FALSE
      BY <3>3 DEF Beat, LoopReadsStopChan, LoopReadsTicker, LoopStops, LoopTicks,
         ClientAnswers, handleHeartbeatSuccess
    <3> QED
      BY <3>1, <3>2, <3>3 DEF Next
  <2>2. failCount + 1 >= maxFails
    BY <2>1, HeartbeatAssumption
       DEF handleHeartbeatFailure, Inv, TypeOK, MissesAreCounted
  <2> QED
    BY <2>1, <2>2 DEF handleHeartbeatFailure, ShutDown
<1> QED
  BY <1>1, Invariance, PTL DEF Spec, GivesUp

-----------------------------------------------------------------------------
\* The loop that finds no ticker (manager.go 248) is always one that outlived
\* its manager's stop: a manager that runs never panics.
PanicIsOfAStop == panicked => ~running

THEOREM RunningNeverPanics == Spec => []PanicIsOfAStop
<1>1. Init => PanicIsOfAStop
  BY DEF Init, PanicIsOfAStop
<1>2. Inv /\ PanicIsOfAStop /\ [Next]_vars => PanicIsOfAStop'
  <2> SUFFICES ASSUME Inv, PanicIsOfAStop, [Next]_vars PROVE PanicIsOfAStop'
    OBVIOUS
  <2>1. CASE UNCHANGED vars
    BY <2>1 DEF vars, control, PanicIsOfAStop
  <2>2. CASE ~panicked /\ UNCHANGED panicked
    BY <2>2 DEF PanicIsOfAStop
  <2>3. ASSUME NEW l \in Loops, LoopReadsTicker(l) PROVE PanicIsOfAStop'
    <3>1. CASE ticker = Nil
      BY <2>3, <3>1 DEF LoopReadsTicker, control, Inv, OneTicker, PanicIsOfAStop
    <3>2. CASE ticker # Nil
      BY <2>3, <3>2 DEF LoopReadsTicker, control, PanicIsOfAStop
    <3> QED
      BY <3>1, <3>2
  <2>4. ASSUME NEW l \in Loops, Beat(l), ~LoopReadsTicker(l) PROVE UNCHANGED panicked
    BY <2>4 DEF Beat, LoopReadsStopChan, LoopStops, LoopTicks, ClientAnswers,
       handleHeartbeatSuccess, handleHeartbeatFailure
  <2>5. ASSUME NEW w \in Watchers, Watch(w) PROVE UNCHANGED panicked
    BY <2>5 DEF Watch, WatcherReadsStopChan, WatcherStops, ClientConnected, ClientDisconnected
  <2>6. ASSUME Owner PROVE UNCHANGED panicked
    BY <2>6 DEF Owner, Start, Stop, ResetFailCount, SetInterval, SetMaxFails
  <2> QED
    BY <2>1, <2>2, <2>3, <2>4, <2>5, <2>6 DEF Next
<1> QED
  BY <1>1, <1>2, Invariance, PTL DEF Spec

-----------------------------------------------------------------------------
\* However often the beats of a manager fail, its interval stays between 85
\* percent of its base pace and the ceiling of the backoff.
THEOREM PaceStaysBounded == Spec => []PaceIsBounded
<1> USE HeartbeatAssumption
<1>1. Init => PaceIsBounded
  BY DEF Init, PaceIsBounded, Larger, Smaller
<1>2. Inv /\ PaceIsBounded /\ [Next]_vars => PaceIsBounded'
  <2> SUFFICES ASSUME Inv, PaceIsBounded, [Next]_vars PROVE PaceIsBounded'
    OBVIOUS
  <2>1. baseInterval \in Nat /\ baseInterval' \in Nat
    <3>1. Inv'
      BY StepInv
    <3> QED
      BY <3>1 DEF Inv, TypeOK
  <2>2. CASE UNCHANGED <<interval, baseInterval>>
    BY <2>2 DEF PaceIsBounded
  <2>3. CASE interval' = baseInterval'
    <3>1. baseInterval' <= Larger(baseInterval', MaxBackoff)
      BY <2>1 DEF Larger
    <3>2. /\ Smaller(baseInterval', MaxBackoff) \in Nat
          /\ Smaller(baseInterval', MaxBackoff) <= baseInterval'
      BY <2>1 DEF Smaller
    <3>3. baseInterval' * 100 + 100 > 85 * Smaller(baseInterval', MaxBackoff)
      BY <2>1, <3>2
    <3> QED
      BY <2>3, <3>1, <3>3 DEF PaceIsBounded
  <2>4. ASSUME NEW j \in Jitters, interval' = Backoff(failCount + 1, j),
               failCount < MaxCount, UNCHANGED baseInterval
        PROVE  PaceIsBounded'
    <3>1. failCount + 1 \in 1..MaxCount
      BY <2>4 DEF Inv, TypeOK
    <3> DEFINE s == Smaller(baseInterval, MaxBackoff)
               i == Backoff(failCount + 1, j)
    <3>2. i \in Nat /\ i <= MaxBackoff /\ i * 100 + 100 > 85 * s
      BY <3>1, BackoffBound DEF Inv
    <3>3. MaxBackoff <= Larger(baseInterval, MaxBackoff)
      BY <2>1 DEF Larger
    <3>4. Larger(baseInterval, MaxBackoff) \in Nat
      BY <2>1 DEF Larger
    <3>5. i <= Larger(baseInterval, MaxBackoff)
      BY <3>2, <3>3, <3>4
    <3> QED
      BY <2>4, <3>2, <3>5 DEF PaceIsBounded
  <2>5. CASE \E l \in Loops : handleHeartbeatFailure(l)
    BY <2>4, <2>5 DEF handleHeartbeatFailure
  <2>6. CASE \E w \in Watchers : ClientDisconnected(w)
    BY <2>4, <2>6 DEF ClientDisconnected, SetPace
  <2>7. CASE \/ \E l \in Loops : handleHeartbeatSuccess(l)
             \/ \E w \in Watchers : ClientConnected(w)
             \/ \E i \in Intervals \cup {0} : SetInterval(i)
    BY <2>3, <2>7 DEF handleHeartbeatSuccess, ClientConnected, SetInterval, SetPace
  <2> QED
    BY <2>2, <2>5, <2>6, <2>7
       DEF Next, Owner, Start, Stop, ResetFailCount, SetMaxFails, Beat, LoopReadsStopChan,
           LoopReadsTicker, LoopStops, LoopTicks, ClientAnswers, Watch,
           WatcherReadsStopChan, WatcherStops, pace, vars
<1> QED
  BY <1>1, <1>2, Invariance, PTL DEF Spec

=============================================================================
