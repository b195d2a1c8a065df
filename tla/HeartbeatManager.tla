-------------------------- MODULE HeartbeatManager --------------------------
(***************************************************************************)
(* The heartbeat manager of pkg/heartbeat/manager.go: its lifecycle, its   *)
(* backoff, and the two goroutines each Start spawns, one that beats and   *)
(* one that follows the client's state events.                             *)
(*                                                                         *)
(* Every critical section of Manager.mu is one action.  The goroutines     *)
(* read m.stopChan and m.ticker outside the mutex, so each read is a step  *)
(* of its own.  Time is counted in hundredths of a second.                 *)
(*                                                                         *)
(* A definition named Faulty... is the one after it with a plausible bug;  *)
(* no action uses it, and each breaks one property below.                  *)
(***************************************************************************)
EXTENDS Naturals

CONSTANTS
  Loops, Watchers,       \* identities for heartbeatLoop and stateEventLoop goroutines
  Tickers, Chans,        \* identities for tickers and stop channels
  Nil,
  Intervals,             \* the intervals SetInterval is called with, and 0
  MaxBackoff, Second,
  Jitters,               \* the jitter, in percent of the interval
  FailLimits,            \* the limits SetMaxFails is called with, and 0
  MaxCount               \* bound: failCount is not driven above it

ASSUME HeartbeatAssumption ==
  /\ Intervals \subseteq Nat \ {0} /\ Intervals # {}
  /\ FailLimits \subseteq Nat \ {0} /\ FailLimits # {}
  /\ MaxBackoff \in Nat /\ Second \in Nat /\ Second <= MaxBackoff
  /\ Jitters \subseteq 85..115 /\ Jitters # {}
  /\ MaxCount \in Nat
  /\ Nil \notin Tickers /\ Nil \notin Chans

\* Arithmetic that the provers do not know.
ASSUME PowersOfTwo == \A n \in 0..MaxCount : 2^n \in Nat \ {0}

VARIABLES
  running, ticker, stopChan,       \* Manager.running, .ticker, .stopChan
  failCount, maxFails,             \* Manager.failCount, .maxFails
  interval, baseInterval,          \* Manager.interval, .baseInterval
  ticking,                         \* the tickers that have not been stopped
  closed,                          \* the stop channels that have been closed
  loop,                            \* each heartbeatLoop: where it is, what it selects on
  watcher,                         \* each stateEventLoop: the same
  panicked,                        \* a goroutine has dereferenced a nil ticker
  misses                           \* history: failed beats in a row

control == <<running, ticker, stopChan, ticking, closed>>
pace == <<failCount, maxFails, interval, baseInterval>>
vars == <<control, pace, loop, watcher, panicked, misses>>

LoopStates == [at : {"idle", "top", "arming", "waiting", "beating", "good", "bad"},
               chan : Chans \cup {Nil}, tick : Tickers \cup {Nil}]
WatcherStates == [at : {"idle", "top", "waiting"}, chan : Chans \cup {Nil}]
Idle == [at |-> "idle", chan |-> Nil, tick |-> Nil]
IdleWatcher == [at |-> "idle", chan |-> Nil]

-----------------------------------------------------------------------------
(* Tickers, channels and the backoff. *)

FreshTickers == {t \in Tickers : t # ticker /\ t \notin ticking /\ \A l \in Loops : loop[l].tick # t}

FreshChans ==
  {c \in Chans : /\ c # stopChan
                 /\ \A l \in Loops : loop[l].chan # c
                 /\ \A w \in Watchers : watcher[w].chan # c}

\* Identities are taken in some fixed order: which one is new does not matter.
New(fresh) == {CHOOSE x \in fresh : TRUE} \cap fresh

\* Replaces the ticker of a manager that has one without stopping it.
FaultyRetick ==
  IF ticker = Nil
  THEN UNCHANGED <<ticker, ticking>>
  ELSE \E t \in New(FreshTickers) :
         /\ ticker' = t
         /\ ticking' = ticking \cup {t}

\* A manager that has a ticker stops it and makes another.
Retick ==
  IF ticker = Nil
  THEN UNCHANGED <<ticker, ticking>>
  ELSE \E t \in New(FreshTickers) :
         /\ ticker' = t
         /\ ticking' = (ticking \ {ticker}) \cup {t}

\* The manager's pace becomes i; a changed pace needs another ticker.
SetPace(i) ==
  /\ interval' = i
  /\ IF i # interval THEN Retick ELSE UNCHANGED <<ticker, ticking>>

Smaller(a, b) == IF a < b THEN a ELSE b
Larger(a, b) == IF a > b THEN a ELSE b

Doubled(n) == IF n <= 1 THEN baseInterval ELSE Smaller(baseInterval * 2^(n - 1), MaxBackoff)

\* Keeps the floor and loses the ceiling.
FaultyBackoff(n, jitter) == Larger((Doubled(n) * jitter) \div 100, Second)

\* The next interval after n failures in a row, clamped to [Second, MaxBackoff].
Backoff(n, jitter) ==
  Smaller(Larger((Doubled(n) * jitter) \div 100, Second), MaxBackoff)

-----------------------------------------------------------------------------
Init ==
  /\ running = FALSE /\ ticker = Nil /\ stopChan = Nil
  /\ ticking = {} /\ closed = {}
  /\ failCount = 0 /\ maxFails \in FailLimits
  /\ baseInterval \in Intervals /\ interval = baseInterval
  /\ loop = [l \in Loops |-> Idle]
  /\ watcher = [w \in Watchers |-> IdleWatcher]
  /\ panicked = FALSE
  /\ misses = 0

(* What the owner of the manager calls. *)

Start(l, w) ==
  /\ ~running
  /\ loop[l].at = "idle" /\ watcher[w].at = "idle"
  /\ \E c \in New(FreshChans) :
       /\ stopChan' = c
       /\ closed' = closed \ {c}
  /\ \E t \in New(FreshTickers) :
       /\ ticker' = t
       /\ ticking' = ticking \cup {t}
  /\ failCount' = 0 /\ misses' = 0
  /\ running' = TRUE
  /\ loop' = [loop EXCEPT ![l] = [Idle EXCEPT !.at = "top"]]
  /\ watcher' = [watcher EXCEPT ![w] = [IdleWatcher EXCEPT !.at = "top"]]
  /\ UNCHANGED <<maxFails, interval, baseInterval, panicked>>

\* What Stop and the last straw of a failing manager do.
ShutDown ==
  /\ running' = FALSE
  /\ ticker' = Nil
  /\ ticking' = ticking \ {ticker}
  /\ closed' = IF stopChan = Nil THEN closed ELSE closed \cup {stopChan}
  /\ stopChan' = Nil

Stop ==
  /\ running
  /\ ShutDown
  /\ UNCHANGED <<pace, loop, watcher, panicked, misses>>

SetInterval(i) ==
  /\ i > 0
  /\ baseInterval' = i
  /\ interval' = i
  /\ Retick
  /\ UNCHANGED <<running, stopChan, closed, failCount, maxFails, loop, watcher, panicked, misses>>

SetMaxFails(n) ==
  /\ n > 0
  /\ maxFails' = n
  /\ UNCHANGED <<control, failCount, interval, baseInterval, loop, watcher, panicked, misses>>

ResetFailCount ==
  /\ failCount' = 0 /\ misses' = 0
  /\ UNCHANGED <<control, maxFails, interval, baseInterval, loop, watcher, panicked>>

-----------------------------------------------------------------------------
(* heartbeatLoop.  Its select evaluates m.stopChan, then m.ticker.C, and   *)
(* keeps waiting on the two channels it found.                             *)

LoopReadsStopChan(l) ==
  /\ loop[l].at = "top"
  /\ loop' = [loop EXCEPT ![l] = [at |-> "arming", chan |-> stopChan, tick |-> Nil]]
  /\ UNCHANGED <<control, pace, watcher, panicked, misses>>

LoopReadsTicker(l) ==
  /\ loop[l].at = "arming"
  /\ IF ticker = Nil
     THEN panicked' = TRUE /\ UNCHANGED loop
     ELSE /\ loop' = [loop EXCEPT ![l].at = "waiting", ![l].tick = ticker]
          /\ UNCHANGED panicked
  /\ UNCHANGED <<control, pace, watcher, misses>>

LoopStops(l) ==
  /\ loop[l].at = "waiting" /\ loop[l].chan \in closed
  /\ loop' = [loop EXCEPT ![l] = Idle]
  /\ UNCHANGED <<control, pace, watcher, panicked, misses>>

LoopTicks(l) ==
  /\ loop[l].at = "waiting" /\ loop[l].tick \in ticking
  /\ loop' = [loop EXCEPT ![l] = [Idle EXCEPT !.at = "beating"]]
  /\ UNCHANGED <<control, pace, watcher, panicked, misses>>

\* sendHeartbeat: the client is not connected, the relay refuses, or it answers.
ClientAnswers(l, outcome) ==
  /\ loop[l].at = "beating" /\ outcome \in {"good", "bad"}
  /\ loop' = [loop EXCEPT ![l].at = outcome]
  /\ UNCHANGED <<control, pace, watcher, panicked, misses>>

handleHeartbeatSuccess(l) ==
  /\ loop[l].at = "good"
  /\ failCount' = 0 /\ misses' = 0
  /\ SetPace(baseInterval)
  /\ loop' = [loop EXCEPT ![l].at = "top"]
  /\ UNCHANGED <<running, stopChan, closed, maxFails, baseInterval, watcher, panicked>>

\* Gives up one failure late.
FaultyHandleHeartbeatFailure(l) ==
  /\ loop[l].at = "bad" /\ failCount < MaxCount
  /\ failCount' = failCount + 1 /\ misses' = misses + 1
  /\ \E j \in Jitters : interval' = Backoff(failCount + 1, j)
  /\ IF failCount >= maxFails
     THEN ShutDown
     ELSE /\ IF interval' # interval THEN Retick ELSE UNCHANGED <<ticker, ticking>>
          /\ UNCHANGED <<running, stopChan, closed>>
  /\ loop' = [loop EXCEPT ![l].at = "top"]
  /\ UNCHANGED <<maxFails, baseInterval, watcher, panicked>>

\* The ticker that the backoff installs is stopped again when the manager
\* gives up, so only one of the two is seen.
handleHeartbeatFailure(l) ==
  /\ loop[l].at = "bad" /\ failCount < MaxCount
  /\ failCount' = failCount + 1 /\ misses' = misses + 1
  /\ \E j \in Jitters : interval' = Backoff(failCount + 1, j)
  /\ IF failCount + 1 >= maxFails
     THEN ShutDown
     ELSE /\ IF interval' # interval THEN Retick ELSE UNCHANGED <<ticker, ticking>>
          /\ UNCHANGED <<running, stopChan, closed>>
  /\ loop' = [loop EXCEPT ![l].at = "top"]
  /\ UNCHANGED <<maxFails, baseInterval, watcher, panicked>>

(* stateEventLoop. *)

WatcherReadsStopChan(w) ==
  /\ watcher[w].at = "top"
  /\ watcher' = [watcher EXCEPT ![w] = [at |-> "waiting", chan |-> stopChan]]
  /\ UNCHANGED <<control, pace, loop, panicked, misses>>

WatcherStops(w) ==
  /\ watcher[w].at = "waiting" /\ watcher[w].chan \in closed
  /\ watcher' = [watcher EXCEPT ![w] = IdleWatcher]
  /\ UNCHANGED <<control, pace, loop, panicked, misses>>

ClientConnected(w) ==
  /\ watcher[w].at = "waiting"
  /\ failCount' = 0 /\ misses' = 0
  /\ SetPace(baseInterval)
  /\ watcher' = [watcher EXCEPT ![w] = [IdleWatcher EXCEPT !.at = "top"]]
  /\ UNCHANGED <<running, stopChan, closed, maxFails, baseInterval, loop, panicked>>

\* "disconnected" and "reconnecting" count as failures but never as the last.
ClientDisconnected(w) ==
  /\ watcher[w].at = "waiting" /\ failCount < MaxCount
  /\ failCount' = failCount + 1
  /\ \E j \in Jitters : SetPace(Backoff(failCount + 1, j))
  /\ watcher' = [watcher EXCEPT ![w] = [IdleWatcher EXCEPT !.at = "top"]]
  /\ UNCHANGED <<running, stopChan, closed, maxFails, baseInterval, loop, panicked, misses>>

-----------------------------------------------------------------------------
Owner ==
  \/ \E l \in Loops, w \in Watchers : Start(l, w)
  \/ Stop \/ ResetFailCount
  \/ \E i \in Intervals \cup {0} : SetInterval(i)
  \/ \E n \in FailLimits \cup {0} : SetMaxFails(n)

Beat(l) ==
  \/ LoopReadsStopChan(l) \/ LoopReadsTicker(l) \/ LoopStops(l) \/ LoopTicks(l)
  \/ \E outcome \in {"good", "bad"} : ClientAnswers(l, outcome)
  \/ handleHeartbeatSuccess(l) \/ handleHeartbeatFailure(l)

Watch(w) ==
  \/ WatcherReadsStopChan(w) \/ WatcherStops(w)
  \/ ClientConnected(w) \/ ClientDisconnected(w)

\* A panic ends the process.
Next ==
  /\ ~panicked
  /\ \/ Owner
     \/ \E l \in Loops : Beat(l)
     \/ \E w \in Watchers : Watch(w)

Spec == Init /\ [][Next]_vars

-----------------------------------------------------------------------------
(* Properties. *)

\* What the manager's fields and its goroutines may hold.
TypeOK ==
  /\ running \in BOOLEAN /\ panicked \in BOOLEAN
  /\ ticker \in Tickers \cup {Nil} /\ ticking \in SUBSET Tickers
  /\ stopChan \in Chans \cup {Nil} /\ closed \in SUBSET Chans
  /\ failCount \in Nat /\ misses \in Nat /\ maxFails \in FailLimits
  /\ interval \in Nat /\ baseInterval \in Intervals
  /\ loop \in [Loops -> LoopStates]
  /\ watcher \in [Watchers -> WatcherStates]

\* Five places replace or drop the ticker: none leaves one ticking that the
\* manager cannot stop any more, and a running manager has one and a way out.
OneTicker ==
  /\ ticking = IF running THEN {ticker} ELSE {}
  /\ running <=> ticker # Nil
  /\ running <=> stopChan # Nil
  /\ stopChan \notin closed

\* No goroutine, whichever Start it came from, begins a beat when the manager
\* is stopped.
QuietWhenStopped ==
  [][\A l \in Loops : loop[l].at # "beating" /\ loop'[l].at = "beating" => running]_vars

\* The limit counts beats that failed in a row, and is not missed although
\* state events, resets and other loops write the same counter.
GivesUp == [][misses' > misses /\ misses' >= maxFails => ~running']_vars

\* The backoff never speeds up a manager whose beats fail by more than the
\* jitter, nor slows it down beyond its ceiling.
PaceIsBounded ==
  /\ interval <= Larger(baseInterval, MaxBackoff)
  /\ interval * 100 + 100 > 85 * Smaller(baseInterval, MaxBackoff)

\* "too many heartbeat failures, stopping" (manager.go:303), and Stop "signals
\* the goroutine" (manager.go:134): a manager that stops leaves its goroutines
\* an orderly way out.
StopsCleanly == ~panicked

=============================================================================
