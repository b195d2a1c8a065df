---------------------------- MODULE ConfigReload ----------------------------
(***************************************************************************)
(* Hot reload: the watcher of pkg/config/watcher.go and the client it      *)
(* tells.  A write to the file arms a timer of 500 ms, once more with      *)
(* every write; the timer's goroutine reads the file outside the mutex,    *)
(* swaps the configuration under it, and calls the client outside it       *)
(* again, where it waits for Client.mu as long as a request takes.  A      *)
(* forced reload does the same at any time.                                *)
(*                                                                         *)
(* Reading and swapping take less than the 500 ms: the timer does not      *)
(* fire while a reload that was reading when it was armed has not swapped. *)
(* What the client does with a change is module RelayClient's; here it     *)
(* keeps the configuration.                                                *)
(*                                                                         *)
(* A definition named Faulty... is the one after it with a plausible bug;  *)
(* no action uses it, and each breaks one property below.                  *)
(***************************************************************************)
EXTENDS Naturals

CONSTANTS
  Reloads,               \* the goroutines that may be reloading at a time (a bound)
  Configs,               \* configurations that the file may hold
  Missing, Unreadable    \* a setting that is not there, and a file that does not parse

\* Of a configuration: the settings of the connection and the credentials,
\* which the watcher compares, and the CA certificate, which it does not.
ASSUME ReloadAssumption ==
  /\ Configs # {} /\ \A c \in Configs : DOMAIN c = {"relay", "secret", "ca"}
  /\ Unreadable \notin Configs

VARIABLES
  file, fileEvent,       \* the file, and an event about it that is not handled yet
  watching,              \* the loop runs: Stop was not called
  armed, early,          \* the timer, and the reloads that read when it was armed
  current,               \* ConfigWatcher.currentConfig
  reloadAt, new,         \* where each reload is, and the configuration it has read
  clientConfig,          \* Client.config
  crossed                \* history: two reloads had the client to call at the same time

reloads == <<reloadAt, new>>
timer == <<armed, early>>
told == <<clientConfig, crossed>>
reloadVars == <<file, fileEvent, watching, timer, current, reloads, told>>

\* validateConfig wants the relay's address and what the authentication needs.
Valid(c) == c.relay # Missing /\ c.secret # Missing

ReloadInit ==
  /\ file \in {c \in Configs : Valid(c)} /\ fileEvent = FALSE
  /\ watching = TRUE /\ armed = FALSE /\ early = {}
  /\ current = file /\ clientConfig = file /\ crossed = FALSE
  /\ reloadAt = [r \in Reloads |-> "idle"]
  /\ new = [r \in Reloads |-> Unreadable]

ReloadGoes(r, stage) == reloadAt' = [reloadAt EXCEPT ![r] = stage]
ReloadEnds(r) == ReloadGoes(r, "idle") /\ new' = [new EXCEPT ![r] = Unreadable]

-----------------------------------------------------------------------------
\* An editor may leave the file unreadable or incomplete in between.
FileWritten(c) ==
  /\ c # file /\ file' = c
  /\ fileEvent' = watching
  /\ UNCHANGED <<watching, timer, current, reloads, told>>

Unswapped == {r \in Reloads : reloadAt[r] \in {"load", "swap"}}

\* Ignores a write while a reload is on, as if that would see it.
FaultyHandleFileEvent ==
  /\ fileEvent
  /\ fileEvent' = FALSE
  /\ armed' = (armed \/ Unswapped = {}) /\ early' = Unswapped
  /\ UNCHANGED <<file, watching, current, reloads, told>>

\* The loop may take an event that waits although the watcher has been stopped.
HandleFileEvent ==
  /\ fileEvent
  /\ fileEvent' = FALSE
  /\ armed' = TRUE /\ early' = Unswapped
  /\ UNCHANGED <<file, watching, current, reloads, told>>

TimerFires(r) ==
  /\ armed /\ early = {} /\ reloadAt[r] = "idle"
  /\ armed' = FALSE
  /\ ReloadGoes(r, "load")
  /\ UNCHANGED <<file, fileEvent, watching, early, current, new, told>>

ForceReload(r) ==
  /\ reloadAt[r] = "idle"
  /\ ReloadGoes(r, "load")
  /\ UNCHANGED <<file, fileEvent, watching, timer, current, new, told>>

-----------------------------------------------------------------------------
(* reloadConfig. *)

\* config.LoadConfig: the file is there, parses, and is valid.
Loads(c) == c # Unreadable /\ Valid(c)

LoadConfig(r) ==
  /\ reloadAt[r] = "load"
  /\ IF ~Loads(file)
     THEN ReloadGoes(r, "idle") /\ early' = early \ {r} /\ UNCHANGED new
     ELSE ReloadGoes(r, "swap") /\ new' = [new EXCEPT ![r] = file] /\ UNCHANGED early
  /\ UNCHANGED <<file, fileEvent, watching, armed, current, told>>

\* Does not compare the credentials either.
FaultyDetectChanges(c, d) == {f \in {"relay"} : c[f] # d[f]}

DetectChanges(c, d) == {f \in {"relay", "secret"} : c[f] # d[f]}

SwapConfig(r) ==
  /\ reloadAt[r] = "swap"
  /\ current' = new[r]
  /\ early' = early \ {r}
  /\ IF DetectChanges(current, new[r]) = {}
     THEN ReloadEnds(r) /\ UNCHANGED crossed
     ELSE /\ ReloadGoes(r, "call") /\ UNCHANGED new
          /\ crossed' = \E s \in Reloads : reloadAt[s] = "call"
  /\ UNCHANGED <<file, fileEvent, watching, armed, clientConfig>>

\* handleConfigChange, once it has Client.mu.
CallClient(r) ==
  /\ reloadAt[r] = "call"
  /\ clientConfig' = new[r]
  /\ ReloadEnds(r)
  /\ UNCHANGED <<file, fileEvent, watching, timer, current, crossed>>

\* Stops the timer, but neither a reload that runs nor the event in the loop's hands.
StopWatching ==
  /\ watching
  /\ watching' = FALSE
  /\ armed' = FALSE /\ early' = {}
  /\ UNCHANGED <<file, fileEvent, current, reloads, told>>

-----------------------------------------------------------------------------
ReloadStep(r) == LoadConfig(r) \/ SwapConfig(r) \/ CallClient(r)

ReloadNext ==
  \/ \E c \in Configs \cup {Unreadable} : FileWritten(c)
  \/ HandleFileEvent
  \/ \E r \in Reloads : TimerFires(r) \/ ForceReload(r) \/ ReloadStep(r)
  \/ StopWatching

\* The loop, the timer and the goroutines run; nobody has to force a reload.
ReloadFairness ==
  /\ WF_reloadVars(HandleFileEvent)
  /\ SF_reloadVars(\E r \in Reloads : TimerFires(r))
  /\ \A r \in Reloads : WF_reloadVars(ReloadStep(r))

ReloadSpec == ReloadInit /\ [][ReloadNext]_reloadVars /\ ReloadFairness

-----------------------------------------------------------------------------
(* Properties. *)

\* What the watcher, its reloads and the client may hold.
ReloadTypeOK ==
  /\ file \in Configs \cup {Unreadable} /\ fileEvent \in BOOLEAN
  /\ watching \in BOOLEAN /\ crossed \in BOOLEAN /\ armed \in BOOLEAN /\ early \in SUBSET Reloads
  /\ current \in Configs /\ clientConfig \in Configs
  /\ reloadAt \in [Reloads -> {"idle", "load", "swap", "call"}]
  /\ new \in [Reloads -> Configs \cup {Unreadable}]

Settles == <>[][\A c \in Configs \cup {Unreadable} : ~FileWritten(c)]_reloadVars

\* The last write is the one that counts: however writes, timers and forced
\* reloads overlap, the watcher ends with what the file ends with, if it can be
\* read at all, unless it is stopped first.
LastWriteWins ==
  Settles => <>[](~Loads(file) \/ current = file) \/ <>~watching

Behind == Loads(file) /\ current # file

\* What a write sets going is never lost: a watcher that is behind the file has the
\* event, the timer or a reload of what the file holds now still to come, though
\* reloads that have read something older swap it in meanwhile.
BehindIsPending ==
  watching /\ Behind =>
    \/ fileEvent \/ armed
    \/ \E r \in Reloads : reloadAt[r] = "load" \/ (reloadAt[r] = "swap" /\ new[r] = file)

\* The client is behind the watcher only in what the watcher does not compare,
\* while a reload has it to call, or after two called it in the wrong order:
\* not for reloads that overlap before they call, nor for one that finds no
\* change between two that do.
ClientFollows ==
  \/ \E r \in Reloads : reloadAt[r] = "call"
  \/ crossed
  \/ clientConfig.relay = current.relay /\ clientConfig.secret = current.secret

=============================================================================
