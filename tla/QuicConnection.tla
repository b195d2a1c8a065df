--------------------------- MODULE QuicConnection ---------------------------
(***************************************************************************)
(* The QUIC connection of pkg/quic/connection.go, dialling side: callers   *)
(* that open or accept streams hold a read lock while they wait for the    *)
(* network, and change to a write lock to record the stream; a keeper      *)
(* connects and closes under the write lock.                               *)
(*                                                                         *)
(* q.mu is a RWMutex: a writer that waits keeps new readers out, and has   *)
(* the lock when the last reader is gone.  Who holds a read lock shows     *)
(* from where it is.                                                       *)
(*                                                                         *)
(* A definition named Faulty... is the one after it with a plausible bug;  *)
(* no action uses it, and each breaks one property below.                  *)
(***************************************************************************)
CONSTANTS
  Callers, Keeper,       \* goroutines
  Conns, NoConn, NoWriter

ASSUME QuicAssumption ==
  /\ Keeper \notin Callers
  /\ NoConn \notin Conns /\ NoWriter \notin Callers \cup {Keeper}

VARIABLES
  conn,                  \* q.conn
  used,                  \* the connections that have been dialled
  streams,               \* q.streams: the connection of each caller's stream
  callerAt, callerConn,  \* where each caller is, and the connection it has checked
  keeperAt,
  qWriter,               \* who has asked for the write lock
  quicMonitor            \* monitorConnection goroutines run, one for each connection

quicVars == <<conn, used, streams, callerAt, callerConn, keeperAt, qWriter, quicMonitor>>

Readers == {c \in Callers : callerAt[c] \in {"waiting", "opened"}}
MayRead == qWriter = NoWriter
Writes(p) == qWriter = p /\ Readers = {}

QuicInit ==
  /\ conn = NoConn /\ used = {}
  /\ streams = [c \in Callers |-> NoConn]
  /\ callerAt = [c \in Callers |-> "idle"] /\ callerConn = [c \in Callers |-> NoConn]
  /\ keeperAt = "idle" /\ qWriter = NoWriter
  /\ quicMonitor = FALSE

CallerGoes(c, stage) == callerAt' = [callerAt EXCEPT ![c] = stage]

-----------------------------------------------------------------------------
(* CreateStream and AcceptStream. *)

\* Without a connection the call fails at once.
StreamBegins(c) ==
  /\ callerAt[c] = "idle" /\ MayRead /\ conn # NoConn
  /\ callerConn' = [callerConn EXCEPT ![c] = conn]
  /\ CallerGoes(c, "waiting")
  /\ UNCHANGED <<conn, used, streams, keeperAt, qWriter, quicMonitor>>

\* The call's context ends, or the connection breaks.
StreamFails(c) ==
  /\ callerAt[c] = "waiting"
  /\ CallerGoes(c, "idle")
  /\ UNCHANGED <<conn, used, streams, callerConn, keeperAt, qWriter, quicMonitor>>

StreamOpens(c) ==
  /\ callerAt[c] = "waiting"
  /\ CallerGoes(c, "opened")
  /\ UNCHANGED <<conn, used, streams, callerConn, keeperAt, qWriter, quicMonitor>>

\* Asks for the write lock with the read lock in hand.
FaultyStreamUnlocks(c) ==
  /\ callerAt[c] = "opened" /\ qWriter = NoWriter
  /\ qWriter' = c
  /\ UNCHANGED <<conn, used, streams, callerAt, callerConn, keeperAt, quicMonitor>>

StreamUnlocks(c) ==
  /\ callerAt[c] = "opened"
  /\ CallerGoes(c, "unlocked")
  /\ UNCHANGED <<conn, used, streams, callerConn, keeperAt, qWriter, quicMonitor>>

StreamAsksToWrite(c) ==
  /\ callerAt[c] = "unlocked" /\ qWriter = NoWriter
  /\ qWriter' = c
  /\ CallerGoes(c, "storing")
  /\ UNCHANGED <<conn, used, streams, callerConn, keeperAt, quicMonitor>>

\* The connection is not looked at again: it may have been closed meanwhile.
StreamStored(c) ==
  /\ callerAt[c] = "storing" /\ Writes(c)
  /\ streams' = [streams EXCEPT ![c] = callerConn[c]]
  /\ qWriter' = NoWriter
  /\ CallerGoes(c, "stored")
  /\ UNCHANGED <<conn, used, callerConn, keeperAt, quicMonitor>>

\* The read lock is taken once more, for the deferred unlock to release.
StreamReturns(c) ==
  /\ callerAt[c] = "stored" /\ MayRead
  /\ CallerGoes(c, "idle")
  /\ UNCHANGED <<conn, used, streams, callerConn, keeperAt, qWriter, quicMonitor>>

\* CloseStream.
StreamCloses(c) ==
  /\ callerAt[c] = "idle" /\ qWriter = NoWriter /\ Readers = {}
  /\ streams[c] # NoConn
  /\ streams' = [streams EXCEPT ![c] = NoConn]
  /\ UNCHANGED <<conn, used, callerAt, callerConn, keeperAt, qWriter, quicMonitor>>

-----------------------------------------------------------------------------
(* Connect and Close, and the goroutine that watches the connection. *)

KeeperAsks(stage) ==
  /\ keeperAt = "idle" /\ qWriter = NoWriter
  /\ qWriter' = Keeper
  /\ keeperAt' = stage
  /\ UNCHANGED <<conn, used, streams, callerAt, callerConn, quicMonitor>>

KeeperReturns == keeperAt' = "idle" /\ qWriter' = NoWriter

\* An earlier connection is forgotten, not closed, and its streams stay in the map.
Connected(k) ==
  /\ keeperAt = "dialing" /\ Writes(Keeper) /\ k \in Conns \ used
  /\ conn' = k /\ used' = used \cup {k}
  /\ quicMonitor' = TRUE
  /\ KeeperReturns
  /\ UNCHANGED <<streams, callerAt, callerConn>>

DialFails ==
  /\ keeperAt = "dialing" /\ Writes(Keeper)
  /\ KeeperReturns
  /\ UNCHANGED <<conn, used, streams, callerAt, callerConn, quicMonitor>>

\* Closes while callers wait on the connection.
FaultyClosed ==
  /\ keeperAt = "closing" /\ qWriter = Keeper
  /\ conn' = NoConn
  /\ streams' = [c \in Callers |-> NoConn]
  /\ KeeperReturns
  /\ UNCHANGED <<used, callerAt, callerConn, quicMonitor>>

Closed ==
  /\ keeperAt = "closing" /\ Writes(Keeper)
  /\ conn' = NoConn
  /\ streams' = IF conn = NoConn THEN streams ELSE [c \in Callers |-> NoConn]
  /\ KeeperReturns
  /\ UNCHANGED <<used, callerAt, callerConn, quicMonitor>>

\* Each ends with its first tick that finds no connection.
MonitorEnds ==
  /\ quicMonitor /\ MayRead /\ conn = NoConn
  /\ quicMonitor' = FALSE
  /\ UNCHANGED <<conn, used, streams, callerAt, callerConn, keeperAt, qWriter>>

-----------------------------------------------------------------------------
CallerStep(c) ==
  \/ StreamFails(c) \/ StreamOpens(c) \/ StreamUnlocks(c)
  \/ StreamAsksToWrite(c) \/ StreamStored(c) \/ StreamReturns(c)

KeeperStep == (\E k \in Conns : Connected(k)) \/ DialFails \/ Closed

QuicNext ==
  \/ \E c \in Callers : StreamBegins(c) \/ CallerStep(c) \/ StreamCloses(c)
  \/ KeeperAsks("dialing") \/ KeeperAsks("closing") \/ KeeperStep
  \/ MonitorEnds

\* Dials and stream calls have contexts that end; a goroutine that waits for
\* the mutex is woken in the end.
QuicFairness ==
  /\ \A c \in Callers : SF_quicVars(CallerStep(c))
  /\ WF_quicVars(KeeperStep)

QuicSpec == QuicInit /\ [][QuicNext]_quicVars /\ QuicFairness

-----------------------------------------------------------------------------
(* Properties. *)

\* What the connection and its callers may hold.
QuicTypeOK ==
  /\ conn \in Conns \cup {NoConn} /\ used \in SUBSET Conns
  /\ streams \in [Callers -> Conns \cup {NoConn}]
  /\ callerAt \in [Callers -> {"idle", "waiting", "opened", "unlocked", "storing", "stored"}]
  /\ callerConn \in [Callers -> Conns \cup {NoConn}]
  /\ keeperAt \in {"idle", "dialing", "closing"}
  /\ qWriter \in Callers \cup {Keeper, NoWriter}
  /\ quicMonitor \in BOOLEAN

\* Checking the connection and waiting on it are one: no close, and no second
\* connection, comes between, however long the network takes.
WaitsOnLiveConnection ==
  \A c \in Callers : callerAt[c] \in {"waiting", "opened"} => conn = callerConn[c]

\* Close gets the lock although callers take it over and over, and although
\* each needs it twice more to get out.
CloseReturns == keeperAt = "closing" ~> keeperAt = "idle"

=============================================================================
