---------------------------- MODULE ClientPromise ----------------------------
(***************************************************************************)
(* The relay client as a caller of its API may picture it: a client that   *)
(* serves one request at a time, each on a connection and under the login  *)
(* that it began with, and that a Close ends for good.  The goroutines,    *)
(* the mutex and the steps of a call are not visible here.                 *)
(***************************************************************************)
CONSTANTS
  Callers,                     \* who may have a request
  Logins,                      \* who the client may be logged in as
  Nobody                       \* before the first login

VARIABLES
  up,                          \* the client is connected
  ended,                       \* it was closed when it was connected
  who,                         \* its current login
  serving                      \* the request on its way: <<caller, login it names>>

vars == <<up, ended, who, serving>>

Init == up = FALSE /\ ended = FALSE /\ who = Nobody /\ serving = {}

Connect == ~up /\ ~ended /\ up' = TRUE /\ UNCHANGED <<ended, who, serving>>

Request ==
  /\ up /\ serving = {}
  /\ \E c \in Callers : serving' = {<<c, who>>}
  /\ UNCHANGED <<up, ended, who>>

Answer == serving' = {} /\ UNCHANGED <<up, ended, who>>

\* Only a client that serves nobody is taken down, closed or logged in.
Disconnect == serving = {} /\ up' = FALSE /\ UNCHANGED <<ended, who, serving>>

Close == serving = {} /\ up' = FALSE /\ ended' = (ended \/ up) /\ UNCHANGED <<who, serving>>

Login == serving = {} /\ who' \in Logins /\ UNCHANGED <<up, ended, serving>>

Next == Connect \/ Request \/ Answer \/ Disconnect \/ Close \/ Login

Spec == Init /\ [][Next]_vars

\* What a caller may rely on: whoever is served is served alone, by a client that is up
\* and logged in as the request says, and a client that ended is not up again.
ServedAlone ==
  /\ \A s \in serving : serving = {s} /\ up /\ s[2] = who
  /\ up => ~ended

=============================================================================
