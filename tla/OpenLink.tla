------------------------------ MODULE OpenLink ------------------------------
(***************************************************************************)
(* open_link (mavlink/connection.py): the context manager every command    *)
(* opens its MAVLink link with, and the body of the with statement it      *)
(* serves.  The try of the retry loop encloses the yield, so an exception  *)
(* of the body is thrown into the loop.                                    *)
(***************************************************************************)
EXTENDS Naturals

CONSTANTS
    RetryAttempts, \* config.retry_attempts
    Exclusive,     \* TRUE iff an open endpoint cannot be opened again (a COM port)
    Shutdown       \* TRUE iff a shutdown_event is given and may be set

ASSUME OpenLinkAssumption ==
    /\ RetryAttempts \in Nat \ {0}
    /\ Exclusive \in BOOLEAN /\ Shutdown \in BOOLEAN

VARIABLES
    pc,         \* "top", "open", "heartbeat", "body", "caught", "backoff", "left"
    attempt,
    conn,       \* the connection bound to the local conn: "none", "open", "closed"
    shutdown,   \* the event
    entered,    \* how often the body of the with statement was started
    heard,      \* a heartbeat was received
    thrown,     \* the body raised
    result,     \* how the with statement was left
    presentFrom, aliveFrom \* the attempts from which on the endpoint exists
                           \* and the autopilot is heard

env == <<presentFrom, aliveFrom>>
vars == <<pc, attempt, conn, shutdown, entered, heard, thrown, result, env>>

Init ==
    /\ pc = "top" /\ attempt = 1 /\ conn = "none" /\ shutdown = FALSE
    /\ entered = 0 /\ heard = FALSE /\ thrown = FALSE /\ result = "none"
    /\ presentFrom \in 1 .. RetryAttempts + 1
    /\ aliveFrom \in 1 .. RetryAttempts + 1

Leave(how) == pc' = "left" /\ result' = how

-----------------------------------------------------------------------------
Top ==
    /\ pc = "top"
    /\ IF shutdown THEN Leave("shutdown") ELSE pc' = "open" /\ UNCHANGED result
    /\ UNCHANGED <<attempt, conn, shutdown, entered, heard, thrown, env>>

(* mavlink_connection; the connection of an earlier attempt that heard no  *)
(* heartbeat is still open, since conn is bound to it until this returns.  *)
Openable == attempt >= presentFrom /\ ~(Exclusive /\ conn = "open")

Open ==
    /\ pc = "open"
    /\ IF Openable THEN pc' = "heartbeat" /\ conn' = "open"
                   ELSE pc' = "caught" /\ UNCHANGED conn
    /\ UNCHANGED <<attempt, shutdown, entered, heard, thrown, result, env>>

(* A second yield after a throw makes contextlib raise RuntimeError and    *)
(* close the generator, whose finally closes the connection.               *)
Heartbeat ==
    /\ pc = "heartbeat" /\ attempt >= aliveFrom
    /\ heard' = TRUE
    /\ IF thrown
       THEN Leave("RuntimeError") /\ conn' = "closed" /\ UNCHANGED entered
       ELSE pc' = "body" /\ entered' = entered + 1 /\ UNCHANGED <<result, conn>>
    /\ UNCHANGED <<attempt, shutdown, thrown, env>>

(* A link on which the body failed may have gone silent.                   *)
NoHeartbeat ==
    /\ pc = "heartbeat"
    /\ attempt < aliveFrom \/ thrown
    /\ pc' = "caught"
    /\ UNCHANGED <<attempt, conn, shutdown, entered, heard, thrown, result, env>>

(* Every Exception of the body, typer.Exit among them.                     *)
BodyRaises ==
    /\ pc = "body"
    /\ pc' = "caught" /\ thrown' = TRUE /\ conn' = "closed"
    /\ UNCHANGED <<attempt, shutdown, entered, heard, result, env>>

(* The body ends, or raises what is no Exception (KeyboardInterrupt).      *)
BodyEnds ==
    /\ pc = "body"
    /\ \E how \in {"ok", "interrupted"} : Leave(how)
    /\ conn' = "closed"
    /\ UNCHANGED <<attempt, shutdown, entered, heard, thrown, env>>

(* Mutant of Caught: the last attempt is never made.                       *)
CaughtEarly ==
    /\ pc = "caught"
    /\ IF attempt + 1 < RetryAttempts
       THEN pc' = "backoff" /\ UNCHANGED result ELSE Leave("ConnectionError")
    /\ UNCHANGED <<attempt, conn, shutdown, entered, heard, thrown, env>>

(* Mutant of Caught: one attempt too many.                                 *)
CaughtLate ==
    /\ pc = "caught"
    /\ IF attempt <= RetryAttempts
       THEN pc' = "backoff" /\ UNCHANGED result ELSE Leave("ConnectionError")
    /\ UNCHANGED <<attempt, conn, shutdown, entered, heard, thrown, env>>

Caught ==
    /\ pc = "caught"
    /\ IF attempt < RetryAttempts
       THEN pc' = "backoff" /\ UNCHANGED result ELSE Leave("ConnectionError")
    /\ UNCHANGED <<attempt, conn, shutdown, entered, heard, thrown, env>>

(* Mutant of Backoff: the attempts are not counted.                        *)
BackoffUncounted ==
    /\ pc = "backoff" /\ pc' = "top"
    /\ UNCHANGED <<attempt, conn, shutdown, entered, heard, thrown, result, env>>

(* The wait ends by its time-out, or by the event.                         *)
Backoff ==
    /\ pc = "backoff"
    /\ IF shutdown THEN Leave("shutdown") /\ UNCHANGED attempt
                   ELSE pc' = "top" /\ attempt' = attempt + 1 /\ UNCHANGED result
    /\ UNCHANGED <<conn, shutdown, entered, heard, thrown, env>>

(* The signal handler of the caller.                                       *)
SetShutdown ==
    /\ Shutdown /\ ~shutdown /\ pc # "left"
    /\ shutdown' = TRUE
    /\ UNCHANGED <<pc, attempt, conn, entered, heard, thrown, result, env>>

Left == pc = "left" /\ UNCHANGED vars

Link == Top \/ Open \/ Heartbeat \/ NoHeartbeat \/ Caught \/ Backoff
Next == Link \/ BodyRaises \/ BodyEnds \/ SetShutdown \/ Left

(* Every wait of open_link has a time-out.                                 *)
Spec == Init /\ [][Next]_vars /\ WF_vars(Link)

-----------------------------------------------------------------------------
TypeOK ==
    /\ pc \in {"top", "open", "heartbeat", "body", "caught", "backoff", "left"}
    /\ attempt \in 1 .. RetryAttempts
    /\ conn \in {"none", "open", "closed"}
    /\ shutdown \in BOOLEAN /\ heard \in BOOLEAN /\ thrown \in BOOLEAN
    /\ entered \in 0 .. 1
    /\ result \in {"none", "ok", "interrupted", "ConnectionError", "RuntimeError",
                   "shutdown"}
    /\ presentFrom \in 1 .. RetryAttempts + 1
    /\ aliveFrom \in 1 .. RetryAttempts + 1

(* The autopilot that can be heard in one of the attempts is found, unless *)
(* the shutdown came first: "establishes a connection with retry/backoff"  *)
(* (mavlink/connection.py:3).  The exception is an endpoint that can be    *)
(* open only once: an attempt that hears nothing leaves it open, and every *)
(* later one fails.                                                        *)
RetryFindsAutopilot ==
    pc = "left" /\ result # "shutdown" /\ entered = 0 =>
        \/ presentFrom > RetryAttempts \/ aliveFrom > RetryAttempts
        \/ Exclusive /\ presentFrom < aliveFrom

(* Once the event is set no further attempt is made, not even the first.   *)
NoAttemptAfterShutdown == [][shutdown => pc' # "open" \/ pc = "open"]_vars
=============================================================================
