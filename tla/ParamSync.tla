------------------------------ MODULE ParamSync ------------------------------
(***************************************************************************)
(* sync_params (pixhawk/sync.py): the parameters of the shipped profiles   *)
(* are compared with what the autopilot reports and the drifted ones are   *)
(* set, over a link that loses messages (fetch_params and apply_params of  *)
(* params/mav.py, diff_params of params/diff.py).  A value of a profile    *)
(* parameter is "old" or the desired "new".                                *)
(***************************************************************************)
EXTENDS Naturals, Sequences, FiniteSets

CONSTANTS
    Profile,    \* the parameters of the profiles
    ReadOnly,   \* those the autopilot does not change
    MaxRetries, \* max_retries of apply_params
    MaxLosses   \* bound: lost and late messages, and failures of the link

ASSUME ParamSyncAssumption ==
    /\ Profile # {} /\ ReadOnly \subseteq Profile /\ IsFiniteSet(Profile)
    /\ MaxRetries \in Nat \ {0} /\ MaxLosses \in Nat

VARIABLES
    fc,        \* the autopilot: parameter -> "absent", "old", "new"
    stream,    \* parameters it has still to report
    rx,        \* PARAM_VALUE messages on their way to the client
    pc,        \* "request", "fetch", "diff", "set", "echo", "done"
    collected, \* what fetch_params has: parameter -> "none", "old", "new"
    todo,      \* parameters apply_params has still to set
    name, attempt, \* the parameter that is set, and how often it was
    applied, failures,
    result,    \* "none", "current", "ok", "errors"
    losses

vars == <<fc, stream, rx, pc, collected, todo, name, attempt, applied, failures,
          result, losses>>
link == <<fc, stream, rx, losses>>
apply == <<todo, name, attempt, applied, failures>>

Init ==
    /\ fc \in [Profile -> {"absent", "old", "new"}]
    /\ stream = {} /\ rx = <<>>
    /\ pc = "request"
    /\ collected = [p \in Profile |-> "none"]
    /\ todo = {} /\ name = (CHOOSE p \in Profile : TRUE) /\ attempt = 0
    /\ applied = {} /\ failures = {}
    /\ result = "none" /\ losses = 0

OnFirmware == {p \in Profile : fc[p] # "absent"}
Lose == losses < MaxLosses /\ losses' = losses + 1

-----------------------------------------------------------------------------
(* The autopilot reports the parameters of a list request one by one.      *)
Report ==
    \E p \in stream :
        /\ stream' = stream \ {p}
        /\ \/ rx' = Append(rx, [name |-> p, value |-> fc[p]]) /\ UNCHANGED losses
           \/ Lose /\ UNCHANGED rx
        /\ UNCHANGED <<fc, pc, collected, apply, result>>

-----------------------------------------------------------------------------
(* fetch_params: PARAM_REQUEST_LIST.                                       *)
Request ==
    /\ pc = "request" /\ pc' = "fetch"
    /\ \/ stream' = OnFirmware /\ UNCHANGED losses
       \/ Lose /\ UNCHANGED stream
    /\ UNCHANGED <<fc, rx, collected, apply, result>>

Received == {p \in Profile : collected[p] # "none"}

(* param_count is the number of parameters the autopilot has.              *)
Collect ==
    /\ pc = "fetch" /\ rx # <<>>
    /\ rx' = Tail(rx)
    /\ collected' = [collected EXCEPT ![Head(rx).name] = Head(rx).value]
    /\ pc' = IF Cardinality(Received \cup {Head(rx).name}) >= Cardinality(OnFirmware)
             THEN "diff" ELSE "fetch"
    /\ UNCHANGED <<fc, stream, apply, result, losses>>

(* Nothing for quiet_window_s after the first, or timeout_s in all is      *)
(* over: also, when it is late, while the autopilot is still reporting.    *)
FetchEnds ==
    /\ pc = "fetch" /\ pc' = "diff"
    /\ \/ rx = <<>> /\ stream = {} /\ UNCHANGED losses
       \/ Lose
    /\ UNCHANGED <<fc, stream, rx, collected, apply, result>>

(* The link raises in fetch_params or apply_params: the error is recorded. *)
Raises ==
    /\ pc \in {"request", "fetch", "set", "echo"}
    /\ Lose
    /\ pc' = "done" /\ result' = "errors"
    /\ UNCHANGED <<fc, stream, rx, collected, apply>>

Changed == {p \in Profile : collected[p] = "old"}
Added == {p \in Profile : collected[p] = "none"}

(* Mutant of Diff: a parameter that was not reported is an error.          *)
DiffStrict ==
    /\ pc = "diff"
    /\ \/ /\ Changed = {}
          /\ pc' = "done" /\ result' = IF Added = {} THEN "current" ELSE "errors"
          /\ UNCHANGED apply
       \/ /\ Changed # {}
          /\ \E p \in Changed : name' = p /\ todo' = Changed \ {p}
          /\ pc' = "set" /\ attempt' = 1
          /\ UNCHANGED <<applied, failures, result>>
    /\ UNCHANGED <<link, collected>>

(* Parameters the autopilot did not report are only warned about.  With    *)
(* --dry-run, which the unit does not use, the sync would end here.        *)
Diff ==
    /\ pc = "diff"
    /\ \/ /\ Changed = {}
          /\ pc' = "done" /\ result' = IF Added = {} THEN "current" ELSE "ok"
          /\ UNCHANGED apply
       \/ /\ Changed # {}
          /\ \E p \in Changed : name' = p /\ todo' = Changed \ {p}
          /\ pc' = "set" /\ attempt' = 1
          /\ UNCHANGED <<applied, failures, result>>
    /\ UNCHANGED <<link, collected>>

(* PARAM_SET; the autopilot answers with the value it then has.            *)
Set ==
    /\ pc = "set" /\ pc' = "echo"
    /\ \/ LET v == IF name \in ReadOnly THEN fc[name] ELSE "new" IN
          /\ fc' = [fc EXCEPT ![name] = v]
          /\ \/ rx' = Append(rx, [name |-> name, value |-> v]) /\ UNCHANGED losses
             \/ Lose /\ UNCHANGED rx
       \/ Lose /\ UNCHANGED <<fc, rx>>
    /\ UNCHANGED <<stream, collected, apply, result>>

(* Mutant of NextParam: a failure is not recorded.                         *)
NextParamForgetful(isApplied) ==
    /\ applied' = IF isApplied THEN applied \cup {name} ELSE applied
    /\ UNCHANGED failures
    /\ \/ /\ todo # {}
          /\ \E p \in todo : name' = p /\ todo' = todo \ {p}
          /\ pc' = "set" /\ attempt' = 1 /\ UNCHANGED result
       \/ /\ todo = {}
          /\ pc' = "done" /\ result' = IF failures' = {} THEN "ok" ELSE "errors"
          /\ UNCHANGED <<todo, name, attempt>>

(* apply_params is through with name: the next one, or the end.            *)
NextParam(isApplied) ==
    /\ applied' = IF isApplied THEN applied \cup {name} ELSE applied
    /\ failures' = IF isApplied THEN failures ELSE failures \cup {name}
    /\ \/ /\ todo # {}
          /\ \E p \in todo : name' = p /\ todo' = todo \ {p}
          /\ pc' = "set" /\ attempt' = 1 /\ UNCHANGED result
       \/ /\ todo = {}
          /\ pc' = "done" /\ result' = IF failures' = {} THEN "ok" ELSE "errors"
          /\ UNCHANGED <<todo, name, attempt>>

(* Mutant of TryAgain: one attempt too many.                               *)
TryAgainOnceMore ==
    \/ /\ attempt <= MaxRetries /\ attempt' = attempt + 1 /\ pc' = "set"
       /\ UNCHANGED <<todo, name, applied, failures, result>>
    \/ attempt > MaxRetries /\ NextParam(FALSE)

(* The next attempt; after the last the parameter has failed.              *)
TryAgain ==
    \/ /\ attempt < MaxRetries /\ attempt' = attempt + 1 /\ pc' = "set"
       /\ UNCHANGED <<todo, name, applied, failures, result>>
    \/ attempt = MaxRetries /\ NextParam(FALSE)

(* Mutant of IsEcho: any PARAM_VALUE is taken for the echo.                *)
IsEchoAny(m) == TRUE

IsEcho(m) == m.name = name

(* _await_param_echo reads past the values of other parameters; a late     *)
(* report of the list has the old value and costs an attempt.              *)
Echo ==
    /\ pc = "echo" /\ rx # <<>>
    /\ rx' = Tail(rx)
    /\ \/ ~IsEcho(Head(rx)) /\ UNCHANGED <<pc, apply, result>>
       \/ IsEcho(Head(rx)) /\ Head(rx).value = "new" /\ NextParam(TRUE)
       \/ IsEcho(Head(rx)) /\ Head(rx).value # "new" /\ TryAgain
    /\ UNCHANGED <<fc, stream, collected, losses>>

(* per_param_timeout_s: an echo that is late may still come, in the wait   *)
(* of a later attempt or parameter.                                        *)
EchoTimeout ==
    /\ pc = "echo"
    /\ (rx = <<>> /\ UNCHANGED losses) \/ Lose
    /\ TryAgain
    /\ UNCHANGED <<fc, stream, rx, collected>>

Done == pc = "done" /\ stream = {} /\ UNCHANGED vars

Client == Request \/ Collect \/ FetchEnds \/ Diff \/ Set \/ Echo \/ EchoTimeout
Next == Client \/ Raises \/ Report \/ Done

(* Every wait of the client has a time-out; the autopilot reports what it  *)
(* was asked for.                                                          *)
Spec == Init /\ [][Next]_vars /\ WF_vars(Client) /\ WF_vars(Report)

-----------------------------------------------------------------------------
TypeOK ==
    /\ fc \in [Profile -> {"absent", "old", "new"}]
    /\ stream \subseteq Profile
    /\ rx \in Seq([name : Profile, value : {"old", "new"}])
    /\ pc \in {"request", "fetch", "diff", "set", "echo", "done"}
    /\ collected \in [Profile -> {"none", "old", "new"}]
    /\ todo \subseteq Profile /\ name \in Profile
    /\ attempt \in 0 .. MaxRetries
    /\ applied \subseteq Profile /\ failures \subseteq Profile
    /\ result \in {"none", "current", "ok", "errors"}
    /\ losses \in 0 .. MaxLosses

(* A parameter that apply_params reports as applied has the desired value, *)
(* although stale reports of the list request and echoes of earlier        *)
(* parameters and attempts arrive in between.                              *)
AppliedWasStored == \A p \in applied : fc[p] = "new"

(* A sync that reports no error has brought every parameter it saw to the  *)
(* desired value; what it saw as desired has stayed so.                    *)
OkMeansSeenAreNew ==
    result \in {"ok", "current"} => \A p \in Received : fc[p] = "new"
=============================================================================
