-------------------------- MODULE PixhawkSyncProofs --------------------------
(***************************************************************************)
(* What sync_params guarantees for every set of parameters, every number   *)
(* of retries and any number of lost messages: first of one run of it,     *)
(* then of the unit that runs it at every boot and, when it has failed or  *)
(* was killed, again, with the deployment of the script behind it.         *)
(***************************************************************************)
EXTENDS PixhawkSync, TLAPS

Message == [name : Profile, value : {"old", "new"}]

(* A report or an echo on its way comes from a parameter of the autopilot. *)
Typed ==
    /\ TypeOK
    /\ stream \subseteq OnFirmware
    /\ pc \in {"set", "echo"} => name \in OnFirmware /\ todo \subseteq OnFirmware
    /\ \A p \in Profile : collected[p] # "none" => fc[p] # "absent"
    /\ \A n \in 1 .. Len(rx) : fc[rx[n].name] # "absent"

(* "new" is only ever reported of a parameter that has it.                 *)
NewIsTrue ==
    /\ \A n \in 1 .. Len(rx) : rx[n].value = "new" => fc[rx[n].name] = "new"
    /\ \A p \in Profile : collected[p] = "new" => fc[p] = "new"
    /\ \A p \in applied : fc[p] = "new"

(* No drifted parameter is lost on its way through apply_params.           *)
Accounted ==
    /\ pc \in {"request", "fetch", "diff"} => failures = {} /\ result = "none"
    /\ pc \in {"set", "echo"} =>
          result = "none" /\ Changed \subseteq applied \cup failures \cup todo \cup {name}
    /\ result = "ok" \/ result = "current" => Changed \subseteq applied

IInv == Typed /\ NewIsTrue /\ Accounted

LEMMA InitIInv == Init => IInv
<1> SUFFICES ASSUME Init PROVE IInv
  OBVIOUS
<1>1. (CHOOSE p \in Profile : TRUE) \in Profile
  BY ParamSyncAssumption
<1>2. TypeOK
  BY <1>1, ParamSyncAssumption DEF Init, TypeOK
<1> QED
  BY <1>2 DEF Init, IInv, Typed, NewIsTrue, Accounted, OnFirmware, Changed

(* What the head and the tail of a queue of messages are.                  *)
LEMMA Dequeued ==
  ASSUME NEW q \in Seq(Message), q # <<>>
  PROVE  /\ Head(q) \in Message /\ Head(q) = q[1] /\ 1 \in 1 .. Len(q)
         /\ Tail(q) \in Seq(Message) /\ Len(Tail(q)) = Len(q) - 1
         /\ \A n \in 1 .. Len(Tail(q)) : Tail(q)[n] = q[n + 1] /\ n + 1 \in 1 .. Len(q)
  OBVIOUS

LEMMA Enqueued ==
  ASSUME NEW q \in Seq(Message), NEW m \in Message
  PROVE  /\ Append(q, m) \in Seq(Message) /\ Len(Append(q, m)) = Len(q) + 1
         /\ \A n \in 1 .. Len(Append(q, m)) :
               Append(q, m)[n] = m \/ (n \in 1 .. Len(q) /\ Append(q, m)[n] = q[n])
  OBVIOUS

-----------------------------------------------------------------------------
(* apply_params goes on to the next parameter, or ends.                    *)
LEMMA NextParamIInv ==
  ASSUME IInv, NEW isApplied \in BOOLEAN, NextParam(isApplied), pc = "echo",
         isApplied => fc[name] = "new",
         fc' = fc, collected' = collected, stream' = stream, losses' \in 0 .. MaxLosses,
         rx' \in Seq(Message),
         \A n \in 1 .. Len(rx') : \E m \in 1 .. Len(rx) : rx'[n] = rx[m]
  PROVE  IInv'
<1> USE DEF IInv, Typed, TypeOK, Message
<1>1. /\ applied' \subseteq Profile /\ failures' \subseteq Profile
      /\ applied \subseteq applied' /\ failures \subseteq failures'
      /\ name \in applied' \cup failures'
      /\ \A p \in applied' : fc[p] = "new"
  BY DEF NextParam, NewIsTrue
<1>2. NewIsTrue'
  <2>1. \A n \in 1 .. Len(rx') : rx'[n].value = "new" => fc[rx'[n].name] = "new"
    BY DEF NewIsTrue
  <2>2. \A p \in Profile : collected[p] = "new" => fc[p] = "new"
    BY DEF NewIsTrue
  <2> HIDE DEF IInv, Typed, TypeOK, Message
  <2> QED
    BY <1>1, <2>1, <2>2 DEF NewIsTrue
<1>3. CASE todo # {}
  <2>1. PICK p \in todo : name' = p /\ todo' = todo \ {p}
    BY <1>3 DEF NextParam
  <2>2. pc' = "set" /\ attempt' = 1 /\ result' = result
    BY <1>3 DEF NextParam
  <2>3. TypeOK'
    BY <1>1, <2>1, <2>2, ParamSyncAssumption
  <2>4. Typed'
    BY <2>1, <2>2, <2>3 DEF OnFirmware
  <2>5. Accounted'
    BY <1>1, <2>1, <2>2 DEF Accounted, Changed
  <2> QED
    BY <1>2, <2>4, <2>5
<1>4. CASE todo = {}
  <2>1. /\ pc' = "done" /\ todo' = todo /\ name' = name /\ attempt' = attempt
        /\ result' = IF failures' = {} THEN "ok" ELSE "errors"
    BY <1>4 DEF NextParam
  <2>2. TypeOK'
    BY <1>1, <2>1
  <2>3. Typed'
    <3>1. \A n \in 1 .. Len(rx') : fc'[rx'[n].name] # "absent"
      OBVIOUS
    <3> HIDE DEF TypeOK, IInv
    <3>2. stream' \subseteq OnFirmware'
      BY DEF OnFirmware, IInv
    <3> QED
      BY <2>1, <2>2, <3>1, <3>2 DEF IInv
  <2>4. Accounted'
    BY <1>1, <1>4, <2>1 DEF Accounted, Changed
  <2> QED
    BY <1>2, <2>3, <2>4
<1> QED
  BY <1>3, <1>4

LEMMA TryAgainIInv ==
  ASSUME IInv, TryAgain, pc = "echo",
         fc' = fc, collected' = collected, stream' = stream, losses' \in 0 .. MaxLosses,
         rx' \in Seq(Message),
         \A n \in 1 .. Len(rx') : \E m \in 1 .. Len(rx) : rx'[n] = rx[m]
  PROVE  IInv'
<1>1. CASE attempt = MaxRetries /\ NextParam(FALSE)
  BY <1>1, NextParamIInv
<1>2. CASE /\ attempt < MaxRetries /\ attempt' = attempt + 1 /\ pc' = "set"
           /\ UNCHANGED <<todo, name, applied, failures, result>>
  <2>1. TypeOK'
    BY <1>2, ParamSyncAssumption DEF IInv, Typed, TypeOK, Message
  <2>2. Typed'
    BY <1>2, <2>1 DEF IInv, Typed, OnFirmware
  <2>3. NewIsTrue'
    BY <1>2 DEF IInv, NewIsTrue
  <2>4. Accounted'
    BY <1>2 DEF IInv, Accounted, Changed
  <2> QED
    BY <2>2, <2>3, <2>4 DEF IInv
<1> QED
  BY <1>1, <1>2 DEF TryAgain

LEMMA NextIInv == IInv /\ [Next]_vars => IInv'
<1> SUFFICES ASSUME IInv, [Next]_vars PROVE IInv'
  OBVIOUS
<1> USE DEF apply, link
<1>0. rx \in Seq(Message)
  BY DEF IInv, Typed, TypeOK, Message
<1>1. CASE Request
  BY <1>1, ParamSyncAssumption
  DEF Request, Lose, IInv, Typed, TypeOK, NewIsTrue, Accounted, OnFirmware, Changed
<1>2. CASE Report
  <2>1. PICK p \in stream :
           /\ stream' = stream \ {p}
           /\ rx' = Append(rx, [name |-> p, value |-> fc[p]]) \/ rx' = rx
    BY <1>2 DEF Report
  <2>2. UNCHANGED <<fc, pc, collected, todo, name, attempt, applied, failures, result>>
    BY <1>2 DEF Report
  <2>3. losses' \in 0 .. MaxLosses
    BY <1>2, ParamSyncAssumption DEF Report, Lose, IInv, Typed, TypeOK
  <2>4. p \in OnFirmware /\ [name |-> p, value |-> fc[p]] \in Message
    BY <2>1 DEF IInv, Typed, TypeOK, OnFirmware, Message
  <2>5. /\ rx' \in Seq(Message)
        /\ \A n \in 1 .. Len(rx') : \/ rx'[n] = [name |-> p, value |-> fc[p]]
                                    \/ n \in 1 .. Len(rx) /\ rx'[n] = rx[n]
    BY <1>0, <2>1, <2>4, Enqueued
  <2>6. TypeOK'
    BY <2>1, <2>2, <2>3, <2>5 DEF IInv, Typed, TypeOK, Message
  <2>7. Typed'
    BY <2>1, <2>2, <2>4, <2>5, <2>6 DEF IInv, Typed, OnFirmware
  <2>8. NewIsTrue'
    BY <2>2, <2>4, <2>5 DEF IInv, NewIsTrue
  <2>9. Accounted'
    BY <2>2 DEF IInv, Accounted, Changed
  <2> QED
    BY <2>7, <2>8, <2>9 DEF IInv
<1>3. CASE Collect
  <2>1. rx # <<>> /\ pc = "fetch" /\ rx' = Tail(rx)
    BY <1>3 DEF Collect
  <2>2. /\ Head(rx) \in Message /\ Head(rx) = rx[1] /\ 1 \in 1 .. Len(rx)
        /\ rx' \in Seq(Message)
        /\ \A n \in 1 .. Len(rx') : rx'[n] = rx[n + 1] /\ n + 1 \in 1 .. Len(rx)
    BY <1>0, <2>1, Dequeued
  <2>3. /\ collected' = [collected EXCEPT ![Head(rx).name] = Head(rx).value]
        /\ pc' \in {"fetch", "diff"}
        /\ UNCHANGED <<fc, stream, losses, todo, name, attempt, applied, failures, result>>
    BY <1>3 DEF Collect
  <2>4. TypeOK'
    BY <2>2, <2>3 DEF IInv, Typed, TypeOK, Message
  <2>5. Typed'
    <3>1. \A n \in 1 .. Len(rx') : fc'[rx'[n].name] # "absent"
      BY <2>2, <2>3 DEF IInv, Typed
    <3>2. \A p \in Profile : collected'[p] # "none" => fc'[p] # "absent"
      <4>1. fc[Head(rx).name] # "absent"
        BY <2>2 DEF IInv, Typed
      <4> QED
        BY <2>3, <4>1 DEF IInv, Typed, TypeOK
    <3>3. stream' \subseteq OnFirmware'
      BY <2>3 DEF IInv, Typed, OnFirmware
    <3> QED
      BY <2>3, <2>4, <3>1, <3>2, <3>3 DEF Typed
  <2>6. NewIsTrue'
    BY <2>2, <2>3 DEF IInv, Typed, TypeOK, NewIsTrue, Message
  <2>7. Accounted'
    BY <2>1, <2>3 DEF IInv, Accounted
  <2> QED
    BY <2>5, <2>6, <2>7 DEF IInv
<1>4. CASE FetchEnds
  BY <1>4, ParamSyncAssumption DEF FetchEnds, Lose, IInv, Typed, TypeOK, NewIsTrue, Accounted, OnFirmware, Changed
<1>5. CASE Diff
  <2>1. CASE Changed = {}
    BY <1>5, <2>1
    DEF Diff, IInv, Typed, TypeOK, NewIsTrue, Accounted, OnFirmware, Changed
  <2>2. CASE /\ \E p \in Changed : name' = p /\ todo' = Changed \ {p}
             /\ pc' = "set" /\ attempt' = 1
             /\ UNCHANGED <<applied, failures, result>>
    <3>1. PICK p \in Changed : name' = p /\ todo' = Changed \ {p}
      BY <2>2
    <3>2. Changed \subseteq OnFirmware /\ Changed \subseteq Profile
      BY DEF Changed, OnFirmware, IInv, Typed, TypeOK
    <3>3. TypeOK'
      BY <1>5, <2>2, <3>1, <3>2, ParamSyncAssumption DEF Diff, IInv, Typed, TypeOK
    <3>4. Typed'
      BY <1>5, <2>2, <3>1, <3>2, <3>3 DEF Diff, IInv, Typed, OnFirmware
    <3>5. NewIsTrue'
      BY <1>5, <2>2 DEF Diff, IInv, NewIsTrue
    <3>6. Accounted'
      BY <1>5, <2>2, <3>1 DEF Diff, IInv, Accounted, Changed
    <3> QED
      BY <3>4, <3>5, <3>6 DEF IInv
  <2> QED
    BY <1>5, <2>1, <2>2 DEF Diff
<1>6. CASE Set
  <2>1. /\ pc = "set" /\ pc' = "echo" /\ name \in OnFirmware /\ name \in Profile
        /\ UNCHANGED <<stream, collected, todo, name, attempt, applied, failures, result>>
    BY <1>6 DEF Set, IInv, Typed, TypeOK
  <2>2. losses' \in 0 .. MaxLosses
    BY <1>6, ParamSyncAssumption DEF Set, Lose, IInv, Typed, TypeOK
  <2>3. PICK v \in {"old", "new"} :
          \/ /\ v = "new" \/ v = fc[name]
             /\ fc' = [fc EXCEPT ![name] = v]
             /\ rx' = Append(rx, [name |-> name, value |-> v]) \/ rx' = rx
          \/ fc' = fc /\ rx' = rx
    <3>1. CASE UNCHANGED <<fc, rx>>
      BY <3>1
    <3>2. CASE ~UNCHANGED <<fc, rx>>
      <4> DEFINE w == IF name \in ReadOnly THEN fc[name] ELSE "new"
      <4>1. w \in {"old", "new"} /\ (w = "new" \/ w = fc[name])
        BY <2>1 DEF IInv, Typed, TypeOK, OnFirmware
      <4>2. /\ fc' = [fc EXCEPT ![name] = w]
            /\ rx' = Append(rx, [name |-> name, value |-> w]) \/ rx' = rx
        BY <1>6, <3>2 DEF Set
      <4> QED
        BY <4>1, <4>2
    <3> QED
      BY <3>1, <3>2
  <2>4. [name |-> name, value |-> v] \in Message
    BY <2>1 DEF Message
  <2>5. /\ rx' \in Seq(Message)
        /\ \A n \in 1 .. Len(rx') :
              \/ rx'[n] = [name |-> name, value |-> v] /\ fc'[name] = v
              \/ n \in 1 .. Len(rx) /\ rx'[n] = rx[n]
    <3>1. CASE rx' = rx
      BY <1>0, <3>1
    <3>2. CASE rx' # rx
      <4>1. fc' = [fc EXCEPT ![name] = v] /\ rx' = Append(rx, [name |-> name, value |-> v])
        BY <2>3, <3>2
      <4>2. fc'[name] = v
        BY <2>1, <4>1 DEF IInv, Typed, TypeOK
      <4> QED
        BY <1>0, <2>4, <4>1, <4>2, Enqueued
    <3> QED
      BY <3>1, <3>2
  <2>6. /\ fc' \in [Profile -> {"absent", "old", "new"}]
        /\ \A p \in Profile : /\ fc[p] = "new" => fc'[p] = "new"
                              /\ fc[p] # "absent" => fc'[p] # "absent"
    BY <2>1, <2>3 DEF IInv, Typed, TypeOK
  <2>7. \A n \in 1 .. Len(rx) : rx[n].name \in Profile
    <3>1. \A n \in 1 .. Len(rx) : rx[n] \in Message
      BY <1>0
    <3> QED
      BY <3>1 DEF Message
  <2>8. TypeOK'
    BY <2>1, <2>2, <2>5, <2>6 DEF IInv, Typed, TypeOK, Message
  <2>9. Typed'
    BY <2>1, <2>5, <2>6, <2>7, <2>8 DEF IInv, Typed, TypeOK, OnFirmware
  <2>10. NewIsTrue'
    BY <2>1, <2>5, <2>6, <2>7 DEF IInv, Typed, TypeOK, NewIsTrue
  <2>11. Accounted'
    BY <2>1 DEF IInv, Accounted, Changed
  <2> QED
    BY <2>9, <2>10, <2>11 DEF IInv
<1>7. CASE Echo
  <2>1. /\ rx # <<>> /\ pc = "echo" /\ rx' = Tail(rx)
        /\ UNCHANGED <<fc, stream, collected, losses>>
    BY <1>7 DEF Echo
  <2>2. /\ Head(rx) = rx[1] /\ 1 \in 1 .. Len(rx) /\ rx' \in Seq(Message)
        /\ \A n \in 1 .. Len(rx') : rx'[n] = rx[n + 1] /\ n + 1 \in 1 .. Len(rx)
    BY <1>0, <2>1, Dequeued
  <2>6. losses' \in 0 .. MaxLosses
    BY <2>1 DEF IInv, Typed, TypeOK
  <2>3. CASE UNCHANGED <<pc, apply, result>>
    <3>1. TypeOK'
      BY <2>1, <2>2, <2>3 DEF IInv, Typed, TypeOK, Message
    <3>2. Typed'
      <4>1. \A n \in 1 .. Len(rx') : fc'[rx'[n].name] # "absent"
        BY <2>1, <2>2 DEF IInv, Typed
      <4> QED
        BY <2>1, <2>3, <3>1, <4>1 DEF IInv, Typed, OnFirmware
    <3>3. NewIsTrue'
      <4>1. \A n \in 1 .. Len(rx') : rx'[n].value = "new" => fc'[rx'[n].name] = "new"
        BY <2>1, <2>2 DEF IInv, NewIsTrue
      <4> QED
        BY <2>1, <2>3, <4>1 DEF IInv, NewIsTrue
    <3>4. Accounted'
      BY <2>1, <2>3 DEF IInv, Accounted, Changed
    <3> QED
      BY <3>2, <3>3, <3>4 DEF IInv
  <2>4. CASE IsEcho(Head(rx)) /\ Head(rx).value = "new" /\ NextParam(TRUE)
    <3>1. fc[name] = "new"
      BY <2>2, <2>4 DEF IsEcho, IInv, NewIsTrue
    <3> QED
      BY <2>1, <2>2, <2>4, <2>6, <3>1, NextParamIInv
  <2>5. CASE TryAgain
    BY <2>1, <2>2, <2>5, <2>6, TryAgainIInv
  <2> QED
    BY <1>7, <2>3, <2>4, <2>5 DEF Echo
<1>8. CASE EchoTimeout
  <2>1. losses' \in 0 .. MaxLosses
    BY <1>8, ParamSyncAssumption DEF EchoTimeout, Lose, IInv, Typed, TypeOK
  <2> QED
    BY <1>0, <1>8, <2>1, TryAgainIInv DEF EchoTimeout
<1>10. CASE Raises
  BY <1>10, ParamSyncAssumption DEF Raises, Lose, IInv, Typed, TypeOK, NewIsTrue, Accounted, OnFirmware, Changed
<1>9. CASE Done \/ UNCHANGED vars
  BY <1>9 DEF Done, vars, IInv, Typed, TypeOK, NewIsTrue, Accounted, OnFirmware, Changed
<1> QED
  BY <1>1, <1>2, <1>3, <1>4, <1>5, <1>6, <1>7, <1>8, <1>9, <1>10 DEF Next, Client

(* Type correctness of the sync: in particular no parameter is tried more  *)
(* than max_retries times and none outside the profiles is touched.        *)
THEOREM TypeCorrect == Spec => []TypeOK
<1>1. IInv => TypeOK
  BY DEF IInv, Typed
<1> QED
  BY <1>1, InitIInv, NextIInv, PTL DEF Spec

(* What apply_params reports as applied is stored on the autopilot: no     *)
(* stale report or echo is ever taken for the answer to a PARAM_SET.       *)
THEOREM AppliedStored == Spec => []AppliedWasStored
<1>1. IInv => AppliedWasStored
  BY DEF IInv, NewIsTrue, AppliedWasStored
<1> QED
  BY <1>1, InitIInv, NextIInv, PTL DEF Spec

(* A sync without errors leaves no drift in a parameter it has seen.       *)
THEOREM OkSeen == Spec => []OkMeansSeenAreNew
<1>1. IInv => OkMeansSeenAreNew
  BY DEF IInv, Typed, TypeOK, NewIsTrue, Accounted, Changed, Received, OkMeansSeenAreNew
<1> QED
  BY <1>1, InitIInv, NextIInv, PTL DEF Spec

-----------------------------------------------------------------------------
(* What is on the card at each place of write_file, and at the end.        *)
Deploying ==
    /\ unit = "head" => card = "empty"
    /\ unit = "tail" => card = "cut"
    /\ unit = "readback" => card = "whole"
    /\ ExitedMeansDeployed

(* The parameters keep their invariant through kills, restarts and boots.  *)
SyncIInv == IInv /\ SyncTypeOK /\ Deploying

LEMMA InitSyncIInv == SyncInit => SyncIInv
<1> SUFFICES ASSUME SyncInit PROVE SyncIInv
  OBVIOUS
<1>1. IInv
  BY InitIInv DEF SyncInit
<1>2. SyncTypeOK
  <2>1. TypeOK
    BY <1>1 DEF IInv, Typed
  <2>2. boots \in 0 .. MaxBoots
    BY BootsAssumption DEF SyncInit
  <2>3. swallowed \in BOOLEAN
    BY DEF SyncInit
  <2> QED
    BY <2>1, <2>2, <2>3 DEF SyncInit, SyncTypeOK, Commands
<1>3. Deploying
  BY DEF SyncInit, Deploying, ExitedMeansDeployed
<1> QED
  BY <1>1, <1>2, <1>3 DEF SyncIInv

(* A step that leaves the parameters alone, but may count a loss.          *)
LEMMA ParamsKept ==
  ASSUME IInv, UNCHANGED params, losses' = losses \/ Lose
  PROVE  IInv'
<1>1. losses' \in 0 .. MaxLosses
  BY ParamSyncAssumption DEF Lose, IInv, Typed, TypeOK
<1>2. UNCHANGED <<fc, stream, rx, pc, collected, todo, name, attempt, applied,
                  failures, result>>
  BY DEF params, apply
<1>3. Typed'
  BY <1>1, <1>2 DEF IInv, Typed, TypeOK, OnFirmware
<1>4. NewIsTrue' /\ Accounted'
  BY <1>2 DEF IInv, NewIsTrue, Accounted, Changed
<1> QED
  BY <1>3, <1>4 DEF IInv

(* A new process knows nothing, so no drift can make it wrong.             *)
LEMMA ProcessIInv ==
  ASSUME IInv, Process,
         fc' \in [Profile -> {"absent", "old", "new"}],
         \A p \in Profile : fc[p] # "absent" => fc'[p] # "absent"
  PROVE  IInv'
<1>1. /\ pc' = "request" /\ rx' = <<>> /\ collected' = [p \in Profile |-> "none"]
      /\ todo' = {} /\ applied' = {} /\ failures' = {} /\ attempt' = 0 /\ result' = "none"
      /\ stream' = stream /\ name' = name /\ losses' = losses
  BY DEF Process
<1>2. TypeOK'
  BY <1>1, ParamSyncAssumption DEF IInv, Typed, TypeOK
<1>3. Typed'
  BY <1>1, <1>2 DEF IInv, Typed, TypeOK, OnFirmware
<1>4. NewIsTrue' /\ Accounted'
  BY <1>1 DEF NewIsTrue, Accounted, Changed
<1> QED
  BY <1>3, <1>4 DEF IInv

LEMMA SyncNextIInv == SyncIInv /\ [SyncNext]_syncVars => SyncIInv'
<1> SUFFICES ASSUME SyncIInv, [SyncNext]_syncVars PROVE SyncIInv'
  OBVIOUS
<1> USE DEF SyncIInv
<1>t. ASSUME IInv' PROVE TypeOK'
  BY <1>t DEF IInv, Typed
<1>1. CASE Connect \/ Mkdir \/ Readback \/ Killed
  <2>1. UNCHANGED <<params, luaVars>> /\ (losses' = losses \/ Lose)
    BY <1>1 DEF Connect, Mkdir, Readback, Killed, Works, Fails
  <2>2. IInv'
    BY <2>1, ParamsKept
  <2>3. UNCHANGED <<card, swallowed, boots>>
    BY <2>1 DEF luaVars
  <2>4. /\ unit' \in {"params", "waiting", "list", "exited"}
        /\ unit' = "exited" => card = "whole"
    BY <1>1 DEF Connect, Mkdir, Readback, Killed, Exit, Deploying
  <2> QED
    BY <1>t, <2>2, <2>3, <2>4 DEF SyncTypeOK, Commands, Deploying, ExitedMeansDeployed
<1>2. CASE Params \/ LateReport
  <2>1. [Next]_vars /\ UNCHANGED <<card, swallowed, boots>>
    BY <1>2 DEF Params, LateReport, Next, luaVars
  <2>2. IInv'
    BY <2>1, NextIInv
  <2>3. unit' \in {"mkdir", unit}
    BY <1>2 DEF Params, LateReport
  <2> QED
    BY <1>t, <2>1, <2>2, <2>3 DEF SyncTypeOK, Commands, Deploying, ExitedMeansDeployed
<1>3. CASE List
  <2>1. IInv'
    BY <1>3, ParamsKept DEF List, Works, Fails
  <2>2. /\ card' = card /\ boots' = boots
        /\ \/ unit' \in {"create", "read"} /\ swallowed' = swallowed
           \/ unit' \in {"waiting", "exited"} /\ swallowed' = TRUE
    BY <1>3 DEF List, Exit
  <2> QED
    BY <1>t, <2>1, <2>2 DEF SyncTypeOK, Commands, Deploying, ExitedMeansDeployed
<1>4. CASE Read
  <2>1. IInv'
    BY <1>4, ParamsKept DEF Read, Works, Fails
  <2>2. UNCHANGED <<card, swallowed, boots>>
    BY <1>4 DEF Read
  <2>3. \/ unit' = "create"
        \/ unit' \in {"waiting", "exited"} /\ card \in {"cut", "whole"}
    BY <1>4 DEF Read, Exit, Version, SyncTypeOK
  <2> QED
    BY <1>t, <2>1, <2>2, <2>3 DEF SyncTypeOK, Commands, Deploying, ExitedMeansDeployed
<1>5. CASE WriteFile
  <2>1. IInv'
    BY <1>5, ParamsKept DEF WriteFile, Write, Works, Fails
  <2>2. /\ boots' = boots /\ card' \in {"missing", "old", "empty", "cut", "whole"}
        /\ \/ /\ swallowed' = swallowed
              /\ <<unit', card'>> \in
                    {<<"head", "empty">>, <<"tail", "cut">>, <<"readback", "whole">>}
           \/ unit' \in {"waiting", "exited"} /\ swallowed' = TRUE
    BY <1>5 DEF WriteFile, Write, Exit, SyncTypeOK
  <2> QED
    BY <1>t, <2>1, <2>2 DEF SyncTypeOK, Commands, Deploying, ExitedMeansDeployed
<1>6. CASE Restart \/ Boot
  <2>1. /\ fc' \in [Profile -> {"absent", "old", "new"}]
        /\ \A p \in Profile : fc[p] # "absent" => fc'[p] # "absent"
    BY <1>6 DEF Restart, Boot, IInv, Typed, TypeOK
  <2>2. IInv'
    BY <1>6, <2>1, ProcessIInv DEF Restart, Boot
  <2>3. unit' = "connect" /\ card' = card /\ swallowed' = FALSE
    BY <1>6 DEF Restart, Boot, Process
  <2>4. boots' \in 0 .. MaxBoots
    BY <1>6, BootsAssumption DEF Restart, Boot, SyncTypeOK
  <2> QED
    BY <1>t, <2>2, <2>3, <2>4 DEF SyncTypeOK, Commands, Deploying, ExitedMeansDeployed
<1>7. CASE Rests \/ UNCHANGED syncVars
  <2>1. UNCHANGED <<vars, unit, card, swallowed, boots>>
    BY <1>7 DEF Rests, syncVars, paramVars, luaVars
  <2>2. IInv'
    BY <2>1, NextIInv
  <2> QED
    BY <1>t, <2>1, <2>2 DEF SyncTypeOK, Deploying, ExitedMeansDeployed
<1> QED
  BY <1>1, <1>2, <1>3, <1>4, <1>5, <1>6, <1>7 DEF SyncNext, Command

(* Type correctness of the unit, for every number of boots, kills, lost    *)
(* messages and failed file operations.                                    *)
THEOREM UnitTypeCorrect == SyncSpec => []SyncTypeOK
<1>1. SyncIInv => SyncTypeOK
  BY DEF SyncIInv
<1> QED
  BY <1>1, InitSyncIInv, SyncNextIInv, PTL DEF SyncSpec

(* Whatever earlier runs of the unit left on the card, and wherever they   *)
(* were killed in write_file, a run that exits with success leaves the     *)
(* bundled script or one of the two named exceptions: a swallowed failure  *)
(* of its own, or a file cut off behind its version line.                  *)
THEOREM ExitedIsDeployed == SyncSpec => []ExitedMeansDeployed
<1>1. SyncIInv => ExitedMeansDeployed
  BY DEF SyncIInv, Deploying
<1> QED
  BY <1>1, InitSyncIInv, SyncNextIInv, PTL DEF SyncSpec

(* Reports the autopilot was asked for by an earlier run of the unit, and  *)
(* parameters that drift between two boots, never make a parameter count   *)
(* as applied that is not stored.                                          *)
THEOREM UnitAppliedStored == SyncSpec => []AppliedWasStored
<1>1. SyncIInv => AppliedWasStored
  BY DEF SyncIInv, IInv, NewIsTrue, AppliedWasStored
<1> QED
  BY <1>1, InitSyncIInv, SyncNextIInv, PTL DEF SyncSpec

(* In every run of the unit the verdict of sync_params is about what the   *)
(* autopilot has now: what this run saw and found in order is so.          *)
THEOREM UnitOkSeen == SyncSpec => []OkMeansSeenAreNew
<1>1. SyncIInv => OkMeansSeenAreNew
  BY DEF SyncIInv, IInv, Typed, TypeOK, NewIsTrue, Accounted, Changed, Received,
         OkMeansSeenAreNew
<1> QED
  BY <1>1, InitSyncIInv, SyncNextIInv, PTL DEF SyncSpec
=============================================================================
