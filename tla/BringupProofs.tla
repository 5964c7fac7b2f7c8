---------------------------- MODULE BringupProofs ----------------------------
(***************************************************************************)
(* "Bringup complete!" is true, and a run that nothing disturbs succeeds,  *)
(* for every step table that meets the assumptions on it, as that of the   *)
(* source does, every set of command lines, and any number of lost and     *)
(* failed commands, declined steps and repetitions before.                 *)
(***************************************************************************)
EXTENDS Bringup, SequenceTheorems, TLAPS

-----------------------------------------------------------------------------
(* The probe                                                               *)

(* The recursive definition of the statuses, as an equation.               *)
IsStatus(st, good) ==
    st = [ck \in Critical |->
            IF \E d \in depends_on[ck] : st[d] # "pass" THEN "skip"
            ELSE IF ck \in good THEN "pass" ELSE "fail"]

LEMMA Dependencies ==
    /\ \A ck \in {"jetpack_version", "disk_space", "pixhawk_symlink", "health_service"} :
          depends_on[ck] = {}
    /\ \A ck \in {"cuda", "python_ver", "oakd"} : depends_on[ck] = {"jetpack_version"}
    /\ \A ck \in {"vslam_process", "vslam_params"} : depends_on[ck] = {"oakd"}
    /\ depends_on["vslam_bridge"] = {"vslam_process"}
    /\ depends_on["vslam_socket_active"] = {"vslam_bridge"}
  BY DEF depends_on, Critical

(* The dependencies have no cycle, so the equation has a solution, built   *)
(* along them, and run_checks is one.                                      *)
LEMMA RunChecks == ASSUME NEW good PROVE IsStatus(run_checks(good), good)
<1> DEFINE Own(ck) == IF ck \in good THEN "pass" ELSE "fail"
           Root(ck) == ck \in {"jetpack_version", "disk_space", "pixhawk_symlink",
                               "health_service"}
           Next1(ck) == ck \in {"cuda", "python_ver", "oakd"}
           Next2(ck) == ck \in {"vslam_process", "vslam_params"}
           jetpack == "jetpack_version" \in good
           camera == jetpack /\ "oakd" \in good
           process == camera /\ "vslam_process" \in good
           bridge == process /\ "vslam_bridge" \in good
           Built(ck) ==
               IF Root(ck) THEN Own(ck)
               ELSE IF Next1(ck) THEN IF jetpack THEN Own(ck) ELSE "skip"
               ELSE IF Next2(ck) THEN IF camera THEN Own(ck) ELSE "skip"
               ELSE IF ck = "vslam_bridge" THEN IF process THEN Own(ck) ELSE "skip"
               ELSE IF bridge THEN Own(ck) ELSE "skip"
           built == [ck \in Critical |-> Built(ck)]
<1>1. \A ck \in Critical :
         Built(ck) = IF \E d \in depends_on[ck] : built[d] # "pass" THEN "skip"
                     ELSE Own(ck)
  <2> SUFFICES ASSUME NEW ck \in Critical
               PROVE  Built(ck) = IF \E d \in depends_on[ck] : built[d] # "pass"
                                  THEN "skip" ELSE Own(ck)
    OBVIOUS
  <2>1. CASE Root(ck)
    BY <2>1, Dependencies
  <2>2. CASE Next1(ck)
    BY <2>2, Dependencies DEF Critical
  <2>3. CASE Next2(ck)
    BY <2>3, Dependencies DEF Critical
  <2>4. CASE ck = "vslam_bridge"
    BY <2>4, Dependencies DEF Critical
  <2>5. CASE ck = "vslam_socket_active"
    BY <2>5, Dependencies DEF Critical
  <2> QED
    BY <2>1, <2>2, <2>3, <2>4, <2>5 DEF Critical
<1>2. IsStatus(built, good)
  <2> HIDE DEF Built
  <2> QED
    BY <1>1 DEF IsStatus
<1>3. run_checks(good) = CHOOSE st : IsStatus(st, good)
  BY DEF run_checks, IsStatus
<1> HIDE DEF built
<1> QED
  BY <1>2, <1>3

(* What the last verification lets pass: the checks outside HW_DEPENDENT   *)
(* that can fail at all look for Python and for the rules of udev.         *)
LEMMA InfraStatus ==
  ASSUME NEW f
  PROVE  LET status == run_checks(Good(f)) IN
         /\ status["jetpack_version"] = "pass" /\ status["cuda"] = "pass"
         /\ status["disk_space"] = "pass"
         /\ status["python_ver"] = IF "python" \in f THEN "pass" ELSE "fail"
         /\ status["pixhawk_symlink"] = IF "udev_loaded" \in f THEN "pass" ELSE "fail"
<1> DEFINE status == run_checks(Good(f))
<1>1. \A ck \in Critical :
         status[ck] = IF \E d \in depends_on[ck] : status[d] # "pass" THEN "skip"
                      ELSE IF ck \in Good(f) THEN "pass" ELSE "fail"
  BY RunChecks DEF IsStatus
<1>2. /\ {"jetpack_version", "cuda", "disk_space"} \subseteq Good(f)
      /\ "python_ver" \in Good(f) <=> "python" \in f
      /\ "pixhawk_symlink" \in Good(f) <=> "udev_loaded" \in f
  BY DEF Good
<1> HIDE DEF status
<1>3. status["jetpack_version"] = "pass"
  BY <1>1, <1>2, Dependencies DEF Critical
<1>4. /\ status["cuda"] = "pass" /\ status["disk_space"] = "pass"
      /\ status["python_ver"] = IF "python" \in f THEN "pass" ELSE "fail"
      /\ status["pixhawk_symlink"] = IF "udev_loaded" \in f THEN "pass" ELSE "fail"
  BY <1>1, <1>2, <1>3, Dependencies DEF Critical
<1> QED
  BY <1>3, <1>4 DEF status

LEMMA InfraBlocking ==
  ASSUME NEW f
  PROVE  /\ Blocking(run_checks(Good(f)), HW_DEPENDENT) = {} <=> {"python", "udev_loaded"} \subseteq f
         /\ Blocking(run_checks(Good(f)), DEFERRED_CHECKS) = {} <=> {"python", "udev_loaded"} \subseteq f
         /\ {"python", "udev_loaded"} \subseteq f =>
               \A ck \in Critical \ HW_DEPENDENT : run_checks(Good(f))[ck] = "pass"
<1> DEFINE status == run_checks(Good(f))
<1>1. /\ status["jetpack_version"] = "pass" /\ status["cuda"] = "pass"
      /\ status["disk_space"] = "pass"
      /\ status["python_ver"] = IF "python" \in f THEN "pass" ELSE "fail"
      /\ status["pixhawk_symlink"] = IF "udev_loaded" \in f THEN "pass" ELSE "fail"
  BY InfraStatus
<1> HIDE DEF status
<1>2. /\ Critical \ HW_DEPENDENT =
           {"jetpack_version", "cuda", "disk_space", "python_ver", "pixhawk_symlink"}
      /\ DEFERRED_CHECKS = HW_DEPENDENT
  BY DEF Critical, HW_DEPENDENT, DEFERRED_CHECKS
<1>3. Blocking(status, HW_DEPENDENT) = {} <=> {"python", "udev_loaded"} \subseteq f
  BY <1>1, <1>2 DEF Blocking
<1>4. {"python", "udev_loaded"} \subseteq f =>
         \A ck \in Critical \ HW_DEPENDENT : status[ck] = "pass"
  BY <1>1, <1>2
<1> QED
  BY <1>2, <1>3, <1>4 DEF status

(* What is observed beside the facts themselves, and that it only grows    *)
(* with them: the checks that an active service makes fail are exempt.     *)
LEMMA ObservedIs ==
  ASSUME NEW f
  PROVE  Observed(f) = f \cup {v \in {"verified", "infra_verified"} :
                                  {"python", "udev_loaded"} \subseteq f}
  BY InfraBlocking DEF Observed

LEMMA ObservedGrows ==
  ASSUME NEW f, NEW g, f \subseteq g
  PROVE  Observed(f) \subseteq Observed(g)
  BY ObservedIs

-----------------------------------------------------------------------------
(* The invariant                                                           *)

(* The loop is at a command of the table, and has no outcome before its    *)
(* end.                                                                    *)
Placed ==
    /\ i \in DOMAIN Steps /\ k \in DOMAIN Steps[i].commands
    /\ phase \in {"idle", "loop", "exec"}
    /\ phase # "exec" => k = 1
    /\ phase # "idle" => outcome = "none"

(* No fact is made up, and none is there without what it is linked to --   *)
(* the SLAM node without its libraries --, on the Jetson or in the archive *)
Closed(f) ==
    /\ {"never", "verified", "infra_verified"} \cap f = {}
    /\ \A l \in Linked : l[1] \in f => l[2] \in f

(* The archive holds what was there to be packed.                          *)
Consistent(f, packed) ==
    Closed(f) /\ Closed(packed) /\ packed \subseteq Libraries \cup {"renderer"}

(* Commands of the present step that must succeed, and lie behind, have.   *)
Executed ==
    phase = "exec" =>
        \A j \in 1 .. k - 1 :
            Reactions(Steps[i].commands[j]) = {"raise"} =>
                Ensured(Steps[i].commands[j]) \subseteq Observed(facts)

(* Step n was left behind with what it secures, where the facts g hold.    *)
Left(n, g) ==
    \A f \in Sure(n) : f \in Observed(g) \/ (MayDecline /\ Steps[n].needs_confirm)

FullRun == opts.step = "none" /\ opts.from_step = "none"

(* In a full run without a failed step everything behind the loop is       *)
(* secured, and what is not yet in the present step is ahead of its        *)
(* command.                                                                *)
Behind ==
    FullRun /\ phase # "idle" /\ failures = {} => \A n \in 1 .. i - 1 : Left(n, facts)
Ahead ==
    FullRun /\ phase = "exec" /\ failures = {} =>
        \A f \in Sure(i) : \/ f \in Observed(facts)
                           \/ \E q \in DOMAIN Steps[i].commands : q >= k /\ Secures(i, q, f)
Completed == FullRun /\ outcome = "complete" => \A n \in DOMAIN Steps : Left(n, facts)

IInv ==
    /\ Placed /\ Consistent(facts, archived) /\ Executed
    /\ Behind /\ Ahead /\ Completed

-----------------------------------------------------------------------------
(* The table                                                               *)

LEMMA Table ==
  /\ Len(Steps) \in Nat \ {0} /\ DOMAIN Steps = 1 .. Len(Steps)
  /\ \A n \in DOMAIN Steps :
        /\ Steps[n].commands \in Seq(Commands)
        /\ Len(Steps[n].commands) \in Nat \ {0}
        /\ DOMAIN Steps[n].commands = 1 .. Len(Steps[n].commands)
<1> DEFINE Record == [name : STRING, gate : BOOLEAN, needs_confirm : BOOLEAN,
                      check : SUBSET STRING, commands : Seq(Commands) \ {<<>>}]
<1>1. Steps \in Seq(Record) /\ Steps # <<>>
  BY TableAssumption
<1>2. Len(Steps) \in Nat \ {0} /\ DOMAIN Steps = 1 .. Len(Steps)
  <2> HIDE DEF Record
  <2> QED
    BY <1>1
<1>3. ASSUME NEW n \in DOMAIN Steps
      PROVE  Steps[n].commands \in Seq(Commands) /\ Steps[n].commands # <<>>
  <2>1. Steps[n] \in Record
    <3> HIDE DEF Record
    <3> QED
      BY <1>1, <1>3
  <2> QED
    BY <2>1
<1>4. ASSUME NEW q \in Seq(Commands), q # <<>>
      PROVE  Len(q) \in Nat \ {0} /\ DOMAIN q = 1 .. Len(q)
  BY <1>4
<1> QED
  BY <1>2, <1>3, <1>4

(* What the links are, one by one.                                         *)
LEMMA Links ==
  /\ \A l \in Linked :
        /\ l[1] \in {"slam_node", "cli", "dirs"}
        /\ l[2] \in {"rtabmap", "depthai", "python", "udev_loaded"}
        /\ l[1] = "slam_node" => l[2] \in {"rtabmap", "depthai"}
  /\ \A f \in {"rtabmap", "depthai"} : <<"slam_node", f>> \in Linked
  BY DEF Linked

(* The facts after a command that was done: they grow, stay closed, and    *)
(* have what the command ensures.                                          *)
LEMMA Done ==
  ASSUME IInv, phase = "exec", Met, Takes
  PROVE  /\ facts \subseteq facts' /\ Consistent(facts', archived')
         /\ Ensured(c) \subseteq Observed(facts')
<1>0. c = Steps[i].commands[k] /\ i \in DOMAIN Steps /\ k \in DOMAIN Steps[i].commands
  BY DEF IInv, Placed, s, c
<1>1. {"never", "verified", "infra_verified"} \cap c.does = {}
  BY <1>0, TableAssumption
<1>2. c.needs \subseteq Observed(facts)
  BY DEF Met, Doable
<1>3. ASSUME NEW l \in Linked, l[1] \in c.does \ {"tar"},
             {"reboot", "restored"} \cap c.does = {}
      PROVE  l[2] \in facts \cup (c.does \ {"tar"})
  <2>1. \/ l[2] \in Ensured(c)
        \/ \E j \in 1 .. k - 1 : /\ Reactions(Steps[i].commands[j]) = {"raise"}
                                 /\ l[2] \in Ensured(Steps[i].commands[j])
    BY <1>0, <1>3, TableAssumption
  <2>2. CASE l[2] \in Ensured(c)
    BY <1>2, <1>3, <2>2, Links, ObservedIs DEF Ensured
  <2>3. CASE l[2] \in Observed(facts)
    BY <1>3, <2>3, Links, ObservedIs
  <2> QED
    BY <2>1, <2>2, <2>3 DEF IInv, Executed
<1>4. /\ Closed(facts) /\ Closed(archived)
      /\ archived \subseteq Libraries \cup {"renderer"}
  BY DEF IInv, Consistent
<1>5. Closed(facts \cap (Libraries \cup {"renderer"}))
  BY <1>4, Links DEF Closed, Libraries
<1>6. CASE "reboot" \in c.does
  <2>1. facts' \in {facts, Boot(facts)} /\ archived' = archived
    BY <1>6 DEF Takes
  <2>2. facts \subseteq facts' /\ Closed(facts')
    BY <1>4, <2>1, Links DEF Boot, Closed
  <2>3. Ensured(c) = c.needs
    BY <1>6 DEF Ensured
  <2> QED
    BY <1>2, <1>4, <2>1, <2>2, <2>3, ObservedGrows DEF Consistent
<1>7. CASE "reboot" \notin c.does /\ "restored" \in c.does
  <2>1. facts' = facts \cup archived
    BY <1>7 DEF Takes
  <2>2. archived' = archived \/ archived' = facts \cap (Libraries \cup {"renderer"})
    BY <1>7 DEF Takes
  <2>3. facts \subseteq facts' /\ Closed(facts')
    BY <1>4, <2>1 DEF Closed
  <2>4. Ensured(c) = c.needs
    BY <1>7 DEF Ensured
  <2> QED
    BY <1>2, <1>4, <1>5, <2>2, <2>3, <2>4, ObservedGrows DEF Consistent
<1>8. CASE "reboot" \notin c.does /\ "restored" \notin c.does
  <2>1. facts' = facts \cup (c.does \ {"tar"})
    BY <1>8 DEF Takes
  <2>2. archived' = archived \/ archived' = facts \cap (Libraries \cup {"renderer"})
    BY <1>8 DEF Takes
  <2>3. facts \subseteq facts' /\ Closed(facts')
    BY <1>1, <1>3, <1>4, <1>8, <2>1 DEF Closed
  <2>4. Ensured(c) = c.needs \cup (c.does \ {"tar"})
    BY <1>8 DEF Ensured
  <2>5. c.does \ {"tar"} \subseteq Observed(facts')
    BY <2>1, ObservedIs
  <2> QED
    BY <1>2, <1>4, <1>5, <2>2, <2>3, <2>4, <2>5, ObservedGrows DEF Consistent
<1> QED
  BY <1>6, <1>7, <1>8

(* The facts that were secured stay so when facts are added.               *)
LEMMA LeftStays ==
  ASSUME NEW n, NEW f, NEW g, f \subseteq g, Left(n, f)
  PROVE  Left(n, g)
  BY ObservedGrows DEF Left

-----------------------------------------------------------------------------
(* The ways in which the loop moves                                        *)

LEMMA Advances ==
  ASSUME IInv, phase # "idle", NEW failed, Advance(failed),
         facts \subseteq facts', Consistent(facts', archived'),
         FullRun /\ failures = {} /\ failed = {} => Left(i, facts')
  PROVE  IInv'
<1> DEFINE ends == i = Len(Steps) \/ opts.step # "none"
<1>1. /\ failures' = failures \cup failed /\ k' = 1 /\ opts' = opts
      /\ i' = IF ends THEN 1 ELSE i + 1
      /\ phase' = IF ends THEN "idle" ELSE "loop"
      /\ outcome' = IF ~ends THEN outcome
                    ELSE IF failures' = {} THEN "complete" ELSE "failed"
  BY DEF Advance
<1>2. i \in 1 .. Len(Steps) /\ Len(Steps) \in Nat /\ 1 \in DOMAIN Steps
  BY Table DEF IInv, Placed
<1>3. outcome = "none"
  BY DEF IInv, Placed
<1>4. Placed'
  <2>1. i' \in DOMAIN Steps
    BY <1>1, <1>2, Table
  <2>2. 1 \in DOMAIN Steps[i'].commands
    BY <2>1, Table
  <2> QED
    BY <1>1, <1>3, <2>1, <2>2 DEF Placed
<1>5. FullRun /\ failures' = {} => \A n \in 1 .. i : Left(n, facts')
  <2> SUFFICES ASSUME FullRun, failures' = {}, NEW n \in 1 .. i
               PROVE  Left(n, facts')
    OBVIOUS
  <2>1. failures = {} /\ failed = {}
    BY <1>1
  <2>2. CASE n = i
    BY <2>1, <2>2
  <2>3. CASE n # i
    <3>1. n \in 1 .. i - 1
      BY <1>2, <2>3
    <3>2. Left(n, facts)
      BY <2>1, <3>1 DEF IInv, Behind
    <3> QED
      BY <3>2, LeftStays
  <2> QED
    BY <2>2, <2>3
<1>6. FullRun' <=> FullRun
  BY <1>1 DEF FullRun
<1>7. Behind'
  <2>1. phase' # "idle" => i' = i + 1
    BY <1>1
  <2>2. i' = i + 1 => 1 .. i' - 1 = 1 .. i
    BY <1>2
  <2> QED
    BY <1>5, <1>6, <2>1, <2>2 DEF Behind
<1>8. Ahead' /\ Executed'
  BY <1>1 DEF Ahead, Executed
<1>9. Completed'
  <2>1. FullRun' /\ outcome' = "complete" => i = Len(Steps) /\ failures' = {}
    BY <1>1, <1>3, <1>6 DEF FullRun
  <2> QED
    BY <1>5, <1>6, <2>1, Table DEF Completed
<1> QED
  BY <1>4, <1>7, <1>8, <1>9 DEF IInv

LEMMA Aborts ==
  ASSUME IInv, Abort, Consistent(facts', archived')
  PROVE  IInv'
<1>1. phase' = "idle" /\ i' = 1 /\ k' = 1 /\ outcome' = "failed"
  BY DEF Abort
<1>2. 1 \in DOMAIN Steps /\ 1 \in DOMAIN Steps[1].commands
  BY Table
<1> QED
  BY <1>1, <1>2 DEF IInv, Placed, Executed, Behind, Ahead, Completed

(* A failing step: its failure is recorded, so nothing is claimed of it.   *)
LEMMA Fails ==
  ASSUME IInv, phase # "idle", StepFails,
         facts \subseteq facts', Consistent(facts', archived')
  PROVE  IInv'
<1>1. CASE Abort
  BY <1>1, Aborts
<1>2. CASE Advance({s.name})
  <2>1. {s.name} # {}
    OBVIOUS
  <2> QED
    BY <1>2, <2>1, Advances
<1> QED
  BY <1>1, <1>2 DEF StepFails

(* The step goes on behind a command that secures nothing any more.        *)
LEMMA GoesOn ==
  ASSUME IInv, phase = "exec", NextCommand,
         facts \subseteq facts', Consistent(facts', archived'),
         Reactions(c) = {"raise"} => Ensured(c) \subseteq Observed(facts'),
         FullRun /\ failures = {} =>
            \A f \in Sure(i) : f \in Observed(facts') \/ ~Secures(i, k, f)
  PROVE  IInv'
<1> DEFINE last == Len(Steps[i].commands)
<1>1. /\ i \in DOMAIN Steps /\ last \in Nat /\ k \in 1 .. last
      /\ DOMAIN Steps[i].commands = 1 .. last
  BY Table DEF IInv, Placed
<1>2. ASSUME FullRun, failures = {}, NEW f \in Sure(i)
      PROVE  \/ f \in Observed(facts')
             \/ \E q \in DOMAIN Steps[i].commands : q >= k + 1 /\ Secures(i, q, f)
  <2>1. CASE f \in Observed(facts)
    BY <2>1, ObservedGrows
  <2>2. CASE \E q \in DOMAIN Steps[i].commands : q >= k /\ Secures(i, q, f)
    <3>1. PICK q \in DOMAIN Steps[i].commands : q >= k /\ Secures(i, q, f)
      BY <2>2
    <3>2. CASE q = k
      BY <1>2, <3>1, <3>2
    <3>3. CASE q # k
      BY <1>1, <3>1, <3>3
    <3> QED
      BY <3>2, <3>3
  <2> QED
    BY <1>2, <2>1, <2>2 DEF IInv, Ahead
<1>3. CASE k < last
  <2>1. k' = k + 1 /\ UNCHANGED <<opts, phase, i, failures, outcome>>
    BY <1>3 DEF NextCommand, s
  <2>2. Placed'
    BY <1>1, <1>3, <2>1 DEF IInv, Placed
  <2>3. Behind' /\ Completed'
    BY <2>1, LeftStays DEF IInv, Behind, Completed, FullRun, Placed
  <2>4. Ahead'
    BY <1>2, <2>1 DEF Ahead, FullRun
  <2>5. Executed'
    <3> SUFFICES ASSUME NEW j \in 1 .. k, Reactions(Steps[i].commands[j]) = {"raise"}
                 PROVE  Ensured(Steps[i].commands[j]) \subseteq Observed(facts')
      BY <1>1, <2>1 DEF Executed
    <3>1. CASE j = k
      BY <3>1 DEF c, s
    <3>2. CASE j # k
      <4>1. j \in 1 .. k - 1
        BY <1>1, <3>2
      <4> QED
        BY <4>1, ObservedGrows DEF IInv, Executed
    <3> QED
      BY <3>1, <3>2
  <2> QED
    BY <2>2, <2>3, <2>4, <2>5 DEF IInv
<1>4. CASE ~(k < last)
  <2>1. Advance({})
    BY <1>4 DEF NextCommand, s
  <2>2. FullRun /\ failures = {} => Left(i, facts')
    <3> SUFFICES ASSUME FullRun, failures = {}, NEW f \in Sure(i)
                 PROVE  f \in Observed(facts')
      BY DEF Left
    <3>1. \A q \in DOMAIN Steps[i].commands : ~(q >= k + 1)
      BY <1>1, <1>4
    <3> QED
      BY <1>2, <3>1
  <2> QED
    BY <2>1, <2>2, Advances
<1> QED
  BY <1>3, <1>4

(* What the code does with a command that did not succeed: where something *)
(* is still to be secured, it does not return, and it ignores only what is *)
(* not needed for that.                                                    *)
LEMMA Reacts ==
  ASSUME IInv, phase = "exec", NEW how \in Reactions(c), React(how),
         facts \subseteq facts', Consistent(facts', archived')
  PROVE  IInv'
<1>1. c = Steps[i].commands[k]
  BY DEF c, s
<1>2. /\ i \in DOMAIN Steps /\ k \in Nat
      /\ \A q \in DOMAIN Steps[i].commands : q \in Nat \ {0}
      /\ k \in DOMAIN Steps[i].commands
  BY Table DEF IInv, Placed
<1>3. CASE how = "raise" /\ StepFails
  BY <1>3, Fails
<1>4. CASE how = "ignore" /\ NextCommand
  <2>1. (\A f : ~Secures(i, k, f)) /\ Reactions(c) # {"raise"}
    BY <1>1, <1>4 DEF Secures
  <2> QED
    BY <1>4, <2>1, GoesOn
<1>5. CASE how = "return" /\ Advance({})
  <2>1. ASSUME NEW f, NEW q \in DOMAIN Steps[i].commands, q >= k
        PROVE  ~Secures(i, q, f)
    <3>1. CASE q = k
      BY <1>1, <1>5, <3>1 DEF Secures
    <3>2. CASE q # k
      <4>1. k \in 1 .. q - 1
        BY <1>2, <2>1, <3>2
      <4> QED
        BY <1>1, <1>5, <4>1 DEF Secures
    <3> QED
      BY <3>1, <3>2
  <2>2. FullRun /\ failures = {} => \A f \in Sure(i) : f \in Observed(facts)
    BY <2>1 DEF IInv, Ahead
  <2>3. FullRun /\ failures = {} => Left(i, facts')
    BY <2>2, ObservedGrows DEF Left
  <2> QED
    BY <1>5, <2>3, Advances
<1>6. CASE how = "again" /\ UNCHANGED loopVars
  <2>1. UNCHANGED <<opts, phase, i, k, failures, outcome>>
    BY <1>6 DEF loopVars
  <2>2. Placed'
    BY <2>1 DEF IInv, Placed
  <2>3. Behind' /\ Completed'
    BY <2>1, LeftStays DEF IInv, Behind, Completed, FullRun
  <2>4. Ahead'
    BY <2>1, ObservedGrows DEF IInv, Ahead, FullRun
  <2>5. Executed'
    BY <2>1, ObservedGrows DEF IInv, Executed
  <2> QED
    BY <2>2, <2>3, <2>4, <2>5 DEF IInv
<1> QED
  BY <1>3, <1>4, <1>5, <1>6 DEF React
-----------------------------------------------------------------------------
LEMMA InitIInv == Init => IInv
<1> SUFFICES ASSUME Init PROVE IInv
  OBVIOUS
<1>1. 1 \in DOMAIN Steps /\ 1 \in DOMAIN Steps[1].commands
  BY Table
<1> QED
  BY <1>1 DEF Init, IInv, Placed, Closed, Consistent, Executed, Behind, Ahead, Completed

(* A step whose check is satisfied has what it secures.                    *)
LEMMA SatisfiedIsLeft ==
  ASSUME Closed(facts), Satisfied
  PROVE  Left(i, facts)
<1> SUFFICES ASSUME NEW f \in Sure(i) PROVE f \in Observed(facts)
  BY DEF Left
<1>1. "never" \notin Steps[i].check
  BY DEF Satisfied, s, Closed
<1>2. f \in facts
  BY <1>1 DEF Sure, Satisfied, s
<1> QED
  BY <1>2, ObservedIs

(* The commands of a step lie before it: all that it secures is ahead.     *)
LEMMA Begins ==
  ASSUME IInv, phase = "loop", phase' = "exec",
         UNCHANGED <<opts, i, k, failures, outcome, facts, archived>>
  PROVE  IInv'
<1>1. i \in DOMAIN Steps /\ k = 1 /\ \A q \in DOMAIN Steps[i].commands : q >= 1
  BY Table DEF IInv, Placed
<1>2. Placed'
  BY DEF IInv, Placed
<1>3. Behind' /\ Completed'
  BY DEF IInv, Behind, Completed, FullRun
<1>4. Ahead'
  BY <1>1 DEF Ahead, Sure
<1>5. Executed'
  BY <1>1 DEF Executed
<1> QED
  BY <1>2, <1>3, <1>4, <1>5 DEF IInv

(* What the parallel block leaves: what the builds that succeed are for,   *)
(* and perhaps a half clone.                                               *)
LEMMA BuildsEnd ==
  ASSUME ParallelBuilds
  PROVE  \E ok \in SUBSET Buildable, left \in SUBSET {"depthai_half"} :
            facts' = facts \cup left \cup UNION {Purpose(Steps[n]) : n \in ok}
<1>1. PICK ok \in SUBSET Buildable :
         \E left \in SUBSET UNION {Leaves(Purpose(Steps[n])) : n \in Buildable \ ok} :
            facts' = facts \cup left \cup UNION {Purpose(Steps[n]) : n \in ok}
  BY DEF ParallelBuilds
<1>2. UNION {Leaves(Purpose(Steps[n])) : n \in Buildable \ ok} \subseteq {"depthai_half"}
  BY DEF Leaves
<1> QED
  BY <1>1, <1>2

LEMMA NextIInv == IInv /\ [Next]_vars => IInv'
<1> SUFFICES ASSUME IInv, [Next]_vars PROVE IInv'
  OBVIOUS
<1>c. Consistent(facts, archived) /\ Closed(facts) /\ Placed
  BY DEF IInv, Consistent
<1>s. ASSUME UNCHANGED jetsonVars
      PROVE  facts' = facts /\ archived' = archived
  BY <1>s DEF jetsonVars
<1>u. ASSUME Undone
      PROVE  facts \subseteq facts' /\ Consistent(facts', archived')
  <2>1. facts \subseteq facts' /\ facts' \subseteq facts \cup {"depthai_half"}
    BY <1>u, <1>s DEF Undone, Leaves
  <2>2. archived' = archived
    BY <1>u, <1>s DEF Undone
  <2> QED
    BY <1>c, <2>1, <2>2, Links DEF Consistent, Closed
<1>b. ASSUME Steps[i].name \in Bypassed
      PROVE  \A g : Left(i, g)
  BY <1>b DEF Left, Sure
<1>1. ASSUME NEW o \in Options, Invoke(o) PROVE IInv'
  <2>1. /\ phase' = "loop" /\ k' = 1 /\ outcome' = "none" /\ opts' = o
        /\ i' = IF o.step = "none" THEN 1 ELSE IndexOf(o.step)
        /\ facts' = facts /\ archived' = archived
    BY <1>1 DEF Invoke, jetsonVars
  <2>2. i' \in DOMAIN Steps
    <3>1. CASE o.step = "none"
      BY <2>1, <3>1, Table
    <3>2. CASE o.step # "none"
      <4>1. \E n \in DOMAIN Steps : Steps[n].name = o.step
        BY <3>2, BringupAssumption DEF Names
      <4> QED
        BY <2>1, <3>2, <4>1 DEF IndexOf
    <3> QED
      BY <3>1, <3>2
  <2>3. Placed'
    BY <2>1, <2>2, Table DEF Placed
  <2>4. FullRun' => i' = 1
    BY <2>1 DEF FullRun
  <2>5. Behind' /\ Ahead' /\ Completed' /\ Executed'
    BY <2>1, <2>4 DEF Behind, Ahead, Completed, Executed
  <2> QED
    BY <1>c, <2>1, <2>3, <2>5 DEF IInv
<1>2. CASE ParallelBuilds
  <2>1. /\ phase = "loop" /\ s.name = "build-rtabmap" /\ archived' = archived
        /\ \E failed : Abort \/ Advance(failed)
    BY <1>2 DEF ParallelBuilds
  <2>2. facts \subseteq facts' /\ Consistent(facts', archived')
    <3>1. PICK ok \in SUBSET Buildable :
             \E left : /\ facts' = facts \cup left \cup UNION {Purpose(Steps[n]) : n \in ok}
                       /\ left \subseteq {"depthai_half"}
      BY <1>2, BuildsEnd
    <3>2. ASSUME NEW n \in ok
          PROVE  /\ {"never", "verified", "infra_verified"} \cap Purpose(Steps[n]) = {}
                 /\ \A l \in Linked : l[1] \notin Purpose(Steps[n])
      <4>1. n \in DOMAIN Steps /\ Steps[n].name \in Bypassed
        BY <3>1, <3>2 DEF Buildable, Needed, Bypassed
      <4>2. \A q \in DOMAIN Steps[n].commands :
               /\ {"never", "verified", "infra_verified"}
                     \cap Steps[n].commands[q].does = {}
               /\ \A l \in Linked : l[1] \notin Steps[n].commands[q].does
        BY <4>1, TableAssumption
      <4> QED
        BY <4>2 DEF Purpose
    <3>3. PICK left \in SUBSET {"depthai_half"} :
             facts' = facts \cup left \cup UNION {Purpose(Steps[n]) : n \in ok}
      BY <3>1
    <3>4. "depthai_half" \notin {"never", "verified", "infra_verified"}
             /\ \A l \in Linked : l[1] # "depthai_half"
      BY Links
    <3>5. facts \subseteq facts'
      BY <3>3
    <3>6. \A f \in facts' :
             \/ f \in facts
             \/ f \notin {"never", "verified", "infra_verified"} /\ \A l \in Linked : l[1] # f
      BY <3>2, <3>3, <3>4
    <3>7. Closed(facts')
      BY <1>c, <3>5, <3>6 DEF Closed
    <3> QED
      BY <1>c, <2>1, <3>5, <3>7 DEF Consistent
  <2>3. Left(i, facts')
    BY <1>b, <2>1 DEF s, Bypassed
  <2> QED
    BY <1>c, <2>1, <2>2, <2>3, Aborts, Advances
<1>3. CASE ParallelSkip
  <2>1. /\ phase = "loop" /\ s.name = "build-depthai" /\ Advance({})
        /\ facts' = facts /\ archived' = archived
    BY <1>3, <1>s DEF ParallelSkip
  <2>2. Left(i, facts')
    BY <1>b, <2>1 DEF s, Bypassed
  <2> QED
    BY <1>c, <2>1, <2>2, Advances
<1>4. CASE SkipBefore
  <2>1. /\ phase = "loop" /\ Advance({}) /\ ~FullRun
        /\ facts' = facts /\ archived' = archived
    BY <1>4, <1>s DEF SkipBefore, Sequential, Before, FullRun
  <2> QED
    BY <1>c, <2>1, Advances
<1>5. CASE SkipSatisfied
  <2>1. /\ phase = "loop" /\ Advance({}) /\ Satisfied
        /\ facts' = facts /\ archived' = archived
    BY <1>5, <1>s DEF SkipSatisfied, Sequential
  <2> QED
    BY <1>c, <2>1, SatisfiedIsLeft, Advances
<1>6. CASE CheckLost
  <2>1. phase = "loop"
    BY <1>6 DEF CheckLost, Sequential
  <2>2. CASE s.name = "clear-host-key"
    <3>1. Advance({}) /\ facts' = facts /\ archived' = archived
      BY <1>6, <1>s, <2>2 DEF CheckLost
    <3>2. Left(i, facts')
      BY <1>b, <2>2 DEF s, Bypassed
    <3> QED
      BY <1>c, <2>1, <3>1, <3>2, Advances
  <2>3. CASE s.name # "clear-host-key"
    BY <1>6, <2>1, <2>3, Begins DEF CheckLost
  <2> QED
    BY <2>2, <2>3
<1>7. CASE Execute
  BY <1>7, Begins DEF Execute, Sequential
<1>8. CASE Decline
  <2>1. /\ phase = "exec" /\ Advance({}) /\ MayDecline /\ s.needs_confirm
        /\ facts' = facts /\ archived' = archived
    BY <1>8, <1>s DEF Decline
  <2>2. Left(i, facts')
    BY <2>1 DEF Left, s
  <2> QED
    BY <1>c, <2>1, <2>2, Advances
<1>9. CASE CommandOk
  <2>1. phase = "exec" /\ Met /\ Takes /\ NextCommand
    BY <1>9 DEF CommandOk
  <2>2. /\ facts \subseteq facts' /\ Consistent(facts', archived')
        /\ Ensured(c) \subseteq Observed(facts')
    BY <2>1, Done
  <2>3. "never" \notin c.needs
    BY <1>c, <2>1, ObservedIs DEF Met, Doable, Closed
  <2>4. \A f : Secures(i, k, f) => f \in Observed(facts')
    BY <2>2, <2>3 DEF Secures, c, s
  <2> QED
    BY <2>1, <2>2, <2>4, GoesOn
<1>10. CASE CommandUnmet
  BY <1>10, <1>c, <1>s, Reacts DEF CommandUnmet, Reactions
<1>11. CASE CommandLost
  <2>1. phase = "exec" /\ React(c.lost) /\ c.lost \in Reactions(c)
    BY <1>11 DEF CommandLost, Reactions
  <2>2. facts \subseteq facts' /\ Consistent(facts', archived')
    BY <1>11, <1>u, <2>1, Done DEF CommandLost
  <2> QED
    BY <2>1, <2>2, Reacts
<1>12. CASE CommandFails
  BY <1>12, <1>u, Reacts DEF CommandFails, Reactions
<1>13. CASE Interrupted
  BY <1>13, <1>u, Aborts DEF Interrupted
<1>14. CASE LateReboot
  <2>1. /\ UNCHANGED <<opts, phase, i, k, failures, outcome>> /\ archived' = archived
        /\ facts' = Boot(facts)
    BY <1>14 DEF LateReboot, loopVars
  <2>2. facts \subseteq facts' /\ Consistent(facts', archived')
    BY <1>c, <2>1, Links DEF Boot, Closed, Consistent
  <2>3. Placed'
    BY <2>1 DEF IInv, Placed
  <2>4. Behind' /\ Completed'
    BY <2>1, <2>2, LeftStays DEF IInv, Behind, Completed, FullRun
  <2>5. Ahead' /\ Executed'
    BY <2>1, <2>2, ObservedGrows DEF IInv, Ahead, FullRun, Executed
  <2> QED
    BY <1>c, <2>1, <2>2, <2>3, <2>4, <2>5 DEF IInv
<1>15. CASE Reflash
  <2>1. /\ phase = "idle" /\ outcome' = "none" /\ UNCHANGED <<opts, phase, i, k, failures>>
        /\ facts' = facts \cap {"archive", "archive_whole", "camera"} /\ archived' = archived
    BY <1>15 DEF Reflash
  <2>2. Consistent(facts', archived')
    BY <1>c, <2>1, Links DEF Closed, Consistent
  <2> QED
    BY <1>c, <2>1, <2>2 DEF IInv, Placed, Executed, Behind, Ahead, Completed
<1>16. CASE ByHand
  <2>1. /\ phase = "idle" /\ outcome' = "none" /\ UNCHANGED <<opts, phase, i, k, failures>>
        /\ archived' = archived
        /\ \E f \in Brings : facts' = facts \cup f
    BY <1>16 DEF ByHand
  <2>2. PICK f \in SUBSET {"build_deps", "camera"} : facts' = facts \cup f
    BY <2>1, BringupAssumption DEF Manual
  <2>3. Consistent(facts', archived')
    BY <1>c, <2>1, <2>2, Links DEF Closed, Consistent
  <2> QED
    BY <1>c, <2>1, <2>3 DEF IInv, Placed, Executed, Behind, Ahead, Completed
<1>17. CASE Finished \/ UNCHANGED vars
  <2>1. UNCHANGED <<opts, phase, i, k, failures, outcome, facts, archived>>
    BY <1>17 DEF Finished, vars, loopVars, jetsonVars
  <2> QED
    BY <2>1 DEF IInv, Placed, Executed, Behind, Ahead, Completed, FullRun
<1> QED
  BY <1>1, <1>2, <1>3, <1>4, <1>5, <1>6, <1>7, <1>8, <1>9, <1>10, <1>11, <1>12, <1>13,
     <1>14, <1>15, <1>16, <1>17 DEF Next, Run

(* "Bringup complete!" of a full run means that every step with a check    *)
(* would be found satisfied, but for the archive and for steps that were   *)
(* declined, and that no critical check of the probe was merely skipped:   *)
(* after any number of lost and failed commands, interruptions, late       *)
(* reboots, re-flashes and repetitions, in sequence or with the parallel   *)
(* builds whose threads end unrecorded.                                    *)
THEOREM CompleteIsTrue == Spec => []CompleteIsSatisfied
<1>1. ASSUME IInv, FullRun, outcome = "complete" PROVE StepsSatisfied /\ CriticalPass
  <2>1. \A n \in DOMAIN Steps : Left(n, facts)
    BY <1>1 DEF IInv, Completed
  <2>2. Closed(facts)
    BY <1>1 DEF IInv, Consistent
  <2>3. ASSUME NEW n \in DOMAIN Steps, ~Exempt(n), ~(MayDecline /\ Steps[n].needs_confirm),
               NEW f \in Steps[n].check
        PROVE  f \in facts
    <3>1. PICK m \in DOMAIN Steps :
             /\ Steps[m].needs_confirm => Steps[n].needs_confirm
             /\ \/ f \in Sure(m)
                \/ f \in {"rtabmap", "depthai"} /\ "slam_node" \in Sure(m)
      BY <2>3, TableAssumption DEF Covered
    <3>2. PICK g \in Sure(m) : g = f \/ (g = "slam_node" /\ f \in {"rtabmap", "depthai"})
      BY <3>1
    <3>3. g \in Observed(facts)
      BY <2>1, <2>3, <3>1 DEF Left
    <3>4. f \notin {"verified", "infra_verified"}
      BY <2>3, TableAssumption
    <3>5. g \in facts
      BY <3>2, <3>3, <3>4, ObservedIs
    <3> QED
      BY <2>2, <3>2, <3>5, Links DEF Closed
  <2>4. StepsSatisfied
    BY <2>3 DEF StepsSatisfied, Exempt
  <2>5. "infra_verified" \in Observed(facts)
    <3>1. PICK m \in DOMAIN Steps : ~Steps[m].needs_confirm /\ "infra_verified" \in Sure(m)
      BY TableAssumption DEF Covered
    <3> QED
      BY <2>1, <3>1 DEF Left
  <2>6. {"python", "udev_loaded"} \subseteq facts
    BY <2>2, <2>5, ObservedIs DEF Closed
  <2> QED
    BY <2>4, <2>6, InfraBlocking DEF CriticalPass
<1>2. IInv => CompleteIsSatisfied
  BY <1>1 DEF CompleteIsSatisfied, FullRun
<1> QED
  BY <1>2, InitIInv, NextIInv, PTL DEF Spec

-----------------------------------------------------------------------------
(* Undisturbed runs                                                        *)

CleanRun == FullRun /\ ~hit

(* The run cannot succeed any more: a step was cut off in an earlier run   *)
(* and is now skipped as satisfied, or cannot be repeated; the archive is  *)
(* behind, and a library is there without its headers, and not being       *)
(* built; or something is missing that no step brings.                     *)
Escape ==
    \/ HardenCut /\ ~(phase = "exec" /\ s.name = "harden-os")
    \/ ArchiveCut /\ ~(phase = "exec" /\ s.name = "archive-binaries")
    \/ CloneCut /\ PastRestore(i)
    \/ /\ PastRestore(i) /\ "slam_node" \notin facts
       /\ \E l \in Headers : /\ l[1] \in facts /\ l[2] \notin facts
                             /\ ~(phase = "exec" /\ s.check = {l[1]})
    \/ Unprepared

(* What a late step is there for is not done before its last command.      *)
Pending == phase = "exec" /\ s.name \in Late => ~Satisfied

(* Nothing has failed, and what can be known at this place holds.  After   *)
(* the parallel block both builds are done.                                *)
Reliable ==
    /\ failures = {}
    /\ phase = "loop" => Known[i - 1] \subseteq Observed(facts)
    /\ phase = "exec" =>
          /\ ~Idle(Known, i)
          /\ Within[i][k - 1] \subseteq Observed(facts)
          /\ ~(Parallel /\ s.name = "build-rtabmap")
    /\ Pending
    /\ Parallel /\ (\E m \in 1 .. i - 1 : Steps[m].name = "build-rtabmap") =>
          \A n \in DOMAIN Steps : Steps[n].name \in Builds => Steps[n].check \subseteq facts

CleanInv ==
    /\ CleanRun /\ phase # "idle" => Escape \/ Reliable
    /\ CleanRun /\ outcome = "failed" => Stuck

(* What is concluded from observed facts is observed, unless a step was    *)
(* cut off.                                                                *)
LEMMA Concludes ==
  ASSUME NEW g, Closed(g), NEW f, f \subseteq Observed(g), NEW in,
         in = "harden-os" \/ ~({"headless", "sshd_conf"} \subseteq g /\ "usb_params" \notin g),
         in = "archive-binaries" \/ ~("archive" \in g /\ "archive_whole" \notin g),
         in = "build-slam-node" => \A l \in Headers : l[1] \in g => l[2] \in g
  PROVE  Concluded(f, in) \subseteq Observed(g)
<1> DEFINE linked == {l[2] : l \in {l1 \in Linked : l1[1] \in f}}
           usb == {u \in {"usb_params"} : /\ in # "harden-os"
                                          /\ {"headless", "sshd_conf"} \subseteq f}
           whole == {u \in {"archive_whole"} : in # "archive-binaries" /\ "archive" \in f}
           headers == {l[2] : l \in {l1 \in Headers : l1[1] \in f /\ in = "build-slam-node"}}
           all == f \cup linked \cup headers \cup usb \cup whole
<1>1. \A x \in f : x \in g \/ x \in {"verified", "infra_verified"}
  BY ObservedIs
<1>2. linked \subseteq g
  BY <1>1, Links DEF Closed
<1>3. usb \subseteq g /\ whole \subseteq g /\ headers \subseteq g
  BY <1>1 DEF Headers
<1>4. all \subseteq Observed(g)
  BY <1>2, <1>3, ObservedIs
<1>5. Concluded(f, in) = Observed(all)
  BY DEF Concluded
<1> HIDE DEF all
<1>6. "python" \in all => "python" \in g
  BY <1>4, ObservedIs
<1>7. "udev_loaded" \in all => "udev_loaded" \in g
  BY <1>4, ObservedIs
<1> QED
  BY <1>4, <1>5, <1>6, <1>7, ObservedIs

(* What was cut off or is missing stays so: only its own step could mend   *)
(* it, and that is skipped, or cannot be done.                             *)
LEMMA Persists ==
  ASSUME IInv, Escape, facts \subseteq facts',
         "usb_params" \in facts' \ facts => phase = "exec" /\ s.name = "harden-os",
         "archive_whole" \in facts' \ facts => phase = "exec" /\ s.name = "archive-binaries",
         Manual \cap (facts' \ facts) = {},
         PastRestore(i) /\ "depthai" \in facts' \ facts => "depthai_half" \notin facts,
         PastRestore(i) /\ "slam_node" \in facts' \ facts =>
            \A l \in Headers : l[2] \in facts,
         \A l \in Headers : l[2] \in facts' \ facts =>
            (phase = "exec" /\ s.check = {l[1]}) \/ l[1] \notin facts,
         phase' = "exec" => i' = i /\ (phase = "exec" \/ ~Satisfied),
         phase' # "idle" => i' \in {i, i + 1}
  PROVE  (phase' # "idle" => Escape') /\ Stuck'
<1>1. i \in DOMAIN Steps /\ i \in Nat
  BY Table DEF IInv, Placed
<1>p. PastRestore(i) /\ phase' # "idle" => PastRestore(i')
  <2> SUFFICES ASSUME PastRestore(i), i' \in {i, i + 1} PROVE PastRestore(i')
    OBVIOUS
  <2>1. i' .. Len(Steps) \subseteq i .. Len(Steps)
    BY <1>1, Table
  <2> QED
    BY <2>1 DEF PastRestore
<1>2. CASE HardenCut /\ ~(phase = "exec" /\ s.name = "harden-os")
  <2>1. HardenCut'
    BY <1>2 DEF HardenCut
  <2>2. ~(phase' = "exec" /\ s'.name = "harden-os")
    <3> SUFFICES ASSUME phase' = "exec", s'.name = "harden-os" PROVE FALSE
      OBVIOUS
    <3>1. s' = s
      BY DEF s
    <3>2. s.check = {"headless", "sshd_conf"}
      BY <1>1, <3>1, RelianceAssumption DEF s
    <3> QED
      BY <1>2, <3>1, <3>2 DEF Satisfied, HardenCut
  <2> QED
    BY <2>1, <2>2 DEF Escape, Stuck
<1>3. CASE ArchiveCut /\ ~(phase = "exec" /\ s.name = "archive-binaries")
  <2>1. ArchiveCut'
    BY <1>3 DEF ArchiveCut
  <2>2. ~(phase' = "exec" /\ s'.name = "archive-binaries")
    <3> SUFFICES ASSUME phase' = "exec", s'.name = "archive-binaries" PROVE FALSE
      OBVIOUS
    <3>1. s' = s
      BY DEF s
    <3>2. s.check = {"archive"}
      BY <1>1, <3>1, RelianceAssumption DEF s
    <3> QED
      BY <1>3, <3>1, <3>2 DEF Satisfied, ArchiveCut
  <2> QED
    BY <2>1, <2>2 DEF Escape, Stuck
<1>4. CASE CloneCut /\ PastRestore(i)
  <2>1. CloneCut'
    BY <1>4 DEF CloneCut
  <2> QED
    BY <1>4, <1>p, <2>1 DEF Escape, Stuck
<1>5. ASSUME PastRestore(i), "slam_node" \notin facts, NEW l \in Headers,
             l[1] \in facts, l[2] \notin facts, ~(phase = "exec" /\ s.check = {l[1]})
      PROVE  (phase' # "idle" => Escape') /\ Stuck'
  <2>1. "slam_node" \notin facts' /\ l[1] \in facts' /\ l[2] \notin facts'
    BY <1>5
  <2>2. ~(phase' = "exec" /\ s'.check = {l[1]})
    <3> SUFFICES ASSUME phase' = "exec", s'.check = {l[1]} PROVE FALSE
      OBVIOUS
    <3>1. s' = s
      BY DEF s
    <3> QED
      BY <1>5, <3>1 DEF Satisfied
  <2>3. HeadersMissing'
    BY <2>1 DEF HeadersMissing
  <2> QED
    BY <1>5, <1>p, <2>1, <2>2, <2>3 DEF Escape, Stuck
<1>6. CASE Unprepared
  <2>1. Unprepared'
    BY <1>6 DEF Unprepared
  <2> QED
    BY <2>1 DEF Escape, Stuck
<1> QED
  BY <1>2, <1>3, <1>4, <1>5, <1>6 DEF Escape

(* Where there is no escape, the conclusions at this place are right.      *)
LEMMA ConcludesHere ==
  ASSUME IInv, ~Escape, Pending, NEW f, f \subseteq Observed(facts)
  PROVE  /\ phase = "exec" => Concluded(f, s.name) \subseteq Observed(facts)
         /\ phase # "exec" => Concluded(f, "none") \subseteq Observed(facts)
<1>1. Closed(facts)
  BY DEF IInv, Consistent
<1>2. CASE phase = "exec"
  <2>1. i \in DOMAIN Steps /\ s = Steps[i]
    BY DEF IInv, Placed, s
  <2>2. ASSUME s.name = "build-slam-node", NEW l \in Headers, l[1] \in facts
        PROVE  l[2] \in facts
    <3>1. s.check = {"slam_node"} /\ PastRestore(i)
      BY <2>1, <2>2, RelianceAssumption DEF Late
    <3>2. "slam_node" \notin facts
      BY <1>2, <2>2, <3>1 DEF Pending, Satisfied, Late
    <3>3. l[1] # "slam_node"
      BY DEF Headers
    <3> QED
      BY <2>2, <3>1, <3>2, <3>3 DEF Escape
  <2> QED
    BY <1>1, <1>2, <2>2, Concludes DEF Escape, HardenCut, ArchiveCut
<1>3. CASE phase # "exec"
  BY <1>1, <1>3, Concludes DEF Escape, HardenCut, ArchiveCut
<1> QED
  BY <1>2, <1>3

(* The loop leaves the step where enough is known.                         *)
LEMMA CleanAdvance ==
  ASSUME IInv, Reliable, phase # "idle", Advance({}), facts \subseteq facts',
         Closed(facts'), NEW f, f \subseteq Observed(facts'),
         Known[i] \subseteq Concluded(f, "none"),
         Parallel /\ s.name = "build-rtabmap" =>
            \A n \in DOMAIN Steps : Steps[n].name \in Builds => Steps[n].check \subseteq facts'
  PROVE  CleanInv'
<1> DEFINE ends == i = Len(Steps) \/ opts.step # "none"
<1>1. /\ failures' = {} /\ opts' = opts
      /\ i' = IF ends THEN 1 ELSE i + 1
      /\ phase' = IF ends THEN "idle" ELSE "loop"
      /\ outcome' = IF ~ends THEN outcome ELSE "complete"
  BY DEF Advance, Reliable
<1>2. outcome = "none"
  BY DEF IInv, Placed
<1>3. i \in Nat \ {0} /\ i \in DOMAIN Steps
  BY Table DEF IInv, Placed
<1>4. CASE ends
  BY <1>1, <1>4 DEF CleanInv
<1>5. CASE ~ends
  <2>1. i' = i + 1 /\ phase' = "loop" /\ outcome' = "none"
    BY <1>1, <1>2, <1>5
  <2>2. CASE (HardenCut \/ ArchiveCut)'
    BY <2>1, <2>2 DEF CleanInv, Escape
  <2>3. CASE ~(HardenCut \/ ArchiveCut)'
    <3>1. Known[i] \subseteq Observed(facts')
      BY <2>3, Concludes DEF HardenCut, ArchiveCut
    <3>2. i' - 1 = i
      BY <1>3, <2>1
    <3>3. ASSUME Parallel', NEW m \in 1 .. i, Steps[m].name = "build-rtabmap",
                 NEW n \in DOMAIN Steps, Steps[n].name \in Builds
          PROVE  Steps[n].check \subseteq facts'
      <4>1. Parallel
        BY <1>1, <3>3 DEF Parallel
      <4>2. CASE m = i
        BY <3>3, <4>1, <4>2 DEF s
      <4>3. CASE m # i
        <5>1. m \in 1 .. i - 1
          BY <1>3, <4>3
        <5> QED
          BY <3>3, <4>1, <5>1 DEF Reliable
      <4> QED
        BY <4>2, <4>3
    <3>4. Reliable'
      BY <1>1, <2>1, <3>1, <3>2, <3>3 DEF Reliable, Pending
    <3> QED
      BY <2>1, <3>4 DEF CleanInv
  <2> QED
    BY <2>2, <2>3
<1> QED
  BY <1>4, <1>5

(* The step goes on where enough is known.                                 *)
LEMMA CleanCommand ==
  ASSUME IInv, Reliable, phase = "exec", NextCommand, facts \subseteq facts',
         Closed(facts'), Within[i][k] \subseteq Observed(facts'),
         s.name \in Late /\ k < Len(s.commands) => ~(s.check \subseteq facts')
  PROVE  CleanInv'
<1> DEFINE last == Len(Steps[i].commands)
<1>1. i \in DOMAIN Steps /\ last \in Nat /\ k \in 1 .. last /\ outcome = "none"
  BY Table DEF IInv, Placed
<1>2. /\ failures = {} /\ ~Idle(Known, i) /\ ~(Parallel /\ s.name = "build-rtabmap")
  BY DEF Reliable
<1>3. CASE k < last
  <2>1. k' = k + 1 /\ UNCHANGED <<opts, phase, i, failures, outcome>>
    BY <1>3 DEF NextCommand, s
  <2>2. k' - 1 = k
    BY <1>1, <2>1
  <2>3. Parallel' = Parallel /\ s' = s
    BY <2>1 DEF Parallel, s
  <2>4. Parallel /\ (\E m \in 1 .. i - 1 : Steps[m].name = "build-rtabmap") =>
          \A n \in DOMAIN Steps : Steps[n].name \in Builds => Steps[n].check \subseteq facts'
    BY DEF Reliable
  <2>5. Pending'
    BY <1>3, <2>3 DEF Pending, Satisfied, s
  <2>6. Reliable'
    BY <1>2, <2>1, <2>2, <2>3, <2>4, <2>5 DEF Reliable
  <2> QED
    BY <1>1, <2>1, <2>6 DEF CleanInv
<1>4. CASE ~(k < last)
  <2>1. Advance({}) /\ k = last
    BY <1>1, <1>4 DEF NextCommand, s
  <2>2. Known[i] \subseteq Concluded(Within[i][k], "none")
    BY <1>1, <1>2, <2>1, RelianceAssumption DEF Relies
  <2> QED
    BY <1>2, <2>1, <2>2, CleanAdvance
<1> QED
  BY <1>3, <1>4

(* What a step of the loop keeps, and how it may add what was cut off or   *)
(* is missing.                                                             *)
Mends(f, g) ==
    /\ "usb_params" \in g \ f => phase = "exec" /\ s.name = "harden-os"
    /\ "archive_whole" \in g \ f => phase = "exec" /\ s.name = "archive-binaries"
    /\ Manual \cap (g \ f) = {}
    /\ PastRestore(i) /\ "depthai" \in g \ f => "depthai_half" \notin f
    /\ PastRestore(i) /\ "slam_node" \in g \ f => \A l \in Headers : l[2] \in f
    /\ \A l \in Headers : l[2] \in g \ f =>
          (phase = "exec" /\ s.check = {l[1]}) \/ l[1] \notin f

LEMMA Gains ==
  ASSUME IInv, Run \/ LateReboot
  PROVE  opts' = opts /\ facts \subseteq facts' /\ Mends(facts, facts')
<1>1. opts' = opts
  BY DEF Run, ParallelBuilds, ParallelSkip, SkipBefore, SkipSatisfied, CheckLost, Execute,
         Decline, CommandOk, CommandUnmet, CommandLost, CommandFails, Interrupted,
         LateReboot, Advance, Abort, React, StepFails, NextCommand, loopVars
<1>2. CASE /\ facts \subseteq facts'
           /\ facts' \subseteq facts \cup {"cmdline", "udev_loaded", "depthai_half"}
  BY <1>1, <1>2 DEF Mends, Manual, Headers
<1>3. CASE facts' = Boot(facts)
  BY <1>2, <1>3 DEF Boot
<1>4. CASE ParallelBuilds
  <2>1. PICK ok \in SUBSET Buildable, left \in SUBSET {"depthai_half"} :
           facts' = facts \cup left \cup UNION {Purpose(Steps[n]) : n \in ok}
    BY <1>4, BuildsEnd
  <2>2. ASSUME NEW n \in ok, NEW f \in Purpose(Steps[n])
        PROVE  /\ f \notin {"usb_params", "archive_whole", "slam_node"} \cup Manual
               /\ f = "depthai" => "depthai_half" \notin facts
               /\ \A l \in Headers : f = l[2] => l[1] \notin facts
    <3>1. /\ n \in DOMAIN Steps /\ Steps[n].name \in {"build-rtabmap", "build-depthai"}
          /\ ~(Steps[n].check \subseteq facts)
          /\ \A q \in DOMAIN Steps[n].commands : Doable(Steps[n].commands[q])
      BY <2>1, <2>2 DEF Buildable, Needed
    <3>2. PICK q \in DOMAIN Steps[n].commands : f \in Steps[n].commands[q].does
      BY <2>2 DEF Purpose
    <3>3. /\ f \notin {"usb_params", "archive_whole", "slam_node"} \cup Manual
          /\ \A l \in Headers : f = l[2] => Steps[n].check = {l[1]}
      BY <3>1, <3>2, RelianceAssumption
    <3>4. f = "depthai" => "depthai_half" \notin facts
      BY <3>1, <3>2 DEF Doable, Leaves
    <3> QED
      BY <3>1, <3>3, <3>4
  <2>3. ASSUME NEW f \in facts' \ facts, f # "depthai_half"
        PROVE  /\ f \notin {"usb_params", "archive_whole", "slam_node"} \cup Manual
               /\ f = "depthai" => "depthai_half" \notin facts
               /\ \A l \in Headers : f = l[2] => l[1] \notin facts
    BY <2>1, <2>2, <2>3
  <2>4. "depthai_half" \notin {"usb_params", "archive_whole", "slam_node", "depthai"} \cup Manual
        /\ \A l \in Headers : l[2] # "depthai_half"
    BY DEF Manual, Headers
  <2> QED
    BY <1>1, <2>1, <2>3, <2>4 DEF Mends
<1>5. CASE phase = "exec" /\ Met /\ Takes
  <2>1. c = s.commands[k] /\ s = Steps[i] /\ i \in DOMAIN Steps /\ k \in DOMAIN s.commands
    BY DEF IInv, Placed, s, c
  <2>2. CASE "restored" \in c.does /\ facts' = facts \cup archived
    <3>1. ~PastRestore(i)
      BY <2>1, <2>2, Table DEF PastRestore
    <3>2. archived \subseteq {"rtabmap", "depthai", "slam_node", "renderer"}
      BY DEF IInv, Consistent, Libraries
    <3> QED
      BY <1>1, <2>2, <3>1, <3>2 DEF Mends, Manual, Headers
  <2>3. CASE facts' = facts \cup (c.does \ {"tar"})
    <3>1. /\ "usb_params" \in c.does => s.name = "harden-os"
          /\ "archive_whole" \in c.does => s.name = "archive-binaries"
          /\ Manual \cap c.does = {}
          /\ "slam_node" \in c.does => {l[2] : l \in Headers} \subseteq c.needs
          /\ \A l \in Headers : l[2] \in c.does => s.check = {l[1]}
      BY <2>1, RelianceAssumption
    <3>2. "depthai" \in c.does => "depthai_half" \notin facts
      BY <1>5 DEF Met, Doable, Leaves
    <3>3. ASSUME "slam_node" \in c.does, NEW l \in Headers PROVE l[2] \in facts
      <4>1. l[2] \in Observed(facts)
        BY <1>5, <3>1, <3>3 DEF Met, Doable
      <4>2. l[2] \notin {"verified", "infra_verified"}
        BY DEF Headers
      <4> QED
        BY <4>1, <4>2, ObservedIs
    <3> QED
      BY <1>1, <1>5, <2>3, <3>1, <3>2, <3>3 DEF Mends
  <2> QED
    BY <1>2, <1>3, <1>5, <2>2, <2>3 DEF Takes
<1>6. CASE Undone
  <2>1. facts \subseteq facts' /\ facts' \subseteq facts \cup {"depthai_half"}
    BY <1>6 DEF Undone, Leaves, jetsonVars
  <2> QED
    BY <1>2, <2>1
<1>7. CASE facts' = facts
  BY <1>2, <1>7
<1> QED
  BY <1>3, <1>4, <1>5, <1>6, <1>7
  DEF Run, ParallelSkip, SkipBefore, SkipSatisfied, CheckLost, Execute, Decline, CommandOk,
      CommandUnmet, CommandLost, CommandFails, Interrupted, LateReboot, jetsonVars

(* A step of the loop that nothing disturbs, in a run that nothing has.    *)
LEMMA Undisturbed ==
  ASSUME Run, CleanRun'
  PROVE  /\ CleanRun /\ ~Fault
         /\ \/ ParallelBuilds \/ ParallelSkip \/ SkipSatisfied \/ Execute
            \/ (CommandOk /\ ~rebooting') \/ CommandUnmet
<1>1. ~hit'
  BY DEF CleanRun
<1>2. ~Fault
  BY <1>1 DEF Fault
<1>3. opts' = opts
  BY DEF Run, ParallelBuilds, ParallelSkip, SkipBefore, SkipSatisfied, CheckLost, Execute,
         Decline, CommandOk, CommandUnmet, CommandLost, CommandFails, Interrupted,
         Advance, Abort, React, StepFails, NextCommand, loopVars
<1>4. FullRun
  BY <1>3 DEF CleanRun, FullRun
<1>5. \/ ParallelBuilds \/ ParallelSkip \/ SkipSatisfied \/ Execute
      \/ CommandOk \/ CommandUnmet
  BY <1>2, <1>4 DEF Run, SkipBefore, Before, FullRun, CheckLost, Decline, CommandLost,
                    CommandFails, Interrupted
<1>6. CASE CommandOk
  BY <1>1, <1>2, <1>4, <1>6 DEF CommandOk, CleanRun
<1>7. CASE ParallelBuilds
  <2>1. UNCHANGED faultVars
    BY <1>2, <1>7 DEF ParallelBuilds
  <2> QED
    BY <1>1, <1>2, <1>4, <1>7, <2>1 DEF faultVars, CleanRun
<1>8. CASE ParallelSkip \/ SkipSatisfied \/ Execute \/ CommandUnmet
  <2>1. UNCHANGED faultVars
    BY <1>8 DEF ParallelSkip, SkipSatisfied, Execute, CommandUnmet
  <2> QED
    BY <1>1, <1>2, <1>4, <1>8, <2>1 DEF faultVars, CleanRun
<1> QED
  BY <1>5, <1>6, <1>7, <1>8

LEMMA CleanEscape ==
  ASSUME IInv, Escape, Run, CleanRun'
  PROVE  CleanInv'
<1>1. phase' = "exec" => i' = i /\ (phase = "exec" \/ ~Satisfied)
  <2>1. CASE Execute
    BY <2>1, Undisturbed DEF Execute, CleanRun, FullRun
  <2>2. CASE \E failed : Advance(failed)
    BY <2>2 DEF Advance
  <2>3. CASE Abort
    BY <2>3 DEF Abort
  <2>4. CASE phase = "exec" /\ i' = i
    BY <2>4
  <2> QED
    BY <2>1, <2>2, <2>3, <2>4, Undisturbed
    DEF ParallelBuilds, ParallelSkip, SkipSatisfied, CommandOk, CommandUnmet, React,
        StepFails, NextCommand, loopVars
<1>2. phase' # "idle" => i' \in {i, i + 1}
  <2>1. CASE \E failed : Advance(failed)
    BY <2>1 DEF Advance
  <2>2. CASE Abort
    BY <2>2 DEF Abort
  <2>3. CASE i' = i
    BY <2>3
  <2> QED
    BY <2>1, <2>2, <2>3, Undisturbed
    DEF ParallelBuilds, ParallelSkip, SkipSatisfied, Execute, CommandOk, CommandUnmet, React,
        StepFails, NextCommand, loopVars
<1>3. facts \subseteq facts' /\ Mends(facts, facts')
  BY Gains
<1>4. (phase' # "idle" => Escape') /\ Stuck'
  BY <1>1, <1>2, <1>3, Persists DEF Mends
<1> QED
  BY <1>4 DEF CleanInv

(* The loop skips a step that is satisfied, or was by the parallel block.  *)
LEMMA CleanSkip ==
  ASSUME IInv, Reliable, phase = "loop", Advance({}), facts \subseteq facts', Closed(facts'),
         s.check \subseteq facts',
         Parallel /\ s.name = "build-rtabmap" =>
            \A n \in DOMAIN Steps : Steps[n].name \in Builds => Steps[n].check \subseteq facts'
  PROVE  CleanInv'
<1> DEFINE f == Known[i - 1] \cup s.check
<1>1. i \in DOMAIN Steps /\ s = Steps[i] /\ "never" \notin s.check
  BY DEF IInv, Placed, s, Closed
<1>2. Known[i - 1] \subseteq Observed(facts')
  BY ObservedGrows DEF Reliable
<1>3. f \subseteq Observed(facts')
  BY <1>2, ObservedIs
<1>4. Known[i] \subseteq Concluded(f, "none")
  BY <1>1, RelianceAssumption DEF Relies
<1> HIDE DEF f
<1> QED
  BY <1>3, <1>4, CleanAdvance

(* The parallel block has what it builds with, so both builds succeed.     *)
LEMMA CleanParallel ==
  ASSUME IInv, ~Escape, Reliable, ParallelBuilds, ~Fault, Closed(facts')
  PROVE  CleanInv'
<1>1. /\ phase = "loop" /\ s.name = "build-rtabmap" /\ i \in DOMAIN Steps /\ s = Steps[i]
  BY DEF ParallelBuilds, IInv, Placed, s
<1>2. "build_deps" \in facts /\ PastRestore(i)
  BY <1>1, RelianceAssumption, ObservedIs DEF Reliable, Builds
<1>b. Buildable = Needed
  <2> SUFFICES ASSUME NEW n \in Needed, NEW q \in DOMAIN Steps[n].commands
               PROVE  Doable(Steps[n].commands[q])
    BY DEF Buildable
  <2>1. /\ n \in DOMAIN Steps /\ Steps[n].name \in Builds
        /\ ~(Steps[n].check \subseteq facts)
    BY DEF Needed, Builds
  <2>2. Steps[n].commands[q].needs \subseteq Observed(facts)
    BY <1>2, <2>1, RelianceAssumption, ObservedIs
  <2>3. ASSUME "depthai" \in Steps[n].commands[q].does PROVE "depthai_half" \notin facts
    <3>1. Steps[n].check = {"depthai"}
      BY <2>1, <2>3, RelianceAssumption
    <3> QED
      BY <1>2, <2>1, <3>1 DEF Escape, CloneCut
  <2> QED
    BY <2>2, <2>3 DEF Doable, Leaves
<1>3. /\ Advance({}) /\ facts \subseteq facts'
      /\ UNION {Purpose(Steps[n]) : n \in Needed} \subseteq facts'
  <2>1. PICK ok \in SUBSET Buildable : \E silent \in SUBSET (Needed \ ok) : \E left :
           LET failed == {Steps[n].name : n \in Needed \ (ok \cup silent)} IN
           /\ facts' = facts \cup left \cup UNION {Purpose(Steps[n]) : n \in ok}
           /\ IF silent # {} \/ ok # Buildable THEN Fault ELSE UNCHANGED faultVars
           /\ IF failed # {} /\ ~opts.continue_on_error THEN Abort ELSE Advance(failed)
    BY DEF ParallelBuilds
  <2>2. PICK silent \in SUBSET (Needed \ ok) : \E left :
           LET failed == {Steps[n].name : n \in Needed \ (ok \cup silent)} IN
           /\ facts' = facts \cup left \cup UNION {Purpose(Steps[n]) : n \in ok}
           /\ IF silent # {} \/ ok # Buildable THEN Fault ELSE UNCHANGED faultVars
           /\ IF failed # {} /\ ~opts.continue_on_error THEN Abort ELSE Advance(failed)
    BY <2>1
  <2> DEFINE failed == {Steps[n].name : n \in Needed \ (ok \cup silent)}
  <2>3. ok = Needed /\ silent = {}
    BY <1>b, <2>2
  <2>4. failed = {}
    BY <2>3
  <2>5. Advance({})
    <3> HIDE DEF failed
    <3>1. IF failed # {} /\ ~opts.continue_on_error THEN Abort ELSE Advance(failed)
      BY <2>2 DEF failed
    <3> QED
      BY <2>4, <3>1
  <2>6. /\ facts \subseteq facts'
        /\ UNION {Purpose(Steps[n]) : n \in Needed} \subseteq facts'
    BY <2>2, <2>3
  <2> QED
    BY <2>5, <2>6
<1>4. \A n \in DOMAIN Steps : Steps[n].name \in Builds => Steps[n].check \subseteq facts'
  <2> SUFFICES ASSUME NEW n \in DOMAIN Steps, Steps[n].name \in Builds
               PROVE  Steps[n].check \subseteq facts'
    OBVIOUS
  <2>1. CASE n \in Needed
    <3>1. Steps[n].check \subseteq Purpose(Steps[n])
      BY RelianceAssumption
    <3> QED
      BY <1>3, <2>1, <3>1
  <2>2. CASE n \notin Needed
    BY <1>3, <2>2 DEF Needed, Builds
  <2> QED
    BY <2>1, <2>2
<1>5. s.check \subseteq facts'
  BY <1>1, <1>4 DEF Builds
<1> QED
  BY <1>1, <1>3, <1>4, <1>5, CleanSkip

(* A step that is executed was not bound to be skipped.                    *)
LEMMA CleanExecute ==
  ASSUME IInv, ~Escape, Reliable, Execute, FullRun, ~Fault
  PROVE  CleanInv'
<1>1. /\ phase = "loop" /\ phase' = "exec" /\ ~Satisfied
      /\ UNCHANGED <<opts, i, k, failures, outcome, facts>>
      /\ ~(Parallel /\ s.name = "build-rtabmap" /\ Needed # {})
  BY DEF Execute, Sequential, FullRun
<1>2. i \in DOMAIN Steps /\ s = Steps[i] /\ k = 1 /\ outcome = "none" /\ Closed(facts)
  BY <1>1 DEF IInv, Placed, s, Consistent
<1>3. Known[i - 1] \subseteq Observed(facts)
  BY <1>1 DEF Reliable
<1>4. ~Idle(Known, i)
  <2> SUFFICES ASSUME Idle(Known, i) PROVE FALSE
    OBVIOUS
  <2>1. Concluded(Known[i - 1], "none") \subseteq Observed(facts)
    BY <1>1, <1>3, ConcludesHere DEF Pending
  <2>2. s.check \subseteq Observed(facts)
    BY <1>2, <2>1 DEF Idle
  <2>3. {"verified", "infra_verified"} \cap s.check = {}
    BY <1>2, TableAssumption
  <2> QED
    BY <1>1, <2>2, <2>3, ObservedIs DEF Satisfied
<1>5. Within[i][0] \subseteq Known[i - 1]
  BY <1>2, <1>4, RelianceAssumption DEF Relies
<1>6. ~(Parallel /\ s.name = "build-rtabmap")
  <2>1. s.name = "build-rtabmap" => i \in Needed
    BY <1>1, <1>2 DEF Needed, Satisfied
  <2> QED
    BY <1>1, <2>1
<1>7. k' - 1 = 0 /\ Parallel' = Parallel /\ s' = s
  BY <1>1, <1>2 DEF Parallel, s
<1>8. Reliable'
  <2>1. Within[i][0] \subseteq Observed(facts')
    BY <1>1, <1>3, <1>5
  <2>2. failures' = {}
    BY <1>1 DEF Reliable
  <2>3. Parallel /\ (\E m \in 1 .. i - 1 : Steps[m].name = "build-rtabmap") =>
          \A n \in DOMAIN Steps : Steps[n].name \in Builds => Steps[n].check \subseteq facts'
    BY <1>1 DEF Reliable
  <2>4. Pending'
    BY <1>1, <1>7 DEF Pending, Satisfied
  <2> QED
    BY <1>1, <1>4, <1>6, <1>7, <2>1, <2>2, <2>3, <2>4 DEF Reliable
<1> QED
  BY <1>1, <1>2, <1>8 DEF CleanInv

(* What is known where the step issues its command.                        *)
LEMMA AtCommand ==
  ASSUME IInv, ~Escape, Reliable, phase = "exec"
  PROVE  LET before == Within[i][k - 1]
             open == ~(c.needs \subseteq Concluded(before, s.name)) IN
         /\ before \subseteq Observed(facts) /\ (open \/ Met)
         /\ open => c.unmet \in {"ignore", "return"}
         /\ c.unmet = "return" => Known[i] \subseteq Concluded(before, "none")
         /\ Within[i][k] \subseteq IF open /\ c.unmet = "ignore" THEN before
                                   ELSE Gained(c, before)
<1> DEFINE before == Within[i][k - 1]
           open == ~(c.needs \subseteq Concluded(before, s.name))
<1>1. /\ i \in DOMAIN Steps /\ s = Steps[i]
      /\ k \in DOMAIN Steps[i].commands /\ c = Steps[i].commands[k]
  BY DEF IInv, Placed, s, c
<1>2. ~Idle(Known, i) /\ before \subseteq Observed(facts)
  BY DEF Reliable
<1>3. /\ open => c.unmet \in {"ignore", "return"}
      /\ c.unmet = "return" => Known[i] \subseteq Concluded(before, "none")
      /\ Within[i][k] \subseteq IF open /\ c.unmet = "ignore" THEN before
                                ELSE Gained(c, before)
  BY <1>1, <1>2, RelianceAssumption DEF Relies
<1>4. open \/ Met
  <2>1. open \/ c.needs \subseteq Observed(facts)
    BY <1>2, ConcludesHere DEF Reliable
  <2>2. ASSUME "depthai" \in c.does PROVE "depthai_half" \notin facts
    <3>1. s.name = "build-depthai" /\ s.check = {"depthai"} /\ PastRestore(i)
      BY <1>1, <2>2, RelianceAssumption DEF Late
    <3>2. "depthai" \notin facts
      BY <3>1 DEF Reliable, Pending, Satisfied, Late
    <3> QED
      BY <3>1, <3>2 DEF Escape, CloneCut
  <2> QED
    BY <2>1, <2>2 DEF Met, Doable, Leaves
<1> QED
  BY <1>2, <1>3, <1>4

LEMMA CleanOk ==
  ASSUME IInv, ~Escape, Reliable, CommandOk, ~rebooting'
  PROVE  CleanInv'
<1> DEFINE before == Within[i][k - 1]
<1>1. phase = "exec" /\ Met /\ Takes /\ NextCommand
  BY DEF CommandOk
<1>2. /\ facts \subseteq facts' /\ Closed(facts') /\ Ensured(c) \subseteq Observed(facts')
  BY <1>1, Done DEF Consistent
<1>3. before \subseteq Observed(facts) /\ Within[i][k] \subseteq before \cup Gained(c, before)
  BY <1>1, AtCommand
<1>4. "reboot" \in c.does /\ "usb_params" \in before => "cmdline" \in Observed(facts')
  <2>1. "reboot" \in c.does => facts' = Boot(facts)
    BY <1>1 DEF Takes
  <2>2. "usb_params" \in before => "usb_params" \in facts
    BY <1>3, ObservedIs
  <2> QED
    BY <2>1, <2>2, ObservedIs DEF Boot
<1>5. before \subseteq Observed(facts')
  BY <1>2, <1>3, ObservedGrows
<1>6. Within[i][k] \subseteq Observed(facts')
  BY <1>2, <1>3, <1>4, <1>5 DEF Gained
<1>7. ASSUME s.name \in Late, k < Len(s.commands) PROVE ~(s.check \subseteq facts')
  <2>1. i \in DOMAIN Steps /\ s = Steps[i] /\ k \in DOMAIN s.commands /\ c = s.commands[k]
    BY DEF IInv, Placed, s, c
  <2>2. k \in 1 .. Len(s.commands) - 1
    BY <1>7, <2>1, Table
  <2>3. (s.check \cup {"reboot"}) \cap c.does = {} /\ PastRestore(i)
    BY <1>7, <2>1, <2>2, RelianceAssumption
  <2>4. "restored" \notin c.does
    BY <2>1, <2>3, Table DEF PastRestore
  <2>5. facts' = facts \cup (c.does \ {"tar"})
    BY <1>1, <2>3, <2>4 DEF Takes
  <2>6. ~(s.check \subseteq facts)
    BY <1>1, <1>7 DEF Reliable, Pending, Satisfied
  <2> QED
    BY <2>3, <2>5, <2>6
<1> QED
  BY <1>1, <1>2, <1>6, <1>7, CleanCommand

LEMMA CleanUnmet ==
  ASSUME IInv, ~Escape, Reliable, CommandUnmet
  PROVE  CleanInv'
<1> DEFINE before == Within[i][k - 1]
<1>1. phase = "exec" /\ ~Met /\ React(c.unmet) /\ facts' = facts
  BY DEF CommandUnmet, jetsonVars
<1>2. /\ before \subseteq Observed(facts) /\ c.unmet \in {"ignore", "return"}
      /\ c.unmet = "return" => Known[i] \subseteq Concluded(before, "none")
      /\ c.unmet = "ignore" => Within[i][k] \subseteq before
  BY <1>1, AtCommand
<1>3. Closed(facts') /\ ~(Parallel /\ s.name = "build-rtabmap")
  BY <1>1 DEF IInv, Consistent, Reliable
<1>4. CASE c.unmet = "ignore"
  <2>1. s.name \in Late => ~(s.check \subseteq facts')
    BY <1>1 DEF Reliable, Pending, Satisfied
  <2> QED
    BY <1>1, <1>2, <1>3, <1>4, <2>1, CleanCommand DEF React
<1>5. CASE c.unmet = "return"
  <2>1. Advance({})
    BY <1>1, <1>5 DEF React
  <2> HIDE DEF before
  <2> QED
    BY <1>1, <1>2, <1>3, <1>5, <2>1, CleanAdvance
<1> QED
  BY <1>2, <1>4, <1>5

LEMMA CleanReliable ==
  ASSUME IInv, IInv', ~Escape, Reliable, Run, CleanRun'
  PROVE  CleanInv'
<1>1. FullRun /\ ~Fault /\ Closed(facts')
  BY Undisturbed DEF CleanRun, IInv, Consistent
<1>2. CASE ParallelBuilds
  BY <1>1, <1>2, CleanParallel
<1>3. CASE ParallelSkip
  <2>1. /\ phase = "loop" /\ Parallel /\ s.name = "build-depthai" /\ Advance({})
        /\ facts' = facts
    BY <1>3 DEF ParallelSkip, jetsonVars
  <2>2. i \in DOMAIN Steps /\ s = Steps[i]
    BY DEF IInv, Placed, s
  <2>3. \E m \in 1 .. i - 1 : Steps[m].name = "build-rtabmap"
    BY <2>1, <2>2, RelianceAssumption
  <2>4. s.check \subseteq facts'
    BY <2>1, <2>2, <2>3 DEF Reliable, Builds
  <2>5. s.name # "build-rtabmap"
    BY <2>1
  <2> QED
    BY <1>1, <2>1, <2>4, <2>5, CleanSkip
<1>4. CASE SkipSatisfied
  <2>1. /\ phase = "loop" /\ Advance({}) /\ facts' = facts /\ s.check \subseteq facts'
        /\ ~(Parallel /\ s.name = "build-rtabmap" /\ Needed # {})
    BY <1>4 DEF SkipSatisfied, Sequential, Satisfied, jetsonVars
  <2>2. Needed = {} => \A n \in DOMAIN Steps : Steps[n].name \in Builds =>
                          Steps[n].check \subseteq facts'
    BY <2>1 DEF Needed, Builds
  <2> QED
    BY <1>1, <2>1, <2>2, CleanSkip
<1>5. CASE Execute
  BY <1>1, <1>5, CleanExecute
<1>6. CASE CommandOk /\ ~rebooting'
  BY <1>6, CleanOk
<1>7. CASE CommandUnmet
  BY <1>7, CleanUnmet
<1> QED
  BY <1>2, <1>3, <1>4, <1>5, <1>6, <1>7, Undisturbed

LEMMA CleanNext == IInv /\ IInv' /\ CleanInv /\ [Next]_vars => CleanInv'
<1> SUFFICES ASSUME IInv, IInv', CleanInv, [Next]_vars PROVE CleanInv'
  OBVIOUS
<1>1. ASSUME NEW o \in Options, Invoke(o) PROVE CleanInv'
  <2>1. phase' = "loop" /\ outcome' = "none" /\ failures' = {} /\ opts' = o
        /\ i' = IF o.step = "none" THEN 1 ELSE IndexOf(o.step)
    BY <1>1 DEF Invoke
  <2>2. CASE CleanRun'
    <3>1. i' = 1
      BY <2>1, <2>2 DEF CleanRun, FullRun
    <3>2. Known[0] = Manual
      BY RelianceAssumption DEF Relies
    <3>3. CASE Unprepared'
      BY <2>1, <3>3 DEF CleanInv, Escape
    <3>4. CASE ~Unprepared'
      <4>1. Known[i' - 1] \subseteq Observed(facts')
        BY <3>1, <3>2, <3>4, ObservedIs DEF Unprepared
      <4>2. Reliable'
        BY <2>1, <3>1, <4>1 DEF Reliable, Pending
      <4> QED
        BY <2>1, <4>2 DEF CleanInv
    <3> QED
      BY <3>3, <3>4
  <2> QED
    BY <2>2 DEF CleanInv
<1>2. CASE Run
  <2>1. CASE CleanRun'
    <3>1. CleanRun /\ phase # "idle"
      BY <1>2, <2>1, Undisturbed DEF ParallelBuilds, ParallelSkip, SkipSatisfied, Execute,
                                     Sequential, CommandOk, CommandUnmet
    <3>2. Escape \/ Reliable
      BY <3>1 DEF CleanInv
    <3> QED
      BY <1>2, <2>1, <3>2, CleanEscape, CleanReliable
  <2> QED
    BY <2>1 DEF CleanInv
<1>3. CASE LateReboot
  <2>1. UNCHANGED <<opts, phase, i, k, failures, outcome, hit>>
    BY <1>3 DEF LateReboot, loopVars, faultVars
  <2>2. /\ facts \subseteq facts'
        /\ \A f \in facts' : f \in facts \/ f \in {"cmdline", "udev_loaded"}
    BY <1>3 DEF LateReboot, Boot
  <2>3. /\ (HardenCut => HardenCut') /\ (ArchiveCut => ArchiveCut')
        /\ (CloneCut => CloneCut') /\ (HeadersMissing => HeadersMissing')
        /\ (Unprepared => Unprepared')
    BY <2>2 DEF HardenCut, ArchiveCut, CloneCut, HeadersMissing, Unprepared, Headers, Manual
  <2>h. /\ "slam_node" \in facts' => "slam_node" \in facts
        /\ \A l \in Headers : l[2] \in facts' => l[2] \in facts
        /\ Late = {"build-depthai", "build-slam-node"}
    BY <2>2 DEF Headers, Late
  <2>4. s' = s /\ Parallel' = Parallel /\ CleanRun' = CleanRun
    BY <2>1 DEF s, Parallel, CleanRun, FullRun
  <2>5. (Escape => Escape') /\ (Stuck => Stuck')
    BY <2>1, <2>2, <2>3, <2>4, <2>h DEF Escape, Stuck
  <2>p. Pending => Pending'
    <3> SUFFICES ASSUME phase = "exec", s.name \in Late, ~(s.check \subseteq facts)
                 PROVE  ~(s.check \subseteq facts')
      BY <2>1, <2>4 DEF Pending, Satisfied
    <3>1. s.check \in {{"depthai"}, {"slam_node"}}
      BY RelianceAssumption DEF IInv, Placed, s, Late
    <3> QED
      BY <2>2, <3>1
  <2>6. Observed(facts) \subseteq Observed(facts')
    BY <2>2, ObservedGrows
  <2>7. Reliable => Reliable'
    BY <2>1, <2>2, <2>4, <2>6, <2>p DEF Reliable
  <2> QED
    BY <2>1, <2>3, <2>4, <2>5, <2>7 DEF CleanInv
<1>4. CASE Reflash \/ ByHand
  BY <1>4 DEF Reflash, ByHand, CleanInv
<1>5. CASE Finished \/ UNCHANGED vars
  <2>1. UNCHANGED <<opts, phase, i, k, failures, outcome, facts, hit>>
    BY <1>5 DEF Finished, vars, loopVars, jetsonVars, faultVars
  <2> QED
    BY <2>1 DEF CleanInv, CleanRun, FullRun, Escape, Stuck, HardenCut, ArchiveCut, CloneCut,
                HeadersMissing, Unprepared, Reliable, Pending, Satisfied, Parallel, s
<1> QED
  BY <1>1, <1>2, <1>3, <1>4, <1>5 DEF Next

(* A full bringup that nothing disturbs succeeds: it fails only where an   *)
(* earlier run was cut off within harden-os or archive-binaries and the    *)
(* check of that step, satisfied by what was done, has it skipped; where   *)
(* the clone of depthai was cut off; where a library was restored without  *)
(* the headers the SLAM node is built with; and where the packages or the  *)
(* camera are missing, which no step can bring.  For every step table that *)
(* meets both assumptions -- no step relies on what the steps before it    *)
(* may leave undone --, whatever earlier runs left half done, continued    *)
(* past, declined or ran out of order.                                     *)
THEOREM CleanRunIsComplete == Spec => []CleanRunCompletes
<1>1. Init => CleanInv
  BY DEF Init, CleanInv
<1>2. CleanInv => CleanRunCompletes
  BY DEF CleanInv, CleanRun, FullRun, CleanRunCompletes
<1> QED
  BY <1>1, <1>2, InitIInv, NextIInv, CleanNext, PTL DEF Spec
=============================================================================
