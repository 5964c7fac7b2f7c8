------------------------------- MODULE Bringup -------------------------------
(***************************************************************************)
(* bringup_command (cli/bringup.py): the loop over the step table, invoked *)
(* again and again by the operator, over a connection that loses commands. *)
(* The archive of the binaries is on the laptop; all happens on one day.   *)
(***************************************************************************)
EXTENDS BringupSteps

CONSTANTS
    Steps,       \* the step table, or a part of it
    Options,     \* the command lines the operator uses
    FaultySteps, \* names of the steps whose commands may fail
    MaxFaults,   \* bound: lost or failed commands and declined steps
    Brings,      \* what the operator may bring at once of what no step brings
    MayDecline,  \* TRUE iff the operator may decline a step
    MayReflash   \* TRUE iff the Jetson may be flashed afresh, once

VARIABLES
    opts,       \* the command line of this invocation
    phase,      \* "idle", "loop" (before step i), "exec" (in its commands)
    i, k,       \* the step and the command
    facts,      \* what holds on the Jetson, and of the laptop's archive
    archived,   \* what the archive holds
    rebooting,  \* a reboot was asked for and has not happened yet
    failures,   \* names of failed steps
    outcome,    \* of the last invocation: "none", "complete", "failed"
    hit,        \* a fault, or a reboot that is still to come, hit this invocation
    faults, reflashed

loopVars == <<opts, phase, i, k, failures, outcome>>
jetsonVars == <<facts, archived, rebooting, reflashed>>
faultVars == <<hit, faults>>
vars == <<loopVars, jetsonVars, faultVars>>

Names == {Steps[n].name : n \in DOMAIN Steps}

ASSUME BringupAssumption ==
    /\ \A o \in Options : /\ o.step \in Names \cup {"none"}
                          /\ o.from_step \in Names \cup {"none"}
                          /\ o.step = "none" \/ o.from_step = "none"
    /\ FaultySteps \subseteq Names
    /\ MaxFaults \in Nat
    /\ Brings \subseteq SUBSET Manual

(* A step is worth its name when the loop cannot leave it behind without   *)
(* what its check looks for.  Command q of step n secures fact f: whatever *)
(* happens to the commands before, it is issued; when it cannot be done,   *)
(* is lost or fails, so does the step; and when it is done f holds.        *)
Reactions(cmd) == {cmd.unmet, cmd.lost, cmd.fails}
Ensured(cmd) ==
    cmd.needs \cup IF {"reboot", "restored"} \cap cmd.does = {}
                   THEN cmd.does \ {"tar"} ELSE {}
Secures(n, q, f) ==
    LET cmds == Steps[n].commands IN
    /\ Reactions(cmds[q]) = {"raise"}
    /\ f \in Ensured(cmds[q]) \/ "never" \in cmds[q].needs
    /\ \A j \in 1 .. q - 1 : "return" \notin Reactions(cmds[j])

(* What step n leaves behind for sure.  Three steps can be passed without  *)
(* their commands and their check: see CheckLost and ParallelBuilds.       *)
Bypassed == {"clear-host-key", "build-rtabmap", "build-depthai"}
Aims == {"infra_verified"} \cup UNION {Steps[n].check : n \in DOMAIN Steps}
Sure(n) ==
    {f \in Aims : /\ Steps[n].name \notin Bypassed
                  /\ f \in Steps[n].check \/ "never" \in Steps[n].check
                  /\ \E q \in DOMAIN Steps[n].commands : Secures(n, q, f)}

(* Somebody in the table secures fact f, though not at a prompt, unless    *)
(* confirm is TRUE; the two libraries by way of the node linked to them.   *)
Covered(f, confirm) ==
    \E m \in DOMAIN Steps :
        /\ Steps[m].needs_confirm => confirm
        /\ f \in Sure(m) \/ (f \in {"rtabmap", "depthai"} /\ "slam_node" \in Sure(m))

Exempt(n) == "never" \in Steps[n].check \/ Steps[n].name = "archive-binaries"

(* Facts of which the second never fails where the first holds: it is a    *)
(* precondition, is there at the same time, or was secured before.         *)
Linked ==
    {<<"slam_node", "rtabmap">>, <<"slam_node", "depthai">>, <<"cli", "python">>,
     <<"dirs", "udev_loaded">>}

(* The table is well-formed, no command and no check speaks of what is     *)
(* only observed, facts are linked as said, and whatever a check looks for *)
(* is secured.                                                             *)
ASSUME TableAssumption ==
    /\ Steps # <<>>
    /\ Steps \in Seq([name : STRING, gate : BOOLEAN, needs_confirm : BOOLEAN,
                      check : SUBSET STRING, commands : Seq(Commands) \ {<<>>}])
    /\ \A n \in DOMAIN Steps : \A q \in DOMAIN Steps[n].commands :
          LET cmd == Steps[n].commands[q] IN
          /\ {"never", "verified", "infra_verified"} \cap cmd.does = {}
          /\ \A l \in Linked : l[1] \in cmd.does =>
                /\ Steps[n].name \notin Bypassed
                /\ \/ l[2] \in Ensured(cmd)
                   \/ \E j \in 1 .. q - 1 : /\ Reactions(Steps[n].commands[j]) = {"raise"}
                                            /\ l[2] \in Ensured(Steps[n].commands[j])
    /\ \A n \in DOMAIN Steps : \A f \in Steps[n].check :
          /\ f \notin {"verified", "infra_verified"}
          /\ Exempt(n) \/ Covered(f, Steps[n].needs_confirm)
    /\ Covered("infra_verified", FALSE)

-----------------------------------------------------------------------------
(* What an undisturbed run can rely on                                     *)

(* What follows from the facts f in the step `in`: two steps, cut off in   *)
(* an earlier run, leave a part of their work undone for good, and where   *)
(* the SLAM node is built no library came without its headers.             *)
Concluded(f, in) ==
    Observed(f \cup {l[2] : l \in {l1 \in Linked : l1[1] \in f}}
               \cup {l[2] : l \in {l1 \in Headers : l1[1] \in f /\ in = "build-slam-node"}}
               \cup {g \in {"usb_params"} : /\ in # "harden-os"
                                            /\ {"headless", "sshd_conf"} \subseteq f}
               \cup {g \in {"archive_whole"} : in # "archive-binaries" /\ "archive" \in f})

(* What is known behind a command that was done where f was known.         *)
Gained(cmd, f) ==
    f \cup Ensured(cmd)
      \cup {g \in {"cmdline"} : "reboot" \in cmd.does /\ "usb_params" \in f}

(* known[n] holds behind step n, within[n][q] behind its command q.  Where *)
(* a step is not always skipped, no precondition that would raise is open. *)
Idle(known, n) == Steps[n].check \subseteq Concluded(known[n - 1], "none")
Relies(known, within) ==
    /\ known[0] = Manual
    /\ \A n \in DOMAIN Steps :
        LET cmds == Steps[n].commands IN
        /\ "never" \in Steps[n].check
             \/ known[n] \subseteq Concluded(known[n - 1] \cup Steps[n].check, "none")
        /\ Idle(known, n) \/
            /\ within[n][0] \subseteq known[n - 1]
            /\ known[n] \subseteq Concluded(within[n][Len(cmds)], "none")
            /\ \A q \in DOMAIN cmds :
                LET before == within[n][q - 1]
                    open == ~(cmds[q].needs \subseteq Concluded(before, Steps[n].name)) IN
                /\ open => cmds[q].unmet \in {"ignore", "return"}
                /\ cmds[q].unmet = "return" => known[n] \subseteq Concluded(before, "none")
                /\ within[n][q] \subseteq IF open /\ cmds[q].unmet = "ignore" THEN before
                                          ELSE Gained(cmds[q], before)

(* The largest such sets, computed along the table.                        *)
WithinFrom(n, f) ==
    LET cmds == Steps[n].commands
        after[q \in 0 .. Len(cmds)] ==
            IF q = 0 THEN f
            ELSE LET before == after[q - 1] IN
                 IF /\ cmds[q].unmet = "ignore"
                    /\ ~(cmds[q].needs \subseteq Concluded(before, Steps[n].name))
                 THEN before ELSE Gained(cmds[q], before)
    IN after
Known[n \in 0 .. Len(Steps)] ==
    IF n = 0 THEN Manual
    ELSE LET before == Known[n - 1]
             cmds == Steps[n].commands
             within == WithinFrom(n, before)
             skipped == Concluded(before \cup Steps[n].check, "none")
             left == {Concluded(within[Len(cmds)], "none")} \cup
                     {Concluded(within[q - 1], "none") :
                        q \in {q1 \in DOMAIN cmds : cmds[q1].unmet = "return"}} IN
         {f \in UNION (left \cup {skipped}) :
            /\ f \in skipped \/ "never" \in Steps[n].check
            /\ Steps[n].check \subseteq Concluded(before, "none")
                 \/ \A set \in left : f \in set}
Within == [n \in DOMAIN Steps |-> WithinFrom(n, Known[n - 1])]

Builds == {"build-rtabmap", "build-depthai"}

(* Steps behind the restored archive whose last command is what their      *)
(* check looks for.                                                        *)
Late == {"build-depthai", "build-slam-node"}

(* No command of the table unpacks the archive from step n on.             *)
PastRestore(n) ==
    \A m \in n .. Len(Steps) : \A q \in DOMAIN Steps[m].commands :
        "restored" \notin Steps[m].commands[q].does

(* The preconditions in the table are met by what precedes them; the two   *)
(* steps that may leave a part undone are skipped from then on; headers    *)
(* come with their library, and the SLAM node needs them.                  *)
ASSUME RelianceAssumption ==
    /\ Relies(Known, Within)
    /\ \A n \in DOMAIN Steps :
        /\ Steps[n].name \in Builds =>
              /\ PastRestore(n)
              /\ "build_deps" \in Known[n - 1]
              /\ Steps[n].check \subseteq Purpose(Steps[n])
              /\ \A q \in DOMAIN Steps[n].commands :
                    Steps[n].commands[q].needs \subseteq {"build_deps"}
        /\ Steps[n].name \in Late =>
              /\ PastRestore(n)
              /\ \A q \in 1 .. Len(Steps[n].commands) - 1 :
                    (Steps[n].check \cup {"reboot"}) \cap Steps[n].commands[q].does = {}
        /\ Steps[n].name = "build-depthai" =>
              \E m \in 1 .. n - 1 : Steps[m].name = "build-rtabmap"
        /\ Steps[n].name = "harden-os" => Steps[n].check = {"headless", "sshd_conf"}
        /\ Steps[n].name = "archive-binaries" => Steps[n].check = {"archive"}
        /\ Steps[n].name = "build-depthai" => Steps[n].check = {"depthai"}
        /\ Steps[n].name = "build-slam-node" => Steps[n].check = {"slam_node"}
        /\ \A q \in DOMAIN Steps[n].commands :
              /\ "usb_params" \in Steps[n].commands[q].does => Steps[n].name = "harden-os"
              /\ "archive_whole" \in Steps[n].commands[q].does =>
                    Steps[n].name = "archive-binaries"
              /\ Manual \cap Steps[n].commands[q].does = {}
              /\ "depthai" \in Steps[n].commands[q].does => Steps[n].name = "build-depthai"
              /\ "slam_node" \in Steps[n].commands[q].does =>
                    /\ Steps[n].name = "build-slam-node"
                    /\ {l[2] : l \in Headers} \subseteq Steps[n].commands[q].needs
              /\ \A l \in Headers : l[2] \in Steps[n].commands[q].does =>
                    Steps[n].check = {l[1]}

-----------------------------------------------------------------------------
NoOptions == [step |-> "none", from_step |-> "none",
              continue_on_error |-> FALSE, parallel_builds |-> FALSE]

(* A flashed Jetson whose new host key the laptop does not know.           *)
Init ==
    /\ opts = NoOptions /\ phase = "idle" /\ i = 1 /\ k = 1
    /\ facts = {} /\ archived = {}
    /\ rebooting = FALSE /\ reflashed = FALSE
    /\ failures = {} /\ outcome = "none"
    /\ hit = FALSE /\ faults = 0

s == Steps[i]
c == s.commands[k]
IndexOf(name) == CHOOSE n \in DOMAIN Steps : Steps[n].name = name

(* What holds after a boot: the kernel command line and the udev rules     *)
(* that were written before it.                                            *)
Boot(f) ==
    f \cup (IF "usb_params" \in f THEN {"cmdline"} ELSE {})
      \cup (IF "udev_rules" \in f THEN {"udev_loaded"} ELSE {})

-----------------------------------------------------------------------------
Invoke(o) ==
    /\ phase = "idle" /\ outcome # "complete"
    /\ opts' = o
    /\ phase' = "loop" /\ k' = 1
    /\ i' = IF o.step = "none" THEN 1 ELSE IndexOf(o.step)
    /\ failures' = {} /\ outcome' = "none" /\ hit' = FALSE
    /\ UNCHANGED <<jetsonVars, faults>>

(* The loop goes on to the next step, or ends; --step runs only the one.   *)
Advance(failed) ==
    LET failing == failures \cup failed
        ends == i = Len(Steps) \/ opts.step # "none" IN
    /\ failures' = failing
    /\ k' = 1
    /\ i' = IF ends THEN 1 ELSE i + 1
    /\ phase' = IF ends THEN "idle" ELSE "loop"
    /\ outcome' = IF ~ends THEN outcome
                  ELSE IF failing = {} THEN "complete" ELSE "failed"
    /\ UNCHANGED opts

(* typer.Exit or SshError leaves the command.                              *)
Abort ==
    /\ phase' = "idle" /\ i' = 1 /\ k' = 1
    /\ failures' = failures \cup {s.name} /\ outcome' = "failed"
    /\ UNCHANGED opts

(* Mutant of StepFails: the failure is not recorded.                       *)
StepFailsUnrecorded ==
    IF ~opts.continue_on_error \/ s.gate THEN Abort ELSE Advance({})

(* A step that raised ends the bringup, unless it may be continued.        *)
StepFails ==
    IF ~opts.continue_on_error \/ s.gate THEN Abort ELSE Advance({s.name})

Fault ==
    /\ faults < MaxFaults /\ s.name \in FaultySteps
    /\ faults' = faults + 1 /\ hit' = TRUE

Parallel == opts.parallel_builds /\ opts.step = "none"
Before == opts.from_step # "none" /\ i < IndexOf(opts.from_step)

(* The builds the parallel block has to run: both are looked at.           *)
Needed ==
    {n \in DOMAIN Steps : /\ Steps[n].name \in {"build-rtabmap", "build-depthai"}
                          /\ ~(Steps[n].check \subseteq facts)}

(* A command can be done: what it needs is there, and nothing that it left *)
(* when it was cut off before.                                             *)
Doable(cmd) == cmd.needs \subseteq Observed(facts) /\ Leaves(cmd.does) \cap facts = {}
Buildable ==
    {n \in Needed : \A q \in DOMAIN Steps[n].commands : Doable(Steps[n].commands[q])}

(* The parallel block at build-rtabmap, before the test of --from-step:    *)
(* each needed build runs in a thread and succeeds, fails, or ends by an   *)
(* exception that is neither typer.Exit nor SshError and is not recorded.  *)
ParallelBuilds ==
    /\ phase = "loop" /\ Parallel /\ s.name = "build-rtabmap" /\ Needed # {}
    /\ \E ok \in SUBSET Buildable : \E silent \in SUBSET (Needed \ ok) :
       \E left \in SUBSET UNION {Leaves(Purpose(Steps[n])) : n \in Buildable \ ok} :
        LET failed == {Steps[n].name : n \in Needed \ (ok \cup silent)} IN
        /\ facts' = facts \cup left \cup UNION {Purpose(Steps[n]) : n \in ok}
        /\ IF silent # {} \/ ok # Buildable THEN Fault ELSE UNCHANGED faultVars
        /\ IF failed # {} /\ ~opts.continue_on_error THEN Abort ELSE Advance(failed)
    /\ UNCHANGED <<archived, rebooting, reflashed>>

(* build-depthai is skipped when the parallel block was passed.            *)
ParallelSkip ==
    /\ phase = "loop" /\ Parallel /\ s.name = "build-depthai"
    /\ Advance({})
    /\ UNCHANGED <<jetsonVars, faultVars>>

Sequential ==
    /\ phase = "loop"
    /\ ~(Parallel /\ s.name = "build-rtabmap" /\ Needed # {})
    /\ ~(Parallel /\ s.name = "build-depthai")

SkipBefore ==
    /\ Sequential /\ Before
    /\ Advance({})
    /\ UNCHANGED <<jetsonVars, faultVars>>

Satisfied == s.check \subseteq facts

SkipSatisfied ==
    /\ Sequential /\ ~Before
    /\ opts.step = "none" /\ Satisfied
    /\ Advance({})
    /\ UNCHANGED <<jetsonVars, faultVars>>

(* The check of clear-host-key answers "no issue" when SSH fails in any    *)
(* other way; every other check answers False.                             *)
CheckLost ==
    /\ Sequential /\ ~Before /\ opts.step = "none" /\ Fault
    /\ IF s.name = "clear-host-key"
       THEN Advance({}) /\ UNCHANGED jetsonVars
       ELSE /\ phase' = "exec"
            /\ UNCHANGED <<opts, i, k, failures, outcome, facts, archived,
                           rebooting, reflashed>>

Execute ==
    /\ Sequential /\ ~Before
    /\ opts.step # "none" \/ ~Satisfied
    /\ phase' = "exec"
    /\ UNCHANGED <<opts, i, k, failures, outcome, facts, archived,
                   rebooting, reflashed, faultVars>>

(* _confirm_or_skip                                                        *)
Decline ==
    /\ MayDecline /\ phase = "exec" /\ k = 1 /\ s.needs_confirm /\ Fault
    /\ Advance({})
    /\ UNCHANGED jetsonVars

-----------------------------------------------------------------------------
(* The step goes on after its command k, or is done.                       *)
NextCommand ==
    IF k < Len(s.commands)
    THEN k' = k + 1 /\ UNCHANGED <<opts, phase, i, failures, outcome>>
    ELSE Advance({})

(* Mutant of React: a command that is not checked fails the step as well.  *)
ReactStrict(how) ==
    \/ how \in {"raise", "ignore"} /\ StepFails
    \/ how = "return" /\ Advance({})
    \/ how = "again" /\ UNCHANGED loopVars

(* What the code does with a failed command.                               *)
React(how) ==
    \/ how = "raise" /\ StepFails
    \/ how = "ignore" /\ NextCommand
    \/ how = "return" /\ Advance({})
    \/ how = "again" /\ UNCHANGED loopVars

(* The effect of a command that reaches the Jetson.  A reboot happens at   *)
(* once, or only after SSH has answered again.                             *)
Takes ==
    \/ /\ "reboot" \in c.does
       /\ \/ facts' = Boot(facts) /\ UNCHANGED rebooting
          \/ rebooting' = TRUE /\ UNCHANGED facts
       /\ UNCHANGED <<archived, reflashed>>
    \/ /\ "reboot" \notin c.does
       /\ facts' = facts \cup (IF "restored" \in c.does THEN archived
                                ELSE c.does \ {"tar"})
       /\ archived' = IF "tar" \in c.does
                       THEN facts \cap (Libraries \cup {"renderer"}) ELSE archived
       /\ UNCHANGED <<rebooting, reflashed>>

Met == Doable(c)

CommandOk ==
    /\ phase = "exec" /\ Met
    /\ Takes
    /\ NextCommand
    /\ hit' = (hit \/ rebooting') /\ UNCHANGED faults

CommandUnmet ==
    /\ phase = "exec" /\ ~Met
    /\ React(c.unmet)
    /\ UNCHANGED <<jetsonVars, faultVars>>

(* A command that is not done leaves all as it was, or, cut off, a part.   *)
Undone ==
    \/ UNCHANGED jetsonVars
    \/ /\ Met /\ Leaves(c.does) # {}
       /\ facts' = facts \cup Leaves(c.does)
       /\ UNCHANGED <<archived, rebooting, reflashed>>

(* SshError: the command may still have taken effect.                      *)
CommandLost ==
    /\ phase = "exec" /\ Fault
    /\ React(c.lost)
    /\ Undone \/ (Met /\ Takes)

CommandFails ==
    /\ phase = "exec" /\ Fault
    /\ React(c.fails)
    /\ Undone

(* The operator interrupts the bringup, or the laptop goes down.           *)
Interrupted ==
    /\ phase = "exec" /\ Fault
    /\ Abort
    /\ Undone

LateReboot ==
    /\ rebooting
    /\ facts' = Boot(facts)
    /\ rebooting' = FALSE
    /\ UNCHANGED <<loopVars, archived, reflashed, faultVars>>

(* The operator installs the packages, or attaches the camera; the verdict *)
(* of the last run is no longer about this Jetson.                         *)
ByHand ==
    /\ phase = "idle" /\ outcome # "complete"
    /\ \E f \in Brings : ~(f \subseteq facts) /\ facts' = facts \cup f
    /\ outcome' = "none"
    /\ UNCHANGED <<opts, phase, i, k, failures, archived, rebooting, reflashed, faultVars>>

Reflash ==
    /\ MayReflash /\ ~reflashed /\ phase = "idle"
    /\ reflashed' = TRUE
    /\ facts' = facts \cap {"archive", "archive_whole", "camera"}
    /\ rebooting' = FALSE
    /\ outcome' = "none"
    /\ UNCHANGED <<opts, phase, i, k, failures, archived, faultVars>>

Finished == phase = "idle" /\ outcome = "complete" /\ UNCHANGED vars

Run ==
    \/ ParallelBuilds \/ ParallelSkip \/ SkipBefore \/ SkipSatisfied \/ CheckLost
    \/ Execute \/ Decline
    \/ CommandOk \/ CommandUnmet \/ CommandLost \/ CommandFails \/ Interrupted

Next == (\E o \in Options : Invoke(o)) \/ Run \/ LateReboot \/ ByHand \/ Reflash \/ Finished

Spec == Init /\ [][Next]_vars

-----------------------------------------------------------------------------
StepsSatisfied ==
    \A n \in DOMAIN Steps :
        \/ "never" \in Steps[n].check \/ Steps[n].name = "archive-binaries"
        \/ Steps[n].check \subseteq facts
        \/ MayDecline /\ Steps[n].needs_confirm

(* final-verify counts failed checks and not skipped ones.                 *)
CriticalPass ==
    \A c1 \in Critical \ HW_DEPENDENT : run_checks(Good(facts))[c1] = "pass"

(* "Bringup complete!" of a full run is true: whatever was lost, retried,  *)
(* continued past or built in parallel, every step that has a check would  *)
(* be found satisfied now -- apart from the archive, whose failures are    *)
(* declared non-fatal -- and every critical check of the probe that does   *)
(* not depend on hardware passes: none was merely skipped.  Where the      *)
(* operator may decline steps, those that ask first are left out.          *)
CompleteIsSatisfied ==
    outcome = "complete" /\ opts.step = "none" /\ opts.from_step = "none" =>
        StepsSatisfied /\ CriticalPass

(* The hardening script was cut off behind what the check of harden-os     *)
(* looks for; the transfer of the archive was cut off.                     *)
HardenCut == {"headless", "sshd_conf"} \subseteq facts /\ "usb_params" \notin facts
ArchiveCut == "archive" \in facts /\ "archive_whole" \notin facts

(* The clone of depthai was cut off; a library was restored, without its   *)
(* headers, and the SLAM node is still to be built; the packages or the    *)
(* camera are missing, which no step brings.                               *)
CloneCut == "depthai_half" \in facts /\ "depthai" \notin facts
HeadersMissing ==
    "slam_node" \notin facts /\ \E l \in Headers : l[1] \in facts /\ l[2] \notin facts
Unprepared == ~(Manual \subseteq facts)
Stuck == HardenCut \/ ArchiveCut \/ CloneCut \/ HeadersMissing \/ Unprepared

(* A full bringup in which nothing goes wrong succeeds, whatever earlier   *)
(* ones left half done, continued past or ran out of order, and after a    *)
(* re-flash: "Each step is idempotent and can be selectively re-run"       *)
(* (docs/plans/005-automated-jetson-bringup-ssh.md:144).  It fails in five *)
(* states only, and in these whenever it is run again: those that a cut in *)
(* harden-os, archive-binaries and build-depthai leaves, a restored        *)
(* library without headers, and what has to be done by hand.               *)
CleanRunCompletes ==
    outcome = "failed" /\ ~hit /\ opts.step = "none" /\ opts.from_step = "none" => Stuck

=============================================================================
