------------------------------ MODULE MCBringup ------------------------------
(* Instances of Bringup for TLC.                                           *)
EXTENDS Bringup

Full == [step |-> "none", from_step |-> "none",
         continue_on_error |-> FALSE, parallel_builds |-> FALSE]
ParallelContinuing ==
    [Full EXCEPT !.continue_on_error = TRUE, !.parallel_builds = TRUE]
OneStep(name) == [Full EXCEPT !.step = name]
ParallelFrom(name) == [Full EXCEPT !.parallel_builds = TRUE, !.from_step = name]

AllOptions ==
    {Full, ParallelContinuing, OneStep("build-slam-node"), ParallelFrom("install-uv")}

(* The others leave nothing, or nothing that anything but themselves looks *)
(* at, and every run repeats them.                                         *)
Fallible ==
    Names \ {"check-ssh", "install-build-deps", "verify", "service", "vslam-db-check",
             "pixhawk-sync", "kiosk-services", "kiosk-probe"}

AllAtOnce == {Manual}
=============================================================================
