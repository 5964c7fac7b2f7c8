------------------------------ MODULE AhrsSource ------------------------------
(***************************************************************************)
(* The Lua script that runs on the flight controller and switches the EKF  *)
(* between GPS and VSLAM (params/data/ahrs-source-gps-vslam.lua): update() *)
(* is called at 10 Hz.  What it reads is abstracted to its two verdicts,   *)
(* gps_bad and extnav_bad, which change freely from call to call.          *)
(***************************************************************************)
EXTENDS Integers

CONSTANT VOTE_THRESHOLD  \* 20: two seconds of calls

ASSUME AhrsAssumption == VOTE_THRESHOLD \in Nat \ {0}

VARIABLES
    vote_counter,
    current_source,  \* also the EKF's source set: nothing else sets it
    lost             \* history: calls in a row with gps_bad /\ ~extnav_bad,
                     \* counted up to 2 * VOTE_THRESHOLD

vars == <<vote_counter, current_source, lost>>

Sources == {"GPS", "VSLAM"}
Cap == 2 * VOTE_THRESHOLD
CountUp(n) == IF n < Cap THEN n + 1 ELSE n

Init ==
    /\ vote_counter = 0
    /\ current_source = "GPS"
    /\ lost = 0

(* Mutant of Vote: a bad GPS is enough to vote for VSLAM.                  *)
VoteGpsOnly(gps_bad, extnav_bad) ==
    IF gps_bad
    THEN IF vote_counter < VOTE_THRESHOLD THEN vote_counter + 1 ELSE VOTE_THRESHOLD
    ELSE IF vote_counter > -VOTE_THRESHOLD THEN vote_counter - 1 ELSE -VOTE_THRESHOLD

(* Mutant of Vote: the votes for a good GPS are not capped.                *)
VoteUncapped(gps_bad, extnav_bad) ==
    IF gps_bad /\ ~extnav_bad
    THEN IF vote_counter < VOTE_THRESHOLD THEN vote_counter + 1 ELSE VOTE_THRESHOLD
    ELSE IF gps_bad THEN vote_counter
    ELSE vote_counter - 1

(* The new vote_counter: capped on both sides, unchanged when both are bad *)
Vote(gps_bad, extnav_bad) ==
    IF gps_bad /\ ~extnav_bad
    THEN IF vote_counter < VOTE_THRESHOLD THEN vote_counter + 1 ELSE VOTE_THRESHOLD
    ELSE IF gps_bad THEN vote_counter
    ELSE IF vote_counter > -VOTE_THRESHOLD THEN vote_counter - 1 ELSE -VOTE_THRESHOLD

(* Mutant of Desired: an off-by-one above the cap of the votes.            *)
DesiredAbove(vote) == IF vote > VOTE_THRESHOLD THEN "VSLAM" ELSE "GPS"

(* GPS unless the vote stands at its upper cap.                            *)
Desired(vote) == IF vote >= VOTE_THRESHOLD THEN "VSLAM" ELSE "GPS"

(* update()                                                                *)
Update(gps_bad, extnav_bad) ==
    LET vote == Vote(gps_bad, extnav_bad) IN
    /\ vote_counter' = vote
    /\ current_source' = Desired(vote)
    /\ lost' = IF gps_bad /\ ~extnav_bad THEN CountUp(lost) ELSE 0

(* The flight controller reboots: the script is loaded afresh.             *)
Reboot ==
    /\ vote_counter' = 0
    /\ current_source' = "GPS"
    /\ lost' = 0

Next == (\E gps_bad, extnav_bad \in BOOLEAN : Update(gps_bad, extnav_bad)) \/ Reboot

Spec == Init /\ [][Next]_vars

-----------------------------------------------------------------------------
TypeOK ==
    /\ vote_counter \in -VOTE_THRESHOLD .. VOTE_THRESHOLD
    /\ current_source \in Sources
    /\ lost \in 0 .. Cap

(* However good GPS was before, GPS that stays bad while ExternalNav is    *)
(* good is left for VSLAM within 2 * VOTE_THRESHOLD calls: four seconds,   *)
(* twice the two seconds of the comment, because the votes for a good GPS  *)
(* are banked down to -VOTE_THRESHOLD.                                     *)
LostGpsIsLeft == lost = Cap => current_source = "VSLAM"

(* The EKF is never moved to an ExternalNav that is itself bad: VSLAM is   *)
(* entered only in a call that finds GPS bad and ExternalNav good.         *)
EntersVslamOnGoodExtnav ==
    [][current_source = "GPS" /\ current_source' = "VSLAM" => lost' >= 1]_vars
=============================================================================
