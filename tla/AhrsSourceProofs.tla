--------------------------- MODULE AhrsSourceProofs ---------------------------
(***************************************************************************)
(* The properties of AhrsSource for every threshold.                       *)
(***************************************************************************)
EXTENDS AhrsSource, TLAPS

(* The source is a function of the vote, and the vote is at most           *)
(* VOTE_THRESHOLD behind the number of calls GPS has been lost for.        *)
IInv ==
    /\ TypeOK
    /\ current_source = Desired(vote_counter)
    /\ vote_counter >= lost - VOTE_THRESHOLD

(* The first state of the script satisfies the inductive invariant.        *)
LEMMA InitIInv == Init => IInv
  BY AhrsAssumption DEF Init, IInv, TypeOK, Desired, Cap, Sources

(* One call of update() preserves it, whatever the call reads.             *)
LEMMA UpdateIInv ==
    ASSUME IInv, NEW gps_bad \in BOOLEAN, NEW extnav_bad \in BOOLEAN,
           Update(gps_bad, extnav_bad)
    PROVE  IInv'
  <1>. USE AhrsAssumption
  <1>1. /\ vote_counter \in Int /\ lost \in Int
        /\ -VOTE_THRESHOLD <= vote_counter /\ vote_counter <= VOTE_THRESHOLD
        /\ 0 <= lost /\ lost <= Cap
        /\ Cap = 2 * VOTE_THRESHOLD
        /\ vote_counter >= lost - VOTE_THRESHOLD
    BY DEF IInv, TypeOK, Cap
  <1>2. vote_counter' = Vote(gps_bad, extnav_bad)
    BY DEF Update
  <1>3. vote_counter' \in -VOTE_THRESHOLD .. VOTE_THRESHOLD
    BY <1>1, <1>2 DEF Vote
  <1>4. lost' \in 0 .. Cap
    BY <1>1 DEF Update, CountUp
  <1>5. vote_counter' >= lost' - VOTE_THRESHOLD
    <2>1. CASE gps_bad /\ ~extnav_bad
      BY <1>1, <1>2, <2>1 DEF Update, Vote, CountUp
    <2>2. CASE ~(gps_bad /\ ~extnav_bad)
      <3>1. lost' = 0
        BY <2>2 DEF Update
      <3>. QED  BY <1>1, <1>3, <3>1
    <2>. QED  BY <2>1, <2>2
  <1>6. current_source' = Desired(vote_counter')
    BY DEF Update
  <1>7. current_source' \in Sources
    BY <1>6 DEF Desired, Sources
  <1>. QED
    BY <1>3, <1>4, <1>5, <1>6, <1>7 DEF IInv, TypeOK, Desired, Cap

(* So does every step.                                                     *)
LEMMA NextIInv == IInv /\ [Next]_vars => IInv'
  <1>. SUFFICES ASSUME IInv, [Next]_vars PROVE IInv'
    OBVIOUS
  <1>1. ASSUME NEW gps_bad \in BOOLEAN, NEW extnav_bad \in BOOLEAN,
               Update(gps_bad, extnav_bad)
        PROVE  IInv'
    BY <1>1, UpdateIInv
  <1>2. CASE Reboot
    BY <1>2, AhrsAssumption DEF Reboot, IInv, TypeOK, Desired, Cap, Sources
  <1>3. CASE UNCHANGED vars
    BY <1>3 DEF vars, IInv, TypeOK, Desired, Cap
  <1>. QED
    BY <1>1, <1>2, <1>3 DEF Next

(* The inductive invariant holds throughout.                               *)
LEMMA Inductive == Spec => []IInv
  BY InitIInv, NextIInv, PTL DEF Spec

(* The type invariant, whatever update() reads and whenever it reboots.    *)
THEOREM TypeCorrect == Spec => []TypeOK
  <1>1. IInv => TypeOK
    BY DEF IInv
  <1>. QED
    BY <1>1, Inductive, PTL

(* GPS that update() finds lost for 2 * VOTE_THRESHOLD calls in a row has  *)
(* been left for VSLAM, for every threshold.                               *)
THEOREM LostGps == Spec => []LostGpsIsLeft
  <1>1. IInv => LostGpsIsLeft
    BY AhrsAssumption DEF IInv, TypeOK, LostGpsIsLeft, Desired, Cap
  <1>. QED
    BY <1>1, Inductive, PTL

(* update() moves the EKF to VSLAM only in a call that finds GPS bad and   *)
(* ExternalNav good, for every threshold.                                  *)
THEOREM GoodExtnav == Spec => EntersVslamOnGoodExtnav
  <1>1. ASSUME IInv, [Next]_vars
        PROVE  [current_source = "GPS" /\ current_source' = "VSLAM" => lost' >= 1]_vars
    <2>. SUFFICES ASSUME current_source = "GPS", current_source' = "VSLAM"
                  PROVE  lost' >= 1
      OBVIOUS
    <2>1. PICK gps_bad \in BOOLEAN, extnav_bad \in BOOLEAN :
            Update(gps_bad, extnav_bad)
      BY <1>1 DEF Next, vars, Reboot
    <2>2. vote_counter < VOTE_THRESHOLD /\ vote_counter' >= VOTE_THRESHOLD
      BY <1>1, <2>1, AhrsAssumption DEF IInv, TypeOK, Desired, Update, Vote
    <2>3. gps_bad /\ ~extnav_bad
      BY <1>1, <2>1, <2>2, AhrsAssumption DEF IInv, TypeOK, Update, Vote
    <2>. QED
      BY <1>1, <2>1, <2>3, AhrsAssumption DEF IInv, TypeOK, Update, CountUp, Cap
  <1>. QED
    BY <1>1, Inductive, PTL DEF Spec, EntersVslamOnGoodExtnav
===============================================================================
