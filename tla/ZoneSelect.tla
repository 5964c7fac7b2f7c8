----------------------------- MODULE ZoneSelect ------------------------------
(***************************************************************************)
(* "mower zone select" (cli/zone_laptop.py): confirmation, armed check,    *)
(* zone activation on the Jetson over SSH, then _upload_zone_atomically:   *)
(* three uploads, three round-trip verifications, and on an exception a    *)
(* best-effort clear of the three mission types.                           *)
(*                                                                         *)
(* The operator arms and disarms the vehicle with the RC transmitter at    *)
(* any time.  Between two protocol calls the program is at a "pc" with     *)
(* call = "idle"; a call in progress is a step of MissionProtocol.         *)
(***************************************************************************)
EXTENDS MissionProtocol

CONSTANTS
    Options,     \* the command lines tried: [dry_run, assume_yes, skip_slam]
    MayArm       \* TRUE iff the operator may arm the vehicle

ASSUME OptionsAssumption ==
    /\ Options \subseteq
         [dry_run : BOOLEAN, assume_yes : BOOLEAN, skip_slam : BOOLEAN]
    /\ MayArm \in BOOLEAN

VARIABLES
    pc,        \* where select_zone is
    opt,       \* the command line
    outcome,   \* how the command ended
    verified,  \* the types for which verify_round_trip returned True
    cleared,   \* the types for which clear_mission returned normally
    armed,     \* the vehicle is armed
    jetson     \* its configuration and its SLAM node's zone; the remote command

progVars == <<pc, opt, outcome, verified, cleared, armed, jetson>>
vars == <<linkVars, fcVars, callVars, progVars>>

Places == {"start", "connect", "check", "activate", "plan",
           "upload", "verify", "clear", "end"}
JetsonState ==
    [config : Zones, running : Zones \cup {"none"},
     remote : {"idle", "save", "restart", "bridge", "ok", "failed"}]
Outcomes == {"none", "declined", "bad_zone", "dry_run", "connect_failed",
             "armed", "activate_failed", "no_waypoints",
             "selected", "snapshot_failed", "upload_failed"}

Uploaded == {"selected", "snapshot_failed"}   \* after all uploads

Init ==
    /\ ProtocolInit
    /\ pc = "start"
    /\ opt \in Options
    /\ outcome = "none"
    /\ verified = {}
    /\ cleared = {}
    /\ armed \in {FALSE, MayArm}
    /\ jetson = [config |-> OldZone, running |-> OldZone, remote |-> "idle"]

protocolVars == <<linkVars, fcVars, callVars>>

(* The order in which the three types are uploaded, verified and cleared.  *)
NextType(t) ==
    IF t = "MISSION" THEN "FENCE" ELSE IF t = "FENCE" THEN "RALLY" ELSE "none"

End(o) == pc' = "end" /\ outcome' = o

-----------------------------------------------------------------------------
(* Operator                                                                *)

Arm ==
    /\ MayArm
    /\ armed' = ~armed
    /\ UNCHANGED <<protocolVars, pc, opt, outcome, verified, cleared, jetson>>

(* requires_confirmation: a dry run or --yes skips the prompt; then the    *)
(* zone file is loaded.                                                    *)
Confirm ==
    /\ pc = "start"
    /\ \/ /\ ~opt.dry_run /\ ~opt.assume_yes
          /\ End("declined")
       \/ End("bad_zone")
       \/ opt.dry_run /\ End("dry_run")
       \/ ~opt.dry_run /\ pc' = "connect" /\ UNCHANGED outcome
    /\ UNCHANGED <<protocolVars, opt, verified, cleared, armed, jetson>>

Connect ==
    /\ pc = "connect"
    /\ \/ End("connect_failed")
       \/ pc' = "check" /\ UNCHANGED outcome
    /\ UNCHANGED <<protocolVars, opt, verified, cleared, armed, jetson>>

(* What the next HEARTBEAT of the link says: the flight controller's armed *)
(* flag, base_mode 0 of another component (the VSLAM bridge sends one at   *)
(* 1 Hz), or nothing for 5 s.                                              *)
HeartbeatFlags == {armed, FALSE}

CheckNotArmed ==
    /\ pc = "check"
    /\ \E flag \in HeartbeatFlags :
         IF flag THEN End("armed")
         ELSE /\ pc' = IF opt.skip_slam THEN "plan" ELSE "activate"
              /\ UNCHANGED outcome
    /\ UNCHANGED <<protocolVars, opt, verified, cleared, armed, jetson>>

(* _activate_zone_on_jetson: client.run starts the command over SSH.       *)
ActivateZoneOnJetson ==
    /\ pc = "activate" /\ jetson.remote = "idle"
    /\ jetson' = [jetson EXCEPT !.remote = "save"]
    /\ UNCHANGED <<protocolVars, pc, opt, outcome, verified, cleared, armed>>

(* Mutant of ActivateReturned: result.ok is not looked at.                 *)
ActivateReturnedIgnored ==
    /\ pc = "activate" /\ jetson.remote # "idle"
    /\ pc' = "plan" /\ UNCHANGED outcome
    /\ UNCHANGED <<protocolVars, opt, verified, cleared, armed, jetson>>

(* ... and waits for its end for 30 s.  SshError (a time-out, a connection *)
(* that was lost) leaves the remote command to itself.                     *)
ActivateReturned ==
    /\ pc = "activate" /\ jetson.remote # "idle"
    /\ \/ jetson.remote = "ok" /\ pc' = "plan" /\ UNCHANGED outcome
       \/ End("activate_failed")
    /\ UNCHANGED <<protocolVars, opt, verified, cleared, armed, jetson>>

-----------------------------------------------------------------------------
(* zone_activate_command, on the Jetson: each of its steps may fail.       *)
Remote(stage, changed) ==
    /\ jetson.remote = stage
    /\ jetson' \in {[jetson EXCEPT !.remote = "failed"], changed}
    /\ UNCHANGED <<protocolVars, pc, opt, outcome, verified, cleared, armed>>

JetsonSaves ==
    Remote("save", [jetson EXCEPT !.remote = "restart", !.config = NewZone])

(* systemctl restart of the SLAM node, which reads the configuration.  A   *)
(* restart that fails leaves it stopped.                                   *)
JetsonRestarts ==
    /\ jetson.remote = "restart"
    /\ jetson' \in {[jetson EXCEPT !.remote = "failed", !.running = "none"],
                   [jetson EXCEPT !.remote = "bridge", !.running = jetson.config]}
    /\ UNCHANGED <<protocolVars, pc, opt, outcome, verified, cleared, armed>>

JetsonRestartsBridge == Remote("bridge", [jetson EXCEPT !.remote = "ok"])

(* systemd starts the SLAM node again (Restart=on-failure).                *)
SlamRestarts ==
    /\ jetson.running # jetson.config
    /\ jetson' = [jetson EXCEPT !.running = jetson.config]
    /\ UNCHANGED <<protocolVars, pc, opt, outcome, verified, cleared, armed>>

Jetson == JetsonSaves \/ JetsonRestarts \/ JetsonRestartsBridge \/ SlamRestarts

-----------------------------------------------------------------------------
(* generate_waypoints, the conversions, and the first upload.              *)
Plan ==
    /\ pc = "plan"
    /\ \/ End("no_waypoints") /\ UNCHANGED protocolVars
       \/ pc' = "upload" /\ UNCHANGED outcome /\ StartUpload("MISSION")
    /\ UNCHANGED <<opt, verified, cleared, armed, jetson>>

(* _upload_zone_atomically, its try block                                  *)

UploadReturned ==
    /\ pc = "upload" /\ call = "idle" /\ ret = "ok"
    /\ IF NextType(type) # "none"
       THEN StartUpload(NextType(type)) /\ UNCHANGED pc
       ELSE StartDownload("MISSION") /\ pc' = "verify"
    /\ UNCHANGED <<opt, outcome, verified, cleared, armed, jetson>>

(* Mutant of RoundTripMatches: only the counts are compared.               *)
RoundTripCountMatches ==
    ret = "ok" /\ Len(items) = ItemCount[NewZone][type]

(* verify_round_trip compares; its result is not used by the caller.       *)
RoundTripMatches == ret = "ok" /\ items = Items(NewZone, type)

(* Mutant of VerifyReturned: the loop runs past the last type.             *)
VerifyReturnedPastLast ==
    /\ pc = "verify" /\ call = "idle" /\ ret # "none"
    /\ verified' = IF RoundTripMatches THEN verified \cup {type} ELSE verified
    /\ StartDownload(NextType(type))
    /\ UNCHANGED <<pc, outcome, opt, cleared, armed, jetson>>

(* Behind the last one the snapshot is written, or its file cannot be:     *)
(* OSError ends the command.                                               *)
VerifyReturned ==
    /\ pc = "verify" /\ call = "idle" /\ ret # "none"
    /\ verified' = IF RoundTripMatches THEN verified \cup {type} ELSE verified
    /\ IF NextType(type) # "none"
       THEN StartDownload(NextType(type)) /\ UNCHANGED <<pc, outcome>>
       ELSE (\E o \in Uploaded : End(o)) /\ UNCHANGED protocolVars
    /\ UNCHANGED <<opt, cleared, armed, jetson>>

(* An exception other than MissionDownloadError, as of a broken link, is   *)
(* not caught by verify_round_trip: what was read back is given up.        *)
VerifyRaised ==
    /\ pc = "verify" /\ call # "idle"
    /\ pc' = "clear"
    /\ verified' = {}
    /\ StartClear("MISSION")
    /\ UNCHANGED <<opt, outcome, cleared, armed, jetson>>

(* Mutant of UploadRaised: the types up to the failed one are not cleared. *)
UploadRaisedKeeps ==
    /\ pc = "upload" /\ call = "idle" /\ ret = "error"
    /\ pc' = "clear"
    /\ StartClear(IF NextType(type) = "none" THEN type ELSE NextType(type))
    /\ UNCHANGED <<opt, outcome, verified, cleared, armed, jetson>>

(* _upload_zone_atomically, its except block                               *)
UploadRaised ==
    /\ pc = "upload" /\ call = "idle" /\ ret = "error"
    /\ pc' = "clear"
    /\ StartClear("MISSION")
    /\ UNCHANGED <<opt, outcome, verified, cleared, armed, jetson>>

(* Mutant of ClearVerified: the number of items left is not looked at.     *)
ClearVerifiedAnyCount == ret = "ok"

(* clear_mission's own verification: a mission may keep its home item.     *)
ClearVerified ==
    ret = "ok" /\ Len(items) <= (IF type = "MISSION" THEN 1 ELSE 0)

(* The first clear_mission that raises ends the clearing; the error shown  *)
(* is the same in both cases.                                              *)
ClearReturned ==
    /\ pc = "clear" /\ call = "idle" /\ ret # "none"
    /\ cleared' = IF ClearVerified THEN cleared \cup {type} ELSE cleared
    /\ IF ClearVerified /\ NextType(type) # "none"
       THEN StartClear(NextType(type)) /\ UNCHANGED <<pc, outcome>>
       ELSE End("upload_failed") /\ UNCHANGED protocolVars
    /\ UNCHANGED <<opt, verified, armed, jetson>>

Select ==
    \/ Confirm \/ Connect \/ CheckNotArmed \/ ActivateZoneOnJetson
    \/ ActivateReturned \/ Plan
    \/ UploadReturned \/ UploadRaised \/ VerifyReturned \/ ClearReturned

Ended == pc = "end" /\ UNCHANGED vars

Next ==
    \/ Select \/ VerifyRaised
    \/ Program /\ UNCHANGED progVars
    \/ Environment /\ UNCHANGED progVars
    \/ Jetson
    \/ Arm
    \/ Ended

Spec == Init /\ [][Next]_vars

(* The program runs: it takes its next step, and the deadline of the loop  *)
(* it is in passes.  Nothing is assumed of the link, of the flight         *)
(* controller or of the operator.                                          *)
Fairness == WF_vars(Select) /\ WF_vars(CallTimeout /\ UNCHANGED progVars)

FairSpec == Spec /\ Fairness

-----------------------------------------------------------------------------
TypeOK ==
    /\ ProtocolTypeOK
    /\ pc \in Places
    /\ opt \in Options
    /\ outcome \in Outcomes
    /\ verified \subseteq MissionTypes
    /\ cleared \subseteq MissionTypes
    /\ armed \in BOOLEAN
    /\ jetson \in JetsonState

(* select_zone gets behind its uploads, and prints "selected successfully" *)
(* if the snapshot can be written, only when the flight controller holds   *)
(* the new zone's mission, fence and rally point: every one of the three   *)
(* ACKs the program acted on was the answer to a transfer that had stored  *)
(* every item.                                                             *)
SelectedMeansStored ==
    outcome \in Uploaded =>
        \A t \in MissionTypes : store[t] = Items(NewZone, t)

(* A clear_mission call that returned normally left nothing of that type   *)
(* on the flight controller but at most a home item, and nothing sent      *)
(* earlier (a late item of the failed upload) refills it.                  *)
ClearedMeansEmpty ==
    \A t \in cleared :
        Len(store[t]) <= (IF t = "MISSION" THEN 1 ELSE 0)

(* verify_round_trip tells the truth, duplicated and late messages         *)
(* included: a type it accepted is stored as the new zone has it, and      *)
(* stays so.                                                               *)
VerifiedMeansStored ==
    \A t \in verified : store[t] = Items(NewZone, t)

(* "mower zone select" always comes to an end: each receive loop has a     *)
(* deadline, whatever the link loses and the flight controller repeats.    *)
SelectTerminates == <>(pc = "end")

(* The mission and the fence the flight controller holds are both complete *)
(* and of different zones.                                                 *)
Mismatch ==
    \E y, z \in Zones :
        /\ y # z
        /\ store["MISSION"] = Items(y, "MISSION")
        /\ store["FENCE"] = Items(z, "FENCE")

(* "Clear-all-on-failure prevents mission/fence mismatch (most dangerous   *)
(* failure mode)" (docs/plans/013): the command ends with one only if a    *)
(* clear_mission raised as well, and then says that the upload failed.     *)
MismatchOnlyAfterFailedClear ==
    pc = "end" /\ Mismatch => outcome = "upload_failed" /\ ~ClearVerified

-----------------------------------------------------------------------------
(* ZoneSelect as a transaction.  A mission may keep its home item.         *)
Held(t) ==
    IF store[t] = Items(OldZone, t) THEN "old"
    ELSE IF store[t] = Items(NewZone, t) THEN "new"
    ELSE IF Len(store[t]) <= (IF t = "MISSION" THEN 1 ELSE 0) THEN "empty"
    ELSE "partial"

Slam ==
    IF jetson.running = OldZone THEN "old"
    ELSE IF jetson.running = NewZone THEN "new" ELSE "off"

Stage ==
    IF outcome = "selected" THEN "committed"
    ELSE IF outcome = "snapshot_failed" THEN "unreported"
    ELSE IF outcome = "upload_failed" THEN "failed"
    ELSE IF outcome # "none" THEN "refused"
    ELSE IF pc = "clear" THEN "undoing" ELSE "open"

UploadOrder == [t \in MissionTypes |->
    IF t = "MISSION" THEN 1 ELSE IF t = "FENCE" THEN 2 ELSE 3]

Transaction == INSTANCE ZoneTransaction WITH
    Types <- MissionTypes, Rank <- UploadOrder,
    held <- [t \in MissionTypes |-> Held(t)], slam <- Slam,
    skip <- opt.skip_slam, stage <- Stage

(* "mower zone select" implements the transaction: it reports success only *)
(* with all three stores and the map of the SLAM node of the new zone, and *)
(* fails to report it only where the snapshot could not be written; every  *)
(* other end before the first upload leaves the stores as they were,       *)
(* for good; no store is touched while an earlier one is not complete; and *)
(* the stores are emptied in order, late messages included.                *)
ImplementsTransaction == Transaction!Spec
=============================================================================
