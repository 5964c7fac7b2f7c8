------------------------- MODULE FirmwareUpdateProofs ------------------------
(***************************************************************************)
(* What open_link guarantees for every number of attempts, and on it, what *)
(* the firmware commands guarantee, each of whose links is a run of it:    *)
(* for every number of commands, versions and attempts of a link, whenever *)
(* they are killed, the board reboots, is armed, or a new version is       *)
(* released.                                                               *)
(***************************************************************************)
EXTENDS FirmwareUpdate, TLAPS

-----------------------------------------------------------------------------
(* open_link                                                               *)

(* The type invariant with the point of the loop: attempt numbers only     *)
(* grow where another attempt is left, and the body was started exactly    *)
(* when it runs, has raised or has ended.                                  *)
Counted ==
    /\ TypeOK
    /\ pc = "backoff" => attempt < RetryAttempts
    /\ pc \in {"top", "open", "heartbeat", "caught", "backoff"} =>
           thrown = TRUE \/ entered = 0
    /\ pc = "body" => entered = 1
    /\ thrown = TRUE => entered = 1

LEMMA CountedInit == Init => Counted
<1> SUFFICES ASSUME Init PROVE Counted
  OBVIOUS
<1>1. /\ shutdown \in BOOLEAN /\ heard \in BOOLEAN /\ thrown \in BOOLEAN
      /\ ~thrown
  BY Zenon DEF Init
<1>2. TypeOK
  BY <1>1, OpenLinkAssumption DEF Init, TypeOK
<1> QED
  BY <1>1, <1>2 DEF Init, Counted

LEMMA CountedNext == Counted /\ [Next]_vars => Counted'
<1> SUFFICES ASSUME Counted, [Next]_vars PROVE Counted'
  OBVIOUS
<1> USE OpenLinkAssumption DEF Counted, TypeOK, env, Leave
<1>1. CASE Top
  BY <1>1 DEF Top
<1>2. CASE Open
  BY <1>2 DEF Open
<1>3. CASE Heartbeat
  BY <1>3 DEF Heartbeat
<1>4. CASE NoHeartbeat
  BY <1>4 DEF NoHeartbeat
<1>5. CASE Caught
  BY <1>5 DEF Caught
<1>6. CASE Backoff
  BY <1>6 DEF Backoff
<1>7. CASE BodyRaises
  BY <1>7 DEF BodyRaises
<1>8. CASE BodyEnds
  BY <1>8 DEF BodyEnds
<1>9. CASE SetShutdown
  BY <1>9 DEF SetShutdown
<1>10. CASE Left \/ UNCHANGED vars
  BY <1>10 DEF Left, vars
<1> QED
  BY <1>1, <1>2, <1>3, <1>4, <1>5, <1>6, <1>7, <1>8, <1>9, <1>10 DEF Next, Link

(* Type correctness of open_link, in particular: the body of the with      *)
(* statement is never started a second time, however often an exception of *)
(* the body sends the loop back to another attempt.                        *)
THEOREM TypeCorrect == Spec => []TypeOK
<1>1. Counted => TypeOK
  BY DEF Counted
<1> QED
  BY <1>1, CountedInit, CountedNext, PTL DEF Spec

-----------------------------------------------------------------------------
(* No autopilot can be heard in attempt a.                                 *)
Deaf(a) ==
    a < presentFrom \/ a < aliveFrom \/ (Exclusive /\ presentFrom < aliveFrom)

(* As long as the body was not started, every attempt that is over was     *)
(* deaf, and a connection that was left open is one that heard nothing.    *)
EndedAttemptsDeaf ==
    /\ pc = "heartbeat" => attempt >= presentFrom
    /\ entered = 0 /\ conn = "open" /\ pc # "heartbeat" => presentFrom < aliveFrom
    /\ entered = 0 /\ pc \in {"caught", "backoff"} => Deaf(attempt)
    /\ entered = 0 /\ pc = "left" /\ result # "shutdown" => Deaf(RetryAttempts)

LEMMA EndedInit == Init => EndedAttemptsDeaf
  BY DEF Init, EndedAttemptsDeaf

LEMMA EndedNext == Counted /\ EndedAttemptsDeaf /\ [Next]_vars => EndedAttemptsDeaf'
<1> SUFFICES ASSUME Counted, EndedAttemptsDeaf, [Next]_vars PROVE EndedAttemptsDeaf'
  OBVIOUS
<1> USE OpenLinkAssumption
    DEF Counted, TypeOK, EndedAttemptsDeaf, Deaf, env, Leave
<1>1. CASE Top
  BY <1>1 DEF Top
<1>2. CASE Open
  BY <1>2 DEF Open, Openable
<1>3. CASE Heartbeat
  BY <1>3 DEF Heartbeat
<1>4. CASE NoHeartbeat
  BY <1>4 DEF NoHeartbeat
<1>5. CASE Caught
  BY <1>5 DEF Caught
<1>6. CASE Backoff
  BY <1>6 DEF Backoff
<1>7. CASE BodyRaises
  BY <1>7 DEF BodyRaises
<1>8. CASE BodyEnds
  BY <1>8 DEF BodyEnds
<1>9. CASE SetShutdown
  BY <1>9 DEF SetShutdown
<1>10. CASE Left \/ UNCHANGED vars
  BY <1>10 DEF Left, vars
<1> QED
  BY <1>1, <1>2, <1>3, <1>4, <1>5, <1>6, <1>7, <1>8, <1>9, <1>10 DEF Next, Link

(* open_link gives up only if the autopilot could be heard in none of its  *)
(* attempts, or if the endpoint can be open only once and was there before *)
(* the autopilot.                                                          *)
THEOREM RetryFinds == Spec => []RetryFindsAutopilot
<1>1. Counted /\ EndedAttemptsDeaf => RetryFindsAutopilot
  BY OpenLinkAssumption DEF Counted, TypeOK, EndedAttemptsDeaf, Deaf, RetryFindsAutopilot
<1> QED
  BY <1>1, CountedInit, CountedNext, EndedInit, EndedNext, PTL DEF Spec

(* Once the shutdown event is set no attempt begins: the event is looked   *)
(* at before each one, the first included.                                 *)
THEOREM ShutdownStops == Spec => NoAttemptAfterShutdown
<1>1. Counted /\ [Next]_vars => [shutdown => pc' # "open" \/ pc = "open"]_vars
  BY DEF Next, Link, Top, Open, Heartbeat, NoHeartbeat, Caught, Backoff, BodyRaises,
         BodyEnds, SetShutdown, Left, Leave, vars, Counted, TypeOK
<1> QED
  BY <1>1, CountedInit, CountedNext, PTL DEF Spec, NoAttemptAfterShutdown

-----------------------------------------------------------------------------
(* The firmware commands                                                   *)

(* The steps behind a confirmation, and those behind a valid image.        *)
Confirmed == {"armed_check", "reboot", "wait", "flash", "settle", "verify"}
Validated == {"snapshot", "confirm"} \cup Confirmed
Holding == {"validate"} \cup (Validated \ {"settle", "verify"})

(* No step is reached without its image, and none behind the prompt in a   *)
(* dry run.                                                                *)
Prepared ==
    /\ step \in Validated => image.valid = TRUE
    /\ opts.cmd = "flash" /\ step = "version" => image.valid = TRUE
    /\ step = "file" => opts.cmd = "flash"
    /\ step \in {"remote", "download", "validate"} => opts.cmd # "flash"
    /\ step \in Confirmed => opts.dry_run = FALSE

(* firmware-update holds what was decided on, or a later release.          *)
Decided ==
    opts.cmd = "update" =>
        /\ step \in {"download"} \cup Holding =>
             /\ latest \in 1 .. release
             /\ opts.force = TRUE \/ latest > running
        /\ step \in Holding => image.version \in latest .. release

(* The armed check was made, and what it found still holds unless the      *)
(* model has noted that it does not.                                       *)
ArmedCheck ==
    /\ checked = "disarmed" => device.armed = FALSE
    /\ step = "armed_check" /\ result = "ok" => checked # "none"
    /\ step = "reboot" => checked # "none"

IInv ==
    /\ FirmwareTypeOK /\ Counted /\ EndedAttemptsDeaf
    /\ Prepared /\ Decided /\ ArmedCheck

(* What the types say of the records.                                      *)
LEMMA Records ==
    ASSUME FirmwareTypeOK
    PROVE  /\ opts.cmd \in Commands /\ opts.force \in BOOLEAN
           /\ opts.offline \in BOOLEAN /\ opts.dry_run \in BOOLEAN
           /\ opts.yes \in BOOLEAN /\ opts.skip_snapshot \in BOOLEAN
           /\ image.valid \in BOOLEAN
           /\ image.valid = TRUE => image.version \in Versions
           /\ device.mode \in {"app", "boot"} /\ device.armed \in BOOLEAN
           /\ device.app \in Versions
           /\ device.rebooting \in BOOLEAN
<1>1. opts \in [cmd : Commands, force : BOOLEAN, offline : BOOLEAN, dry_run : BOOLEAN,
                yes : BOOLEAN, skip_snapshot : BOOLEAN]
  BY FirmwareAssumption DEF FirmwareTypeOK
<1>2. device \in Device
  BY DEF FirmwareTypeOK
<1>3. /\ image.valid \in BOOLEAN
      /\ image.valid = TRUE => image.version \in Versions
  <2>1. CASE image \in [version : Versions, valid : {TRUE}]
    BY <2>1
  <2>2. CASE image \in {NoImage, Broken}
    <3>1. image.valid = FALSE
      BY <2>2 DEF NoImage, Broken
    <3> QED
      BY <3>1, Zenon
  <2> QED
    BY <2>1, <2>2 DEF FirmwareTypeOK, Images
<1> QED
  BY <1>1, <1>2, <1>3 DEF Device

-----------------------------------------------------------------------------
(* The link                                                                *)

LEMMA EnterLink ==
    ASSUME Counted, NEW mode, Enter(mode)
    PROVE  Counted' /\ EndedAttemptsDeaf' /\ result' = "none"
<1>0. heard' \in BOOLEAN /\ thrown' \in BOOLEAN /\ ~thrown'
  BY Zenon DEF Enter
<1>1. Counted'
  BY <1>0, OpenLinkAssumption DEF Enter, Counted, TypeOK
<1>2. EndedAttemptsDeaf'
  BY DEF Enter, EndedAttemptsDeaf
<1> QED
  BY <1>1, <1>2 DEF Enter

LEMMA SameLink ==
    ASSUME Counted, EndedAttemptsDeaf, UNCHANGED linkVars
    PROVE  Counted' /\ EndedAttemptsDeaf' /\ result' = result
  BY DEF linkVars, env, Counted, TypeOK, EndedAttemptsDeaf, Deaf

(* A step of the link, or the end of a body, is a step of OpenLink.        *)
LEMMA LinkNext ==
    ASSUME Counted, EndedAttemptsDeaf, Link \/ BodyEnds \/ BodyRaises
    PROVE  Counted' /\ EndedAttemptsDeaf'
  BY CountedNext, EndedNext DEF Next

LEMMA LinkInv == IInv /\ FirmwareNext => Counted' /\ EndedAttemptsDeaf'
<1> SUFFICES ASSUME IInv, FirmwareNext PROVE Counted' /\ EndedAttemptsDeaf'
  OBVIOUS
<1> USE DEF IInv
<1>1. CASE LinkStep \/ ReadVersion \/ Snapshot \/ CheckNotArmed \/ Reboot \/ Verify
  BY <1>1, LinkNext DEF LinkStep, ReadVersion, Snapshot, CheckNotArmed, Reboot, Verify,
                        Returns, Raises
<1>2. CASE UNCHANGED linkVars
  BY <1>2, SameLink
<1>3. ASSUME NEW mode, Enter(mode) PROVE Counted' /\ EndedAttemptsDeaf'
  BY <1>3, EnterLink
<1>4. ASSUME NEW s, Goes(s) PROVE Counted' /\ EndedAttemptsDeaf'
  BY <1>2, <1>3, <1>4 DEF Goes
<1>5. ASSUME NEW how, Ends(how) PROVE UNCHANGED linkVars
  BY <1>5 DEF Ends
<1>6. CASE VersionRead \/ RemoteChecked \/ Download \/ Validate \/ SnapshotTaken
             \/ Confirm \/ NotArmed \/ RebootSent \/ WaitForBootloader \/ Flash
             \/ Settled \/ Verified \/ Killed
  BY <1>2, <1>4, <1>5, <1>6
     DEF VersionRead, RemoteChecked, Download, Validate, SnapshotTaken, Confirm, NotArmed,
         RebootSent, WaitForBootloader, Flash, Settled, Verified, Killed
<1>7. CASE Again
  BY <1>3, <1>7 DEF Again
<1>8. CASE PowerCycle \/ Arm \/ Publish \/ Rest
  BY <1>2, <1>8 DEF PowerCycle, Arm, Publish, Rest, allVars
<1>9. CASE DeviceReboots
  <2>1. Counted'
    BY <1>9, OpenLinkAssumption DEF DeviceReboots, Counted, TypeOK
  <2>2. EndedAttemptsDeaf'
    BY <1>9, OpenLinkAssumption DEF DeviceReboots, Counted, TypeOK, EndedAttemptsDeaf, Deaf
  <2> QED
    BY <2>1, <2>2
<1> QED
  BY <1>1, <1>6, <1>7, <1>8, <1>9 DEF FirmwareNext, CommandStep

-----------------------------------------------------------------------------
LEMMA InitIInv == FirmwareInit => IInv
<1> SUFFICES ASSUME FirmwareInit PROVE IInv
  OBVIOUS
<1>1. Counted /\ EndedAttemptsDeaf
  BY CountedInit, EndedInit DEF FirmwareInit
<1>2. FirmwareTypeOK
  <2>1. device \in Device
    BY DEF FirmwareInit, NewDevice, Device
  <2>2. image \in Images
    BY DEF FirmwareInit, Files, Images
  <2>3. step \in Steps
    BY DEF FirmwareInit, FirstStep, Steps, Blocks
  <2> QED
    BY <1>1, <2>1, <2>2, <2>3, FirmwareAssumption
       DEF FirmwareInit, FirmwareTypeOK, Counted, Versions, None
<1>3. Prepared /\ Decided /\ ArmedCheck
  BY DEF FirmwareInit, Init, Prepared, Decided, ArmedCheck, FirstStep, Confirmed, Validated,
         Holding
<1> QED
  BY <1>1, <1>2, <1>3 DEF IInv

LEMMA NextIInv == IInv /\ [FirmwareNext]_allVars => IInv'
<1> SUFFICES ASSUME IInv, [FirmwareNext]_allVars PROVE IInv'
  OBVIOUS
<1>0. CASE UNCHANGED allVars
  BY <1>0 DEF allVars, linkVars, fwVars, local, world, env, IInv, FirmwareTypeOK, TypeOK,
              Counted, EndedAttemptsDeaf, Deaf, Prepared, Decided, ArmedCheck
<1> SUFFICES ASSUME FirmwareNext PROVE IInv'
  BY <1>0
<1>a. Counted' /\ EndedAttemptsDeaf' /\ TypeOK'
  BY LinkInv DEF Counted
<1> USE FirmwareAssumption, Records, <1>a
    DEF IInv, FirmwareTypeOK, Prepared, Decided, ArmedCheck, Confirmed, Validated, Holding,
        Steps, Blocks, Versions, None, local, world, Goes, Ends, InBody, BlockLeft,
        Returns, Raises
<1>1. CASE LinkStep
  BY <1>1 DEF LinkStep, fwVars, Link, Top, Open, Heartbeat, NoHeartbeat, Caught, Backoff, Leave
<1>2. CASE ReadVersion
  BY <1>2 DEF ReadVersion, BodyEnds, Leave, Spoken
<1>3. CASE VersionRead
  BY <1>3 DEF VersionRead, Enter, linkVars
<1>4. CASE RemoteChecked
  BY <1>4 DEF RemoteChecked, UpToDate, Enter, linkVars
<1>5. CASE Download
  BY <1>5 DEF Download, Images, Enter, linkVars
<1>6. CASE Validate
  BY <1>6 DEF Validate, Enter, linkVars
<1>7. CASE Snapshot
  BY <1>7 DEF Snapshot, BodyEnds, BodyRaises, Leave
<1>8. CASE SnapshotTaken
  BY <1>8 DEF SnapshotTaken, Enter, linkVars
<1>9. CASE Confirm
  BY <1>9 DEF Confirm, Enter, linkVars
<1>10. CASE CheckNotArmed
  BY <1>10 DEF CheckNotArmed, BodyEnds, BodyRaises, Leave, Spoken
<1>11. CASE NotArmed
  BY <1>11 DEF NotArmed, Enter, linkVars
<1>12. CASE Reboot
  BY <1>12 DEF Reboot, BodyEnds, BodyRaises, Leave, Device
<1>13. CASE RebootSent
  BY <1>13 DEF RebootSent, Enter, linkVars
<1>14. CASE WaitForBootloader
  BY <1>14 DEF WaitForBootloader, BootloaderAnswers, Enter, linkVars
<1>15. CASE Flash
  BY <1>15 DEF Flash, Enter, linkVars
<1>16. CASE Settled
  BY <1>16 DEF Settled, Enter, linkVars
<1>17. CASE PowerCycle
  <2>1. /\ device' \in Device /\ device'.armed = FALSE
    BY <1>17 DEF PowerCycle, NewDevice, Device
  <2> QED
    BY <1>17, <2>1 DEF PowerCycle, linkVars
<1>18. CASE Verify
  BY <1>18 DEF Verify, BodyEnds, Leave, Spoken
<1>19. CASE Verified
  BY <1>19 DEF Verified, Enter, linkVars
<1>20. CASE Killed
  BY <1>20 DEF Killed, Enter, linkVars
<1>21. CASE Again
  <2>1. image' \in Images /\ step' \in Steps
    BY <1>21 DEF Again, Files, Images, FirstStep
  <2>2. FirmwareTypeOK'
    BY <1>21, <2>1 DEF Again
  <2>3. Prepared' /\ Decided' /\ ArmedCheck'
    BY <1>21 DEF Again, FirstStep, Enter
  <2> QED
    BY <2>2, <2>3
<1>22. CASE DeviceReboots
  <2>1. device' \in Device /\ device'.armed = FALSE
    BY <1>22 DEF DeviceReboots, Device
  <2> QED
    BY <1>22, <2>1 DEF DeviceReboots
<1>23. CASE Arm
  <2>1. /\ device' \in Device /\ device'.mode = device.mode /\ device'.app = device.app
        /\ device'.rebooting = device.rebooting
    BY <1>23 DEF Arm, Device
  <2>2. /\ checked' \in {"none", "disarmed", "unheard", "armed_since"}
        /\ checked = "none" <=> checked' = "none"
    BY <1>23 DEF Arm
  <2>3. checked' = "disarmed" => device'.armed = FALSE
    <3>1. CASE device.armed = TRUE
      BY <1>23, <3>1 DEF Arm, Device
    <3>2. CASE device.armed = FALSE
      BY <1>23, <3>2 DEF Arm, Device
    <3> QED
      BY <3>1, <3>2
  <2> QED
    BY <1>23, <2>1, <2>2, <2>3 DEF Arm, linkVars
<1>24. CASE Publish
  BY <1>24 DEF Publish, linkVars
<1>25. CASE Rest
  BY <1>25, <1>0 DEF Rest
<1> QED
  BY <1>1, <1>2, <1>3, <1>4, <1>5, <1>6, <1>7, <1>8, <1>9, <1>10, <1>11, <1>12, <1>13, <1>14, <1>15, <1>16, <1>17, <1>18, <1>19, <1>20, <1>21, <1>22, <1>23, <1>24, <1>25
     DEF FirmwareNext, CommandStep

-----------------------------------------------------------------------------
LEMMA Inductive == FirmwareSpec => []IInv
  BY InitIInv, NextIInv, PTL DEF FirmwareSpec

(* Type correctness of the commands over their links.                      *)
THEOREM FirmwareTypeCorrect == FirmwareSpec => []FirmwareTypeOK
<1>1. IInv => FirmwareTypeOK
  BY DEF IInv
<1> QED
  BY <1>1, Inductive, PTL

(* In every link of every command, an autopilot that can be heard in one   *)
(* of the attempts is found, also when the board reboots meanwhile.        *)
THEOREM LinksFindAutopilot == FirmwareSpec => []RetryFindsAutopilot
<1>1. IInv => RetryFindsAutopilot
  BY OpenLinkAssumption
     DEF IInv, Counted, TypeOK, EndedAttemptsDeaf, Deaf, RetryFindsAutopilot
<1> QED
  BY <1>1, Inductive, PTL

(* The autopilot is sent to its bootloader only for a valid image, not in  *)
(* a dry run, and not armed, unless it was armed behind the check or the   *)
(* check has heard nothing.                                                *)
THEOREM RebootIsSafe == FirmwareSpec => RebootOnlyWhenSafe
<1>1. ASSUME IInv, FirmwareNext, device'.rebooting, ~device.rebooting
      PROVE  /\ image.valid /\ ~opts.dry_run
             /\ device.armed => checked \in {"unheard", "armed_since"}
  <2>1. CASE Reboot
    <3>1. image.valid = TRUE /\ opts.dry_run = FALSE /\ checked # "none"
      BY <1>1, <2>1 DEF IInv, Reboot, InBody, Prepared, ArmedCheck, Validated, Confirmed
    <3>2. checked \in {"none", "disarmed", "unheard", "armed_since"}
             /\ (checked = "disarmed" => device.armed = FALSE)
      BY <1>1 DEF IInv, ArmedCheck, FirmwareTypeOK
    <3> QED
      BY <3>1, <3>2
  <2>2. CASE device' = device
    BY <1>1, <2>2
  <2>3. CASE PowerCycle \/ DeviceReboots \/ Arm
    <3>1. device \in Device
      BY <1>1 DEF IInv, FirmwareTypeOK
    <3>2. device'.rebooting = device.rebooting \/ device'.rebooting = FALSE
      <4>1. CASE Arm
        BY <3>1, <4>1 DEF Arm, Device
      <4>2. CASE DeviceReboots
        BY <3>1, <4>2 DEF DeviceReboots, Device
      <4>3. CASE PowerCycle
        BY <4>3 DEF PowerCycle, NewDevice
      <4> QED
        BY <2>3, <4>1, <4>2, <4>3
    <3> QED
      BY <1>1, <3>2
  <2> QED
    BY <1>1, <2>1, <2>2, <2>3
       DEF FirmwareNext, CommandStep, LinkStep, fwVars, world, ReadVersion, VersionRead,
           RemoteChecked, Download, Validate, Snapshot, SnapshotTaken, Confirm,
           CheckNotArmed, NotArmed, RebootSent, WaitForBootloader, Flash, Settled,
           Verify, Verified, Killed, Again, Rest, allVars, Publish, Goes, Ends
<1>2. IInv /\ [FirmwareNext]_allVars =>
        [device'.rebooting /\ ~device.rebooting =>
           /\ image.valid /\ ~opts.dry_run
           /\ device.armed => checked \in {"unheard", "armed_since"}]_allVars
  BY <1>1
<1> QED
  BY <1>2, Inductive, PTL DEF FirmwareSpec, RebootOnlyWhenSafe

(* firmware-update hands the uploader the version it has shown and that    *)
(* was confirmed, or one released meanwhile, and without --force only a    *)
(* newer one than the running.                                             *)
THEOREM UpdateFlashesConfirmed == FirmwareSpec => []FlashesConfirmedOrNewer
<1>1. ASSUME IInv, opts.cmd = "update", step = "flash"
      PROVE  /\ image.version \in latest .. release
             /\ opts.force \/ image.version > running
  <2>1. /\ latest \in 1 .. release
        /\ opts.force = TRUE \/ latest > running
        /\ image.version \in latest .. release
    BY <1>1 DEF IInv, Decided, Holding, Validated, Confirmed
  <2>2. release \in Nat /\ running \in Nat
    BY <1>1, FirmwareAssumption DEF IInv, FirmwareTypeOK, Versions, None
  <2>3. opts.force = TRUE \/ image.version > running
    BY <2>1, <2>2
  <2> QED
    BY <2>1, <2>3
<1>2. IInv => FlashesConfirmedOrNewer
  BY <1>1 DEF FlashesConfirmedOrNewer
<1> QED
  BY <1>2, Inductive, PTL
=============================================================================
