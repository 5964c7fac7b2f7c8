--------------------------- MODULE FirmwareUpdate ---------------------------
(***************************************************************************)
(* mower-jetson pixhawk firmware-check, firmware-update and firmware-flash *)
(* (cli/jetson.py, pixhawk/firmware.py), run one after another by an       *)
(* operator.  Each `with open_link(config)` block of a command is a run of *)
(* OpenLink, whose variables describe the block the command is in.         *)
(*                                                                         *)
(* The autopilot, its bootloader and the firmware server are external.     *)
(* The uploader of the repository is a stub that transfers nothing and     *)
(* reports success: no step of a command changes what the board runs.      *)
(* A version is a number; an image is its version and whether it is valid. *)
(***************************************************************************)
EXTENDS OpenLink, FiniteSets

CONSTANTS
    Options,     \* the command lines an operator may give
    MaxVersion,  \* bound: versions the server may release
    MaxCommands  \* bound: commands given

Commands == {"check", "update", "flash"}

ASSUME FirmwareAssumption ==
    /\ Options \subseteq [cmd : Commands, force : BOOLEAN, offline : BOOLEAN,
                          dry_run : BOOLEAN, yes : BOOLEAN, skip_snapshot : BOOLEAN]
    /\ MaxVersion \in Nat \ {0} /\ MaxCommands \in Nat \ {0}

Versions == 1 .. MaxVersion
None == 0   \* no version: not known
NoImage == [version |-> None, valid |-> FALSE]
Broken == [version |-> 1, valid |-> FALSE]
Images == [version : Versions, valid : {TRUE}] \cup {NoImage, Broken}

(* mode       "app" or "boot" (loader)                                     *)
(* app        the firmware in its flash, which it never loses              *)
(* rebooting  it has accepted the command and will go to the bootloader    *)
Device == [mode : {"app", "boot"}, app : Versions,
           armed : BOOLEAN, rebooting : BOOLEAN]

NewDevice(v) == [mode |-> "app", app |-> v, armed |-> FALSE, rebooting |-> FALSE]

VARIABLES
    opts,      \* the command line
    step,      \* the step of the command
    outcome,   \* how it ended
    running,   \* running_version
    latest,    \* latest_tuple
    image,     \* the file at apj_path
    checked,   \* what the armed check found, and whether that changed since
    device,
    release,   \* the version on the server
    commands   \* commands given so far

linkVars == <<pc, attempt, conn, shutdown, entered, heard, thrown, result, env>>
local == <<running, latest, image>>
world == <<device, release, commands>>
fwVars == <<opts, step, outcome, local, checked, world>>
allVars == <<linkVars, fwVars>>

(* The steps that are a with block.                                        *)
Blocks == {"version", "snapshot", "armed_check", "reboot", "verify"}
Steps == Blocks \cup {"file", "remote", "download", "validate", "confirm",
                      "wait", "flash", "settle", "done"}

(* The file given to firmware-flash may be missing, broken or of any       *)
(* version; the other commands have none.                                  *)
Files(o) == IF o.cmd = "flash" THEN Images ELSE {NoImage}
FirstStep(o) == IF o.cmd = "flash" THEN "file" ELSE "version"

FirmwareInit ==
    /\ Init
    /\ opts \in Options /\ step = FirstStep(opts) /\ image \in Files(opts)
    /\ outcome = "none" /\ running = None /\ latest = None /\ checked = "none"
    /\ \E v \in Versions : device = NewDevice(v)
    /\ release \in Versions
    /\ commands = 1

(* A with block is entered; a board in its bootloader is not heard there.  *)
Enter(mode) ==
    /\ pc' = "top" /\ attempt' = 1 /\ conn' = "none" /\ entered' = 0
    /\ heard' = FALSE /\ thrown' = FALSE /\ result' = "none"
    /\ presentFrom' \in 1 .. RetryAttempts + 1
    /\ aliveFrom' \in (IF mode = "app" THEN 1 ELSE RetryAttempts + 1)
                        .. RetryAttempts + 1
    /\ UNCHANGED shutdown

Goes(s) ==
    /\ step' = s
    /\ IF s \in Blocks THEN Enter(device.mode) ELSE UNCHANGED linkVars
    /\ UNCHANGED <<opts, outcome, world>>

Ends(how) ==
    /\ step' = "done" /\ outcome' = how
    /\ UNCHANGED <<opts, linkVars, world>>

InBody(s) == step = s /\ pc = "body"
BlockLeft(s) == step = s /\ pc = "left"

(* A body that returns, or raises, with nothing but the locals changed.    *)
Returns == BodyEnds /\ result' = "ok" /\ UNCHANGED <<opts, step, outcome>>
Raises == BodyRaises /\ UNCHANGED <<opts, step, outcome>>

(* What the autopilot says can be heard while it runs.                     *)
Spoken(value) == {v \in {value} : device.mode = "app"}

(* The loop of open_link.                                                  *)
LinkStep == step \in Blocks /\ Link /\ UNCHANGED fwVars

-----------------------------------------------------------------------------
(* read_running_version: the reply must be there already, since recv_match *)
(* does not block; every exception becomes None.                           *)
ReadVersion ==
    /\ InBody("version")
    /\ running' \in {None} \cup Spoken(device.app)
    /\ Returns
    /\ UNCHANGED <<latest, image, checked, world>>

(* The version decides in check and update, and is only shown by flash.    *)
VersionRead ==
    /\ BlockLeft("version")
    /\ IF opts.cmd = "flash"
       THEN Goes(IF opts.skip_snapshot THEN "confirm" ELSE "snapshot")
       ELSE IF running = None THEN Ends("error")
       ELSE IF opts.offline
       THEN Ends(IF opts.cmd = "check" THEN "reported" ELSE "error")
       ELSE Goes("remote")
    /\ UNCHANGED <<local, checked>>

(* Mutant of UpToDate: only the very same version counts.                  *)
UpToDateSame(v) == v = running

UpToDate(v) == v <= running

(* check_remote_version, and the comparison.  None is a failed request.    *)
RemoteChecked ==
    /\ step = "remote"
    /\ \E v \in {release, None} :
        /\ latest' = v
        /\ IF opts.cmd = "check" THEN Ends("reported")
           ELSE IF v = None THEN Ends("error")
           ELSE IF ~opts.force /\ UpToDate(v) THEN Ends("skipped")
           ELSE Goes("download")
    /\ UNCHANGED <<running, image, checked>>

(* download_firmware: the file is named by the version that was checked,   *)
(* and holds what the server has now; a broken one is removed again.       *)
Download ==
    /\ step = "download"
    /\ \E ok \in BOOLEAN :
        /\ image' = IF ok THEN [version |-> release, valid |-> TRUE] ELSE NoImage
        /\ IF ok THEN Goes("validate") ELSE Ends("error")
    /\ UNCHANGED <<running, latest, checked>>

(* apj_path.exists() of firmware-flash, and validate_apj.                  *)
Validate ==
    /\ step \in {"file", "validate"}
    /\ IF ~image.valid THEN Ends("error")
       ELSE Goes(IF opts.cmd = "flash" THEN "version" ELSE "snapshot")
    /\ UNCHANGED <<local, checked>>

(* fetch_params and write_json_snapshot: a failure is a warning.           *)
Snapshot ==
    /\ InBody("snapshot")
    /\ Returns \/ Raises
    /\ UNCHANGED <<local, checked, world>>
SnapshotTaken ==
    /\ BlockLeft("snapshot")
    /\ Goes("confirm")
    /\ UNCHANGED <<local, checked>>

(* --dry-run, --yes, _prompt_user                                          *)
Confirm ==
    /\ step = "confirm"
    /\ \E answer \in BOOLEAN :
        IF opts.dry_run THEN Ends("dry_run")
        ELSE IF opts.yes \/ answer THEN Goes("armed_check")
        ELSE Ends("cancelled")
    /\ UNCHANGED <<local, checked>>

(* Mutant of CheckNotArmed: an armed autopilot passes.                     *)
CheckNotArmedNever ==
    /\ InBody("armed_check")
    /\ checked' = "disarmed" /\ Returns
    /\ UNCHANGED <<local, world>>

(* _check_not_armed: without a heartbeat in time it passes.                *)
CheckNotArmed ==
    /\ InBody("armed_check")
    /\ \/ FALSE \in Spoken(device.armed) /\ checked' = "disarmed" /\ Returns
       \/ checked' = "unheard" /\ Returns
       \/ Raises /\ UNCHANGED checked \* armed, or an error of the connection
    /\ UNCHANGED <<local, world>>

NotArmed ==
    /\ BlockLeft("armed_check")
    /\ IF result = "ok" THEN Goes("reboot") ELSE Ends("error")
    /\ UNCHANGED <<local, checked>>

(* reboot_to_bootloader: no acknowledgement is awaited; the command may be *)
(* lost or refused, and it may be obeyed although close() raises.          *)
Reboot ==
    /\ InBody("reboot")
    /\ device' \in {device, [device EXCEPT !.rebooting = @ \/ device.mode = "app"]}
    /\ Returns \/ Raises
    /\ UNCHANGED <<local, checked, release, commands>>

RebootSent ==
    /\ BlockLeft("reboot")
    /\ IF result = "ok" THEN Goes("wait") ELSE Ends("error")
    /\ UNCHANGED <<local, checked>>

(* INSYNC and OK in answer to GET_SYNC                                     *)
BootloaderAnswers == device.mode = "boot"

(* wait_for_bootloader; it may also give up.                               *)
WaitForBootloader ==
    /\ step = "wait"
    /\ \/ BootloaderAnswers /\ Goes("flash")
       \/ Ends("error")
    /\ UNCHANGED <<local, checked>>

-----------------------------------------------------------------------------
(* flash_firmware: the file is loaded again, identify() and upload() of    *)
(* the stub answer as a CubeOrange would, send_reboot() does nothing; then *)
(* the command sleeps until the board should be back.                      *)
Flash ==
    /\ step = "flash"
    /\ Goes("settle") \/ Ends("error")
    /\ UNCHANGED <<local, checked>>

Settled ==
    /\ step = "settle"
    /\ Goes("verify")
    /\ UNCHANGED <<local, checked>>

(* The version the board runs now is read, and reported as the new one;    *)
(* when it is not read, that is a warning beside a success.                *)
Verify ==
    /\ InBody("verify")
    /\ running' \in {None} \cup Spoken(device.app)
    /\ Returns
    /\ UNCHANGED <<latest, image, checked, world>>
Verified ==
    /\ BlockLeft("verify")
    /\ Ends(IF result = "ok" /\ running # None THEN "complete" ELSE "unverified")
    /\ UNCHANGED <<local, checked>>

-----------------------------------------------------------------------------
(* Ctrl-C, a lost SSH session, a power cut of the Jetson.                  *)
Killed ==
    /\ step # "done"
    /\ Ends("killed")
    /\ UNCHANGED <<local, checked>>

(* The operator gives another command.                                     *)
Again ==
    /\ step = "done" /\ commands < MaxCommands
    /\ commands' = commands + 1
    /\ opts' \in Options /\ step' = FirstStep(opts') /\ image' \in Files(opts')
    /\ outcome' = "none" /\ running' = None /\ latest' = None /\ checked' = "none"
    /\ Enter(device.mode)
    /\ UNCHANGED <<device, release>>

Rest == step = "done" /\ commands = MaxCommands /\ UNCHANGED allVars

(* The board goes to its bootloader, also when nobody waits for it any     *)
(* more; from then on it is not heard.                                     *)
DeviceReboots ==
    /\ device.rebooting
    /\ device' = [device EXCEPT !.mode = "boot", !.rebooting = FALSE, !.armed = FALSE]
    /\ aliveFrom' = RetryAttempts + 1
    /\ UNCHANGED <<pc, attempt, conn, shutdown, entered, heard, thrown, result,
                   presentFrom, opts, step, outcome, local, checked, release,
                   commands>>

(* The board is switched off and on, between the links of a command.       *)
PowerCycle ==
    /\ device.mode = "boot" /\ step \notin Blocks
    /\ device' = NewDevice(device.app)
    /\ UNCHANGED <<linkVars, opts, step, outcome, local, checked, release, commands>>

(* The operator at the transmitter.                                        *)
Arm ==
    /\ device.mode = "app"
    /\ device' = [device EXCEPT !.armed = ~@]
    /\ checked' = IF ~device.armed /\ checked = "disarmed" THEN "armed_since"
                  ELSE checked
    /\ UNCHANGED <<linkVars, opts, step, outcome, local, release, commands>>

(* A new version is published.                                             *)
Publish ==
    /\ release < MaxVersion
    /\ release' = release + 1
    /\ UNCHANGED <<linkVars, opts, step, outcome, local, checked, device,
                   commands>>

CommandStep ==
    \/ LinkStep \/ ReadVersion \/ VersionRead \/ RemoteChecked \/ Download
    \/ Validate \/ Snapshot \/ SnapshotTaken \/ Confirm \/ CheckNotArmed
    \/ NotArmed \/ Reboot \/ RebootSent \/ WaitForBootloader \/ Flash
    \/ Settled \/ Verify \/ Verified

FirmwareNext ==
    \/ CommandStep \/ Killed \/ Again \/ Rest
    \/ DeviceReboots \/ PowerCycle \/ Arm \/ Publish

(* Every wait of a command has a time-out, and prompts are answered.       *)
FirmwareSpec ==
    FirmwareInit /\ [][FirmwareNext]_allVars /\ WF_allVars(CommandStep)

-----------------------------------------------------------------------------
FirmwareTypeOK ==
    /\ TypeOK
    /\ opts \in Options /\ step \in Steps /\ commands \in 1 .. MaxCommands
    /\ outcome \in {"none", "error", "reported", "skipped", "dry_run", "cancelled",
                    "complete", "unverified", "killed"}
    /\ {running, latest} \subseteq Versions \cup {None}
    /\ image \in Images
    /\ checked \in {"none", "disarmed", "unheard", "armed_since"}
    /\ device \in Device /\ release \in Versions

(* The autopilot is sent to its bootloader only for a valid image, never   *)
(* in a dry run, and never while it is armed -- unless it was armed after  *)
(* the check, which is made on a link of its own before, or the check had  *)
(* heard no heartbeat and passed.                                          *)
RebootOnlyWhenSafe ==
    [][device'.rebooting /\ ~device.rebooting =>
         /\ image.valid /\ ~opts.dry_run
         /\ device.armed => checked \in {"unheard", "armed_since"}]_allVars

(* The image that firmware-update hands to the uploader is of the version  *)
(* that was checked, shown and confirmed, or of one released meanwhile --  *)
(* the file that is named after the former then holds the latter -- and,   *)
(* without --force, never older than the running one or the same.          *)
FlashesConfirmedOrNewer ==
    opts.cmd = "update" /\ step = "flash" =>
        /\ image.version \in latest .. release
        /\ opts.force \/ image.version > running

(* A command comes to its end, whatever it meets.                          *)
CommandEnds == step # "done" ~> step = "done"
=============================================================================
