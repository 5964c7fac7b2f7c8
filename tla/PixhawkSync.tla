----------------------------- MODULE PixhawkSync -----------------------------
(***************************************************************************)
(* `mower-jetson pixhawk sync` (cli/jetson.py, sync_pixhawk): the          *)
(* parameters first (module ParamSync), then the source-switching script,  *)
(* copied to the SD card of the autopilot over MAVLink FTP                 *)
(* (vslam/lua_deploy.py).  It is run at boot by a oneshot unit that        *)
(* systemd restarts on failure (pixhawk/unit.py).  A failed operation and  *)
(* a kill count as losses.                                                 *)
(***************************************************************************)
EXTENDS ParamSync

CONSTANT MaxBoots \* bound: boots of the Jetson

ASSUME BootsAssumption == MaxBoots \in Nat

VARIABLES
    unit,      \* the place in the command, "waiting" for RestartSec, "exited" with 0
    card,      \* the script on the card: "missing", "old", "empty", "cut", "whole"
    swallowed, \* an FTP failure of this run was only logged
    boots

paramVars == vars
luaVars == <<card, swallowed, boots>>
syncVars == <<paramVars, unit, luaVars>>

Commands == {"connect", "params", "mkdir", "list", "read", "create", "head", "tail",
             "readback"}

SyncInit ==
    /\ Init
    /\ unit = "connect" /\ card \in {"missing", "old", "whole"}
    /\ swallowed = FALSE /\ boots = 0

(* _extract_version: the second line; a file that was cut off has it, an   *)
(* empty one does not.                                                     *)
Version(c) ==
    CASE c \in {"whole", "cut"} -> "bundled"
      [] c = "old" -> "older"
      [] OTHER -> "none"

Works == UNCHANGED losses
Fails == Lose
params == <<fc, stream, rx, pc, collected, apply, result>>

(* The exit code of the command: check_and_deploy_lua swallows everything, *)
(* so only the parameters can make it fail.                                *)
Exit == unit' = IF result = "errors" THEN "waiting" ELSE "exited"

-----------------------------------------------------------------------------
Connect ==
    /\ unit = "connect"
    /\ \/ Works /\ unit' = "params"
       \/ Fails /\ unit' = "waiting"
    /\ UNCHANGED <<params, luaVars>>

(* sync_params, one step of module ParamSync.                              *)
Params ==
    /\ unit = "params"
    /\ \/ Client \/ Raises
    /\ unit' = IF pc' = "done" THEN "mkdir" ELSE unit
    /\ UNCHANGED luaVars

(* The autopilot goes on reporting, whatever the command does.             *)
LateReport == Report /\ UNCHANGED <<unit, luaVars>>

Mkdir ==
    /\ unit = "mkdir" /\ unit' = "list"
    /\ Works \/ Fails
    /\ UNCHANGED <<params, luaVars>>

List ==
    /\ unit = "list"
    /\ \/ Works /\ unit' = (IF card = "missing" THEN "create" ELSE "read")
          /\ UNCHANGED swallowed
       \/ Fails /\ Exit /\ swallowed' = TRUE
    /\ UNCHANGED <<params, card, boots>>

(* Mutant of Read: a version that cannot be read counts as current.        *)
ReadTrusting ==
    /\ unit = "read"
    /\ \/ /\ Works
          /\ IF Version(card) = "bundled" THEN Exit ELSE unit' = "create"
       \/ Fails /\ Exit
    /\ UNCHANGED <<params, card, swallowed, boots>>

Read ==
    /\ unit = "read"
    /\ \/ /\ Works
          /\ IF Version(card) = "bundled" THEN Exit ELSE unit' = "create"
       \/ Fails /\ unit' = "create"
    /\ UNCHANGED <<params, card, swallowed, boots>>

(* write_file: the file is created empty, then written block by block; the *)
(* answer may be lost after the autopilot has done its part.               *)
Write(place, becomes, next) ==
    /\ unit = place
    /\ \/ Works /\ card' = becomes /\ unit' = next /\ UNCHANGED swallowed
       \/ Fails /\ Exit /\ swallowed' = TRUE /\ card' \in {card, becomes}
    /\ UNCHANGED <<params, boots>>

WriteFile ==
    \/ Write("create", "empty", "head")
    \/ Write("head", "cut", "tail")
    \/ Write("tail", "whole", "readback")

(* A mismatch, and a failed read-back, are logged.                         *)
Readback ==
    /\ unit = "readback" /\ Exit
    /\ Works \/ Fails
    /\ UNCHANGED <<params, luaVars>>

-----------------------------------------------------------------------------
(* TimeoutStartSec, or a power cut.                                        *)
Killed ==
    /\ unit \in Commands /\ Lose
    /\ unit' = "waiting"
    /\ UNCHANGED <<params, luaVars>>

(* A new process: its variables, and its connection, are fresh.            *)
Process ==
    /\ unit' = "connect" /\ swallowed' = FALSE
    /\ pc' = "request" /\ rx' = <<>>
    /\ collected' = [p \in Profile |-> "none"]
    /\ todo' = {} /\ applied' = {} /\ failures' = {} /\ attempt' = 0
    /\ result' = "none"
    /\ UNCHANGED <<stream, name, card, losses>>

(* Restart=on-failure                                                      *)
Restart == unit = "waiting" /\ Process /\ UNCHANGED <<fc, boots>>

(* The rover is switched on again; parameters may have been changed since. *)
Boot ==
    /\ unit \in {"exited", "waiting"} /\ boots < MaxBoots
    /\ boots' = boots + 1
    /\ Process
    /\ \E drift \in SUBSET (OnFirmware \ ReadOnly) :
          fc' = [p \in Profile |-> IF p \in drift THEN "old" ELSE fc[p]]

Rests == unit = "exited" /\ UNCHANGED syncVars

Command == Connect \/ Params \/ Mkdir \/ List \/ Read \/ WriteFile \/ Readback
SyncNext == Command \/ LateReport \/ Killed \/ Restart \/ Boot \/ Rests

(* Every exchange has a time-out, systemd restarts the unit, and the       *)
(* autopilot reports what it was asked for.                                *)
SyncSpec ==
    /\ SyncInit /\ [][SyncNext]_syncVars
    /\ WF_syncVars(Command) /\ WF_syncVars(Restart) /\ WF_syncVars(LateReport)

-----------------------------------------------------------------------------
SyncTypeOK ==
    /\ TypeOK
    /\ unit \in Commands \cup {"waiting", "exited"}
    /\ card \in {"missing", "old", "empty", "cut", "whole"}
    /\ swallowed \in BOOLEAN
    /\ boots \in 0 .. MaxBoots

(* The service comes to rest, whatever is lost and wherever it is killed:  *)
(* "pixhawk-sync's `Restart=on-failure` (it will retry)"                   *)
(* (docs/plans/027-remaining-jetson-instabilities-fixes.md:80).  Only a    *)
(* drifted parameter the autopilot refuses keeps it retrying for ever.     *)
SyncSettles ==
    <>[](unit = "exited") \/ <>[](\E p \in ReadOnly : fc[p] = "old")

(* A run that exits with success has left the bundled script on the card,  *)
(* but for two cases: an FTP failure was swallowed in this very run, or a  *)
(* write was cut off behind the version, which then passes for current.    *)
ExitedMeansDeployed ==
    unit = "exited" => card = "whole" \/ card = "cut" \/ swallowed
=============================================================================
