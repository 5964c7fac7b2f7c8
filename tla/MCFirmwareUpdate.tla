--------------------------- MODULE MCFirmwareUpdate --------------------------
(* The instance of FirmwareUpdate for TLC: command lines that use each     *)
(* option at least once.                                                   *)
EXTENDS FirmwareUpdate

Line(cmd, flags) ==
    [cmd |-> cmd, force |-> "force" \in flags, offline |-> "offline" \in flags,
     dry_run |-> "dry_run" \in flags, yes |-> "yes" \in flags,
     skip_snapshot |-> "skip" \in flags]

CommandLines ==
    {Line("check", {}), Line("check", {"offline"}),
     Line("update", {}), Line("update", {"force", "yes"}), Line("update", {"dry_run"}),
     Line("update", {"offline"}), Line("flash", {"yes"}), Line("flash", {"skip"})}
=============================================================================
