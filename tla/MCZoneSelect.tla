---------------------------- MODULE MCZoneSelect -----------------------------
(* Small instances of ZoneSelect for TLC.                                  *)
EXTENDS ZoneSelect

MCItemCount ==
    [z \in Zones |-> [t \in MissionTypes |->
        CASE t = "MISSION" -> IF z = OldZone THEN 2 ELSE 3
          [] t = "FENCE" -> 2
          [] t = "RALLY" -> 1]]

MCInPlace == {"MISSION"}

(* Every command line that differs in what it does.                        *)
MCOptions ==
    { [dry_run |-> FALSE, assume_yes |-> FALSE, skip_slam |-> FALSE],
      [dry_run |-> FALSE, assume_yes |-> TRUE,  skip_slam |-> TRUE],
      [dry_run |-> TRUE,  assume_yes |-> FALSE, skip_slam |-> FALSE] }

OneOption ==
    { [dry_run |-> FALSE, assume_yes |-> TRUE, skip_slam |-> TRUE] }
=============================================================================
