# Formal model of the zero-turn mower rover software

TLA+ specifications of the control logic of `mower_rover`: the laptop program
(`mower`), the Jetson program (`mower-jetson`), the SLAM node in C++ and the Lua
script that runs on the flight controller. Every module is translated from the
source. TLC checks small instances, and TLAPS proves the central results for
every value of the constants. Paths below are relative to the repository;
Python sources are in `src/mower_rover/`.

## 1. The system

A laptop plans mowing zones, provisions the Jetson over SSH and talks to a
Pixhawk (ArduPilot) over MAVLink, by a radio or USB. The Jetson runs visual SLAM
and feeds poses to the Pixhawk through a bridge; a Lua script on the Pixhawk
chooses between GPS and SLAM as the source of the position.

| Component | State | Operations | Talks to | What makes it correct |
|---|---|---|---|---|
| Mission protocol (`mavlink/mission.py`) | stage of the transfer, items sent or collected, deadline | `upload_mission`, `download_mission`, `clear_mission`, `verify_round_trip` | flight controller, lossy link | a call that returns means what it says about the stored items |
| Zone selection (`cli/zone_laptop.py`) | place in the command, verified and cleared types | confirm, armed check, activate, 3 uploads, 3 verifications, clear | mission protocol, Jetson by SSH | "selected" means stored; a failure leaves no mixture of zones |
| Zone activation (`cli/jetson.py` `zone activate`) | VSLAM configuration, running map, progress of the remote command | save, restart two services | systemd, laptop by SSH | "selected" means the map is the new zone's; a laptop that gives up touches no store |
| SLAM node (`contrib/rtabmap_slam_node`) | odometry, reset counter, client socket | pose loop, accept, reset odometry, watchdog | Unix socket, systemd | counter tells frames apart; sends only to a live client |
| VSLAM bridge (`vslam/ipc.py`, `vslam/bridge.py`) | socket, last pose, counters | connect, read, forward, heartbeat | SLAM node, MAVLink | forwards what it reads, flags discontinuities, ends when told |
| VSLAM units (`service/unit.py`) | systemd's timers and start counts | watchdog, restart, start limit | both processes | a service is killed only for silence, and comes back |
| Source switching (`params/data/*.lua`) | vote counter, current source | `update()` at 10 Hz | EKF | lost GPS is left in time; a bad source is not entered |
| Bringup (`cli/bringup.py`) | the Jetson's disk, the local archive | 25 steps with check and execute, options | SSH, `scripts/jetson-harden.sh` | "complete" is true; repeating it converges, as far as the steps bring what is needed |
| Database check (`_run_db_check`) | map databases | examine, quarantine | SSH, SLAM service | corrupt maps are moved, healthy ones are not |
| Connection (`mavlink/connection.py`) | attempt, connection | open, heartbeat, backoff, body of the `with` | endpoint, shutdown event | retries find the autopilot; shutdown stops them |
| Pixhawk sync (`pixhawk/sync.py`, `params/`, `vslam/lua_deploy.py`) | parameters, script on the SD card | fetch, diff, set, echo; FTP list, read, write | autopilot, systemd unit | no drift and no old script behind a success |
| Firmware update (`pixhawk/firmware.py`, `cli/jetson.py`) | cached image, snapshot, autopilot or bootloader | download, validate, snapshot, armed check, bootloader, flash, verify | firmware server, bootloader | the autopilot is taken down only with a valid image, and what is handed to the uploader was confirmed |
| Kiosk data service (`kiosk/`) | last heartbeat, connection, watchdog | reader thread, snapshot, accept, send | MAVLink, renderer, systemd | a blackout is left, a quiet start is not; a hung renderer does not block it |
| Kiosk renderer (`contrib/lvgl_kiosk`) | socket, buffer, back-off, overlay, staleness | poll, connect, receive, staleness check | data service, systemd | old data is marked; data is visible again after a restart |
| Probes (`probe/`) | registry, results; a client of the pose socket | run in dependency order, skip | everything, the bringup | a check runs only after what it depends on; probing disturbs nothing |
| Health daemon and readers (`service/daemon.py`, `health/`) | loop, last readings | read, notify, stop | sysfs, systemd | notifies while alive, ends when told |
| Zone planner (`zone/`) | polygons, items | validate, generate items | geometry | items and sequence numbers well-formed |
| Setup wizard, safety confirmation, config, logging, CLIs | files, prompts | sequential | operator | little state; nothing concurrent |

Hard behaviours: a radio link that loses, delays and repeats messages under
protocols with re-sent requests; deadlines that race late answers; two processes
and systemd restarting each other's peers; remote commands that time out with or
without effect; steps that fail half-way and are then judged by a partial check;
arguments of remote commands that do not arrive as they were given;
exceptions swallowed below a retrying supervisor; a watchdog that is fed although the
thread it should guard is dead; what was checked on one connection and is acted on over
another. `PROJECT.json` lists these
under `hazards`, each at its line, with the properties that would catch it.

## 2. The modules

| Module | Models | Uses |
|---|---|---|
| `MissionProtocol` | the three calls, the flight controller and the link, message by message | |
| `ZoneTransaction` | what `zone select` promises: a transaction on three stores and a map | |
| `ZoneSelect` (`MCZoneSelect`) | the `zone select` command over that protocol, with `zone activate` on the Jetson; shown to implement `ZoneTransaction` | `MissionProtocol`, `ZoneTransaction` |
| `ZoneSelectProofs` | theorems | `ZoneSelect` |
| `VslamPipeline` | SLAM node, Unix socket with its file and accept queue, bridge, probe, crashes and restarts | |
| `VslamServices` (`MCVslamServices`) | the two services' watchdogs under systemd, on a clock | |
| `VslamProofs` | theorems of both | `VslamPipeline`, `VslamServices` |
| `AhrsSource`, `AhrsSourceProofs` | the Lua script; theorems | |
| `ProbeRegistry` | the critical checks with their dependencies, `run_checks`, and what blocks a step | |
| `BringupSteps` | the step table as data: commands, facts, handling of failures | `ProbeRegistry` |
| `Bringup` (`MCBringup`) | `bringup_command` over that table, invoked repeatedly | `BringupSteps` |
| `BringupProofs` | theorems | `Bringup` |
| `DbCheck` | the step `vslam-db-check`, command by command, with what arrives of each | |
| `OpenLink` | `open_link` and the body it serves | |
| `FirmwareUpdate` (`MCFirmwareUpdate`) | `firmware-check`, `-update` and `-flash`, one after another, every `with open_link` block a run of `OpenLink` | `OpenLink` |
| `FirmwareUpdateProofs` | theorems of `open_link` and, on them, of the commands | `FirmwareUpdate` |
| `ParamSync` | `sync_params`, `fetch_params`, `apply_params` | |
| `PixhawkSync` | the `mower-pixhawk-sync` unit: the command, the parameters, the script deployment, restarts and boots | `ParamSync` |
| `PixhawkSyncProofs` | theorems of one sync and, on them, of the unit | `PixhawkSync` |
| `Kiosk`, `KioskProofs` | the data service and the renderer, each under its watchdog, and the socket between them, on a clock; theorems | |

### How state and actions correspond to the code

**MissionProtocol.** `call` and its companions are the program counter and the
local variables of the three functions; `toFC` and `toGCS` are the link;
`store` is what the flight controller holds for each mission type, and `fc` its
transfer. One action per receive-loop iteration (`recv_match` returned a message
of the type the loop waits for, or of another type and was dropped), one for the
deadline. A mission item is its zone, its sequence number its position. The
flight controller is external: it asks for items in order, repeats a request,
accepts an item only for the number it asked for, replaces the fence and the
rally points at the end of the transfer and the mission in place (`InPlace`).

**ZoneSelect.** `pc` is the place in `select_zone` / `_upload_zone_atomically`
between calls; the three uploads, three verifications and three clears happen in
the source's order, `outcome` is what the command prints or its exit. The
verification's exception is caught and reported, as in the source, if it is a
`MissionDownloadError`; any other (`VerifyRaised`) leads to the clears. Behind the last
read-back the snapshot is written, or the command ends with its `OSError` ("snapshot_failed"). `armed`
changes at any time when `MayArm`. `jetson` holds the saved configuration, the map the
SLAM node runs with and the place in `zone_activate_command`: the laptop starts it
(`ActivateZoneOnJetson`) and waits (`ActivateReturned`); after a time-out of SSH the remote
command goes on by itself, at any speed, and systemd may start a stopped SLAM node
(`SlamRestarts`).

**ZoneTransaction.** `held[t]` is what a store contains ("old", "new", "partial", "empty"),
`slam` the map, `stage` the end of the command; "unreported" is an error behind a commit. Messages, transfers and time-outs are gone.
The refinement mapping is `Held`, `Slam` and `Stage` of `ZoneSelect`; a mission of one item
counts as empty, as in `clear_mission`.

**VslamPipeline.** A pose is the frame it is expressed in (start of the SLAM node,
odometry reset) with the byte of its reset counter. The socket
has a file (`path`), which systemd removes with `/run/mower` when the kiosk's service ends
(`KioskServiceEnds`; `ReaderRefused` is the reader's failing `connect`), a bounded buffer, end of file, and the kernel's accept queue, in which a dead
connection may wait before a live one. `CounterSize` scales the 256 values of
the counter; the bridge's own counter is incremented without a bound and must
be packed in a byte, so `CounterOverflow` is an action (`struct.error` ends the
bridge). `ProbeConnect` and `ProbeTimeout` are the check `vslam_socket_active`, a
second client of a server that serves one at a time. `LinkUp` needs a heartbeat only: `open_link`
yields whatever the shutdown event says by then. `sentFrames` is a history variable, what
the flight controller got under each counter over all runs of the bridge (`run`), which
starts its counter at 0 each time.

**VslamServices.** `Tick` advances one second for tracking, both processes and
systemd: notification ages, watchdog kills, the wait of `RestartSec`, the start
counter over `Interval`. Both services notify only from pose-handling code. `trouble` is lost
odometry, a missing camera, with which a start of the SLAM node fails, or a missing autopilot,
with which one of the bridge does (`FailsStart`); a failed start counts towards the limit, and
one of the SLAM node cancels that of the bridge queued behind it (`Cancelled`, "inactive").

**AhrsSource.** `Update(gps_bad, extnav_bad)` is one call of `update()`; `lost`
counts calls for the properties.

**BringupSteps / Bringup.** A remote command is a record: the facts it needs, the
facts it establishes, and what the code does when it is not possible, is lost
(`SshError`, with or without effect), or exits non-zero. The hardening script is five
such commands, one for each group of sections that a check or a later step tells apart. A step is its check (a
set of facts) and its sequence of commands. What ssh makes of the arguments is in the table:
`install-build-deps` runs its `apt-get install` without root and fails, and the `sed` of
`vslam-config` does nothing. So the packages come by hand, as the camera does (`Manual`,
`ByHand`, `Brings`); without the camera the SLAM node never becomes active. An archive holds
libraries and no headers, which are facts of their own (`Headers`), and a clone that is cut
off leaves a half that no later build can use (`Leaves`, `Doable`). `Bringup` interprets the table as
`bringup_command` does: `--step`, `--from-step`, `--continue-on-error`,
`--parallel-builds`, confirmation, gates, and the operator who repeats it.
The
two probes are facts that are observed rather than established: `Observed` adds "verified"
and "infra_verified" when `run_checks` blocks nothing outside the list the step exempts.
`ParallelBuilds` has threads that fail, succeed, or end by an exception nobody records
(`silent`). `Reflash` empties the Jetson and keeps the archive on the laptop; `hit` says that
something went wrong, or was declined, in the present invocation.

**DbCheck.** One action per remote command: resolving the configured path, test,
stat, `PRAGMA integrity_check`, mv, find. A command is the sequence of its arguments and an
argument the sequence of its words; `Arrives` is what ssh and the remote shell make of it.
`hit` records the databases a command about which was lost.

**OpenLink.** `top`, `open`, `heartbeat`, `body`, `caught`, `backoff`, `left` are
the places of the loop; an exception thrown in the body returns into the loop's
`except`, and the second yield is the `RuntimeError` of `contextlib`.
`presentFrom` and `aliveFrom` say from which attempt on the endpoint can be
opened and the autopilot be heard.

**ParamSync.** `rx` holds the PARAM_VALUE messages on their way, of the list and
of echoes alike; every wait may time out at any moment, `Raises` is an exception
of the connection. Values are "old" or the desired "new"; `param_count` is the
number of parameters the autopilot has.

**PixhawkSync.** `unit` is the place in the command, or the state of the systemd
unit; each step of `ParamSync` is a step of the command at the place `params`. The
script on the card is missing, old, empty, cut (its header is complete) or whole;
`Version` is what `_extract_version` finds. A failing operation is an `OSError`,
before or after the autopilot has done its part; `Killed` is systemd's
`TimeoutStartSec` or a power cut; after `Boot` parameters may have drifted again.

**FirmwareUpdate.** `step` is the place in the command; while it is inside a `with` block the
variables of `OpenLink` are the block's own, so a body that raises is retried as in the
source. `device` is the board: firmware or bootloader, what is in its flash, armed, and
`rebooting`, a reboot command that it has taken and not yet carried out. `checked` is what
the armed check has found, and whether it still is so; `release` is what the server offers
now, `latest` what the command was told. The uploader of the repository is a stub: `Flash`
succeeds or raises and leaves the board as it was, in its bootloader until a `PowerCycle`, and
`Verified` reports the version it reads as the new one. A process may be `Killed` at each step.

**Kiosk.** `svc` is the data service (its unit, the place in the main loop, the MAVLink thread,
age of the last heartbeat, silence towards systemd), `rend` and `screen` the renderer;
`client`, `queue`, `stream`, `got` and `sock` are the two ends of the connection. A frame is its
age, so that freshness can be told. `Tick` comes when neither process has anything left to do
in its second. The faults are crashes of both, a hung event loop, a dead reader thread, a
`systemctl restart`, and the removal of `/run/mower` by the end of the SLAM service.

## 3. The runs

Passing runs (expected: no error):

| Run | Shows | Bounds |
|---|---|---|
| `zone_select_lossy` | over a lossy link "selected" means all three types are stored (`SelectedMeansStored`), a mission beside another zone's fence remains only after a failed clear (`MismatchOnlyAfterFailedClear`), the command ends (`SelectTerminates`), and it implements `ZoneTransaction` (`ImplementsTransaction`), the map of the SLAM node included | 2–3 items a type, 3 messages a direction, three command lines, a snapshot that fails |
| `zone_select_duplicates` | with duplicated messages too, a clear and a verification that returned tell the truth (`ClearedMeansEmpty`, `VerifiedMeansStored`) | 2 messages a direction |
| `vslam_restarts` | connections, counters and speeds agree through crashes of both sides, a probe on the socket, a removed socket file and the overflow of the counter (`OneLiveConnection`, `SpeedAcrossResetIsFlagged`); the flight controller has two near frames under one counter only from two runs of the bridge (`SameCounterSameFrame`); poses keep flowing (`PosesFlow`); the bridge ends when told (`StopEndsBridge`) | 3 counter values, 3 resets, 1 crash each, 1 probe, 1 stop |
| `vslam_watchdog` | no watchdog kill without a gap in the poses (`KilledOnlyAfterGap`); when odometry, camera and autopilot are back both services run again unless a start limit was used up or a start cancelled (`HealsWithinLimit`) | times scaled down, in the order they have in the units |
| `ahrs_votes` | GPS lost for 4 s is left (`LostGpsIsLeft`); VSLAM is entered only when good (`EntersVslamOnGoodExtnav`) | the real threshold, 20 |
| `bringup_complete` | "Bringup complete!" is true after any two faults of any commands, as the steps' checks and the critical checks of the probe see it (`CompleteIsSatisfied`), and an undisturbed bringup succeeds whatever they left, except in five named states (`CleanRunCompletes`) | all 25 steps, 4 command lines, 2 faults, 1 re-flash |
| `pixhawk_sync` | applied means stored (`AppliedWasStored`); success means no drift that was seen (`OkMeansSeenAreNew`) and, with two named exceptions, the bundled script on the card (`ExitedMeansDeployed`); the service comes to rest (`SyncSettles`) | 3 parameters (1 read-only), 2 attempts, 2 losses, failures or kills, 2 boots |
| `kiosk` | lost telemetry is left by a restart and only that (`BlackoutIsLeft`, `KilledOnlyInBlackout`), a hung renderer never blocks the service (`NeverBlocked`), old data is marked (`OldIsMarked`), frames and telemetry come back, with named exceptions (`FramesFlow`, `TelemetryHeals`) | 2 faults of 6 kinds, times and sizes scaled down in their order |
| `firmware` | the board is rebooted only with a valid image and, with two named exceptions, disarmed (`RebootOnlyWhenSafe`); what goes to the uploader is what was confirmed or newer (`FlashesConfirmedOrNewer`); retries find the autopilot (`RetryFindsAutopilot`); a command ends (`CommandEnds`) | 2 commands of all kinds, 2 versions, 2 attempts a link, kills anywhere |

Runs that show a disagreement between the code and what its documents, comments
or messages say (expected: a violation; quoted under `findings`):

| Run | Disagreement |
|---|---|
| `zone_select_stray_ack` | a duplicated MISSION_ACK of one upload ends the next one early: "selected" without the items |
| `db_unquoted` | no command is lost, and a corrupt database is still in place after the check: the `mv` arrives without its arguments. Moreover `sqlite3` gets only the word `PRAGMA`, so a healthy database is judged corrupt, and the script that reads the configured path is a syntax error of the remote shell (`transport/ssh.py:112`) |
| `kiosk_overlay` | after a restart of the data service the renderer draws the frames under "CONNECTING..." for ever |

### Divergences met on the way

These have no run of their own. Where they touch a property, it names them as an
exception, so it says exactly what holds.

| Where | The code | Property with the exception |
|---|---|---|
| `cli/zone_laptop.py:84` | a failed round-trip verification is reported as success | `VerifiedMeansStored` speaks of verified types only |
| `cli/zone_laptop.py:89` | the clean-up stops at the first clear that raises | `MismatchOnlyAfterFailedClear` |
| `cli/zone_laptop.py:58` | the armed check passes without a heartbeat, or on another component's | |
| `vslam/bridge.py:211` | a restarted bridge begins at counter 0, whatever the flight controller had before, so an odometry reset across the restart does not show | `SameCounterSameFrame` (`p.run # q.run`) |
| `vslam/bridge.py:221` | a restarted SLAM node begins at counter 0 in a new frame, which may be the old value | `SameCounterSameFrame` compares poses of one life of the SLAM node (`Near`) |
| `cli/zone_laptop.py:285` | a snapshot that cannot be written ends a selection that is complete with an error | `ImplementsTransaction` ("unreported") |
| `vslam/bridge.py:217` | the stop event is looked at only after a pose | `StopEndsBridge` is checked while odometry tracks |
| `ahrs-source-gps-vslam.lua:40` | two switches may be nearer than the "stabilization window" | |
| `cli/bringup.py:551`, `transport/ssh.py:112` | `sudo bash -c "apt-get update && apt-get install ..."` arrives unquoted: the install has no root, so a fresh bringup ends at `install-build-deps` unless the packages were installed by hand ("Installing C++ build toolchain + libraries") | `CleanRunCompletes` (`Unprepared`) |
| `cli/bringup.py:1365`, `transport/ssh.py:112` | the `sed` that switches the configuration to the `_test` zone is split at its bars by the remote shell and changes nothing | |
| `cli/bringup.py:908` | the archive has libraries and no headers or cmake files: restored before the SLAM node was built, they satisfy the builds' checks and the node cannot be built | `CleanRunCompletes` (`HeadersMissing`) |
| `cli/bringup.py:709` | a recursive clone that was cut off is taken for complete | `CleanRunCompletes` (`CloneCut`) |
| `cli/bringup.py:930` | a truncated archive is kept and makes later restores fail | `CleanRunCompletes` (`ArchiveCut`) |
| `cli/bringup.py:314` | the check of `harden-os` sees the first sections only, so a script cut off behind them is never run again and later steps fail ("idempotent and can be selectively re-run", `docs/plans/005-automated-jetson-bringup-ssh.md:144`); cut off before the display sections, a bringup completes without display and kiosk | `CleanRunCompletes` (`HardenCut`) |
| `cli/bringup.py:950` | `install-uv` is skipped with its second command never run; Python 3.11 then comes with `install-cli` | |
| `cli/bringup.py:122` | `health_service` and `vslam_params` are exempt from the last verification as "hardware-dependent" though they need no camera; and a skipped check never counts | `CompleteIsSatisfied` speaks of the others |
| `cli/bringup.py:745` | the version marker of the SLAM node is its own: after RTAB-Map is rebuilt the node stays linked to the old one | |
| `cli/bringup.py:581`, `transport/ssh.py:181` | a build that is given up goes on remotely beside the next one; a silent streaming command is never timed out | |
| `probe/checks/__init__.py` | the pre-flight zone checks are in no list and never registered, though planned as such (`docs/plans/013-multi-zone-lawn-management.md:457`) | |
| `probe/checks/vslam.py:93` | the SLAM node serves one client, so this critical check times out whenever the bridge is connected, that is, on a healthy pipeline | `PosesFlow` shows that it does no harm |
| `service/unit.py:560` | `mower-kiosk-data` and `mower-vslam` both own `RuntimeDirectory=mower`; the end of one removes the socket file of the other | `FramesFlow`, `PosesFlow` |
| `service/unit.py:415`, `rtabmap_slam_node.cpp:740` | notifications stop with tracking, so a long loss uses up the start limit, and a start of the SLAM node that fails cancels the bridge's: tracking returns, the services do not ("Self-healing when SLAM recovers", `docs/research/008-jetson-mavlink-vision-integration-deploy.md`) | `HealsWithinLimit` |
| `kiosk/app.py:70` | a reader that dies before its first heartbeat is never replaced: the time stays 0.0, which feeds the watchdog | `TelemetryHeals` |
| `cli/jetson.py:1457` | the armed check is made on a link of its own, before the one that reboots, and passes when it hears nothing | `RebootOnlyWhenSafe` |
| `pixhawk/firmware.py:302` | the image is fetched by a URL without a version: a release after the check goes to the uploader under the older name | `FlashesConfirmedOrNewer` |
| `pixhawk/_uploader.py:121`, `cli/jetson.py:1523` | the uploader is a stub that transfers nothing; success is reported beside a board in its bootloader, or with the old version as the new one, as the version read back is not compared with the image's | |
| `cli/jetson.py:1668` | a board left in its bootloader sends no heartbeat, and both commands need one ("always re-flashable", `docs/plans/018-jetson-pixhawk-firmware-update.md:107`) | |
| `cli/zone_laptop.py:148` | when SSH is given up the map of the SLAM node may still change, under a command that reported a failure | `Activate` of `ZoneTransaction` |
| `cli/bringup.py:2557` | `--parallel-builds` ignores `--from-step` | |
| `cli/bringup.py:1664` | an empty answer of ssh passes for two active services | |
| `cli/bringup.py:2179` | the final verification may run before the reboot happens | |
| `cli/bringup.py:1432` | a lost `stat` or `PRAGMA` is taken for a corrupt database; only the broken `mv` keeps it in place | |
| `mavlink/connection.py:69` | an unheard attempt leaves the port open, so each retry fails on a COM port | `RetryFindsAutopilot` |
| `mavlink/connection.py:84` | an exception of the body is retried and reported as a failed connection | |
| `pixhawk/sync.py:123` | a lost PARAM_VALUE leaves a drifted parameter behind a success | `OkMeansSeenAreNew` speaks of parameters that were seen |
| `vslam/lua_deploy.py:174` | a failed listing or write is only logged, so the unit is not restarted | `ExitedMeansDeployed` (`swallowed`) |
| `vslam/lua_deploy.py:185` | a write cut off behind the header passes for the current script | `ExitedMeansDeployed` (`"cut"`) |

Each property of a passing run has a mutant: a variant of one definition, as a
plausible defect of the code would change it, under which TLC finds the property
violated. The mutants are defined next to what they mutate and used nowhere.

### Why the bounds are enough

The zone runs need two items in a transfer (an early ACK, a repeated request), two
zones and, for a stray message of one call inside the next, room for two messages
in a direction. The number of items, the capacity and the order of losses are
unbounded in the proofs. The pipeline needs two lives of each process and a counter
small enough to overflow: with three values, the third reset does it. One probe and one
connection of a bridge that has crashed fill the accept queue with dead connections. `ahrs_votes`
uses the source's own threshold. In the bringup a fault matters through the facts
it leaves behind, a second fault lets a repetition meet another, and a re-flash
separates what is kept on the laptop from what is lost; the step table is complete. Faults hit
every step but eight, which leave nothing or nothing that anything but themselves looks at
(`Fallible`). Packages and
camera are brought together (`Brings`), so that TLC does not see the one without the other;
the theorems do. Each of the five states was found necessary: without it TLC has a counterexample.
`ParamSync` needs one parameter that is drifted, one that is refused, a late report
and a late echo, and its safety is proved without bounds; `PixhawkSync` needs a fault
in one run and another in the repetition. The kiosk needs a fault and another in the recovery
from it; a receive buffer that is no multiple of the frame, so that frames are cut; and a
socket that holds the frames of a watchdog time for each hang, as the real one does (an assumption of the
module). The firmware commands come in pairs because the second meets what the first, killed
or failed, has left.

Deadlines are abstracted to actions that may fire at any time inside the wait they
end, with the exception of `VslamServices` and `Kiosk`, where the order of the times is the
question. Deadlock is checked in every run; a command that has ended stutters
explicitly.

### Fairness

Liveness is checked under weak fairness only: of the program's own steps (each
receive has a time-out, so the program is never blocked for good), of the process
starts by systemd's `Restart=`, of the clock, and in `Kiosk` of the reader that takes a heartbeat which is there. `Bringup` and `DbCheck`
have no liveness property and no fairness. Nothing is assumed of the radio link, of the remote
activation, or of the bootloader. `PosesFlow` and
`StopEndsBridge` assume that odometry keeps producing poses (`TrackingSpec`),
`HealsWithinLimit` that camera, odometry and autopilot come back, and `SyncSettles` that the autopilot goes on
with the reports it was asked for and that losses and kills end (`MaxLosses`); a
drifted parameter the autopilot refuses for ever keeps the unit retrying, and the
property says so.

## 4. What is proved

Every invariant and every action property of the passing runs is a theorem, and so is the
refinement. No proof bounds the link, the number of items,
parameters, attempts, losses, faults, commands or crashes, or fixes a time.

- **`ZoneSelectProofs`**, over every link, one that duplicates included: `TypeCorrect`;
  `ClearedIsEmpty` and `VerifiedIsStored`, a clear and a verification that returned tell the
  truth. Their invariant (`ReadInv`) is about order on the link: a MISSION_REQUEST_LIST
  travels behind everything that could still write to a store, so once it is answered nothing
  in flight does (`Settled`), the answers counted since are about what is stored (`ReadsAreTrue`,
  `CountsBound`), and stores only shrink while clearing and stay while verifying (`Phases`).
  Over a link that loses but does not duplicate (`LinkDuplicates = FALSE` is the theorems'
  assumption, without which `zone_select_stray_ack` refutes the first):
  - `SelectedIsStored`: "selected successfully" means the three types are stored.
    `SelectedMeansStored` is not inductive: at the moment of the ACK it must be known that this
    ACK belongs to this transfer. The invariant says that the link is quiet before an upload
    begins (`QuietBeforeUpload`), that during an upload exactly one token -- a request, an
    item, or the ACK -- is what the outcome depends on (`UploadInv`, `OneToken`), that only
    items of the new zone are on their way (`OnlyNewZone`), that finished types stay stored
    (`DoneInv`, `EndInv`) and that there is no outcome before the end (`NoResultYet`).
  - `MismatchNeedsFailedClear`: a mission beside another zone's fence is left only by a clear
    that failed. A command that was refused touched nothing, and when the last clear succeeded
    so had those before it (`EndsInOrder`).
  - `SelectIsTransaction`: `ZoneSelect` implements `ZoneTransaction`; each step of the messages
    maps to a step of the transaction or to none. Needed for it: the one transfer or count on
    the link is about the first store that is not yet new (`Frontier`, `InOrder`), and the
    remote command is under way or has failed only in, or after the failure of, the activation
    (`MapInv`). A mission has more than one item (`LongMissions`), as every mission that
    `zone/mission_items.py` generates has: home, speed, resume distance, then the waypoints.
- **`BringupProofs`**, of the probe and the loop over the table. `CompleteIsTrue` holds for every step table in which whatever a check
  looks for is *secured* by some step: by a command that is reached whatever happens before it
  in the step, that fails the step when it is lost, fails or cannot be done, and that has the
  fact as its effect or its precondition. That is `TableAssumption`, which TLC evaluates on
  the real table. The invariant: in a full run without a recorded failure everything secured
  by a step behind the loop holds (`Behind`), what the present step secures holds or is ahead
  of the present command (`Ahead`), and no fact is there, on the Jetson or in the archive,
  without what it is `Linked` to (`Closed`): the SLAM node never without its libraries, which
  is what makes up for the three steps that can be passed with nothing done (a lost check of `clear-host-key`, an unrecorded
  end of a parallel build). The lemmas on the probe unfold its recursion along the dependencies
  and show that what the last verification lets pass only grows with the facts.
  `CleanRunIsComplete` says that repeating a bringup converges. It rests on what is known for
  sure before each command of a run that nothing disturbs, whatever an earlier one left: what
  the commands before it ensure, and behind a step that may be skipped only what its check
  saw and what follows from that (`Concluded`). `Known` and `Within` compute this along the
  table, and `RelianceAssumption` says that no precondition which fails a step is left open; TLC
  evaluates it on the real table. The invariant: what is known at the present place holds and
  nothing has failed (`Reliable`), or the run cannot succeed any more (`Escape`): one of the
  cut-off steps lies behind and, being skipped, is never mended (`Persists`), a library is
  there behind the restore without the headers the SLAM node needs, or packages or camera are
  missing, in any combination that the operator brings.
- **`VslamProofs`**, of the pipeline: `PipelineTypeCorrect`; `ConnectionIsUnique`, from the
  accept queue: at most one of the client and the waiting connections is alive; `CounterNamesFrame`
  and `JumpIsFlagged`: all frames that one run of the bridge sent under one value of its counter have
  the same low byte of the reset number (`OneByte`), so that two near ones are the same; for that
  nothing of the present run is under a higher value (`NoneAbove`, `LastByte`), although the
  flight controller keeps what earlier runs sent. Of the services:
  `ServiceTypeCorrect`, and `KillNeedsGap`, from the relation that a watchdog timer is ahead of
  the last pose by less than a notification interval.
- **`AhrsSourceProofs`**: `TypeCorrect`, `LostGps`, `GoodExtnav` for every
  threshold. The invariant is the relation between the votes and the calls since GPS
  was lost: the vote is at least `lost - VOTE_THRESHOLD`, as GPS votes are banked
  at most down to `-VOTE_THRESHOLD`.
- **`FirmwareUpdateProofs`**, of `open_link`: `TypeCorrect`, `RetryFinds` (on endpoints of both
  kinds), `ShutdownStops`. The invariant counts attempts against the place in the loop
  (`Counted`) and says that every ended attempt came before the endpoint or the
  autopilot did, or met a connection that an earlier one had left open without
  hearing anything (`EndedAttemptsDeaf`). Of the commands, whose links keep those invariants
  (`LinksFindAutopilot`): `FirmwareTypeCorrect`, `UpdateFlashesConfirmed`, and the action property
  `RebootIsSafe`. The invariant says what each place of the command
  implies of the image (`Prepared`), of the version that was decided on (`Decided`) and of the
  armed check (`ArmedCheck`).
- **`PixhawkSyncProofs`**, of one sync: `TypeCorrect`, `AppliedStored`, `OkSeen`. The invariant
  says that messages on their way name parameters the autopilot has (`Typed`), that
  "new" is only ever reported of a parameter that has it (`NewIsTrue`) and that
  every drifted parameter is applied, failed, waiting or in hand (`Accounted`). Of the unit:
  `UnitTypeCorrect`, `UnitAppliedStored`, `UnitOkSeen`, as a new process knows nothing that drift
  or an earlier run could have made wrong, and `ExitedIsDeployed`, from what is on the card at
  each place of `write_file` (`Deploying`).
- **`KioskProofs`**: `KioskTypeCorrect`, `BlackoutEnds`, `WatchdogIsJustified`, `SendNeverBlocks`,
  `OldScreenIsMarked`. A frame goes into the socket each second and one comes out, unless the
  renderer hangs, and its own watchdog bounds that; so the socket never fills, the n-th frame
  in it is on the screen n seconds later at the latest, and, as `sendall` does not block, a turn
  of the service's loop takes two seconds at most.

Constants carry only the assumptions named in the modules: positive counts, finite
sets, distinct zones neither of which is "none", a watchdog time of the kiosk of more than
two seconds and a socket that holds the frames of all its hangs, and the two assumptions on the step
table, which are computations over its 25 steps.

Only model-checked: all liveness properties (`SelectTerminates`, `PosesFlow`, `StopEndsBridge`,
`HealsWithinLimit`, `SyncSettles`, `FramesFlow`, `TelemetryHeals`, `CommandEnds`; the prover has
no fairness), the three runs that expect a violation, and, of the bringup, that the source's own
table meets the two assumptions.

## 5. What is not modelled

- Health daemon, VSLAM health listener: loops without a decision another part depends on;
  planned. Health readers: parsing of `/proc`, `/sys` and tool output, pure I/O.
- Installation and removal of units, the laptop's setup wizard: sequential file operations;
  what the units say is in `VslamServices`, `Kiosk`, `VslamPipeline` and `PixhawkSync`.
- Start limits of the kiosk's units, and the STATUSTEXT and health metrics of the bridge.
- Probe: `--check` selection, the error for a dependency cycle, the exit code, and the
  checks of severity WARNING, on which no critical one depends.
- Zone geometry, pose conversion (FLU to NED), covariances, image processing:
  numerical code that TLC cannot represent; the models keep the control around it.
- Logging, formatting, configuration parsing, prompts, the LVGL drawing code, the
  desktop and packaging files: no state that a property would be about.
- ArduPilot, its bootloader, the firmware server, systemd, the kernel's sockets, SSH and the
  FTP server of the autopilot are external and modelled from how the code uses them.
- The process and pipe handling of the SSH transport; versions of what the bringup builds.
- `--dry-run` of the bringup and of the parameter sync is left out (the unit of the
  latter does not use it); that of `zone select` and of the firmware commands is modelled.

## 6. Plan

Done: zone selection first, because a wrong mission on a mower is the worst outcome;
then the pose path and its supervision, source switching, the bringup, the
connection, the Pixhawk sync as a whole; then the firmware commands over their links, the
kiosk, zone activation with the transaction that `zone select` implements, and the probe
with the verdicts the bringup draws from it.

Proved since: every safety property and the refinement (section 4).

Next, in this order:

1. `HealthDaemon` and the VSLAM health listener: watchdog, stop event, staleness.
2. `zone resume`, and the setup wizard with steps that fail half-way.
3. `SshTransport`: the streaming run, its pipes and its time-out.
