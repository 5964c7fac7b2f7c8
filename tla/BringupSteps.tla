---------------------------- MODULE BringupSteps ----------------------------
(***************************************************************************)
(* The step table of `mower jetson bringup` (cli/bringup.py).  A step is   *)
(* the sequence of remote commands its execute function issues.  What a    *)
(* command leaves behind on the Jetson is abstracted to named facts, so    *)
(* that what is kept is which facts the check of a step looks at, which    *)
(* facts its commands establish and in which order, and what the code      *)
(* does when a command fails.                                              *)
(***************************************************************************)
EXTENDS Naturals, Sequences, FiniteSets, ProbeRegistry

(* A command succeeds where the facts in needs hold and establishes does.  *)
(* unmet, lost and fails say what the code does when the needs do not      *)
(* hold, when the transport raises SshError (a time-out), and when the     *)
(* command exits non-zero (ssh itself exits 255):                          *)
(*   "raise"  the step fails        "ignore" the next command is issued    *)
(*   "return" the step is done      "again"  the command is issued again   *)
Command(needs, does, unmet, lost, fails) ==
    [needs |-> needs, does |-> does, unmet |-> unmet, lost |-> lost, fails |-> fails]
Handling == {"raise", "ignore", "return", "again"}
Commands == [needs : SUBSET STRING, does : SUBSET STRING,
             unmet : Handling, lost : Handling, fails : Handling]

Must(needs, does)      == Command(needs, does, "raise", "raise", "raise")
Soft(needs, does)      == Command(needs, does, "ignore", "ignore", "ignore")
Stops(needs, does)     == Command(needs, does, "return", "return", "return")
Unchecked(needs, does) == Command(needs, does, "ignore", "raise", "ignore")

(* check is the set of facts the check function looks for; the checks that *)
(* return False look for a fact that never holds.                          *)
Step(name, gate, needs_confirm, check, commands) ==
    [name |-> name, gate |-> gate, needs_confirm |-> needs_confirm,
     check |-> check, commands |-> commands]

Never == {"never"}
Push == Must({}, {})

ClearHostKey == Step("clear-host-key", FALSE, FALSE, {"host_key"},
    <<Must({}, {"host_key"})>>)

(* The execute function only reports and raises.                           *)
CheckSsh == Step("check-ssh", TRUE, FALSE, {"host_key"}, <<Must(Never, {})>>)

EnableLinger == Step("enable-linger", FALSE, FALSE, {"linger"},
    <<Must({}, {"linger"})>>)

(* scripts/jetson-harden.sh runs its sections in this order under set -e;  *)
(* the check of the step looks for what the first and the third leave.     *)
HardenHeadless == Must({}, {"headless"})
HardenSystem   == Must({}, {"tuned"})
HardenSsh      == Must({}, {"sshd_conf"})
HardenUsb      == Must({}, {"usb_params"})
HardenDisplay  == Must({}, {"display"})
HardenOs == Step("harden-os", FALSE, TRUE, {"headless", "sshd_conf"},
    <<Push, HardenHeadless, HardenSystem, HardenSsh, HardenUsb, HardenDisplay>>)

(* sudo reboot; the wait for SSH; the kernel command line.                 *)
Reboot == Soft({}, {"reboot"})
RebootAndWait == Step("reboot-and-wait", FALSE, FALSE, {"cmdline"},
    <<Reboot, Must({}, {}), Must({"cmdline"}, {})>>)

Libraries == {"rtabmap", "depthai", "slam_node"}

(* Without an archive the step returns; a broken one makes tar fail.  It   *)
(* holds the libraries, the programs and the version markers: no headers.  *)
RestoreBinaries == Step("restore-binaries", FALSE, FALSE, Libraries,
    <<Stops({"archive"}, {}), Push, Must({"archive_whole"}, {"restored"})>>)

(* ssh joins its arguments, so what arrives is `sudo bash -c apt-get       *)
(* update -qq && apt-get install ...`: the second apt-get has no root, and *)
(* fails.  The packages come by hand, or not at all.                       *)
InstallBuildDeps == Step("install-build-deps", FALSE, FALSE, {"build_deps"},
    <<Must(Never, {})>>)

(* A library and its headers and cmake files, which find_package needs.    *)
Headers == {<<"rtabmap", "rtabmap_sdk">>, <<"depthai", "depthai_sdk">>}

(* _push_and_run_build; the script writes the version marker last.         *)
Build(needs, does) == <<Push, Must({"build_deps"} \cup needs, does)>>
BuildRtabmap == Step("build-rtabmap", FALSE, FALSE, {"rtabmap"},
    Build({}, {"rtabmap", "rtabmap_sdk"}))
BuildDepthai == Step("build-depthai", FALSE, FALSE, {"depthai"},
    Build({}, {"depthai", "depthai_sdk"}))

(* A recursive clone that is cut off leaves a .git, by which the script    *)
(* takes the source for complete from then on: cmake fails without the     *)
(* submodules.                                                             *)
Leaves(does) == {f \in {"depthai_half"} : "depthai" \in does}

BuildSlamNode == Step("build-slam-node", FALSE, FALSE, {"slam_node"},
    <<Push>> \o Build({"rtabmap", "rtabmap_sdk", "depthai", "depthai_sdk"},
                     {"slam_node"}))
BuildKioskRenderer == Step("build-kiosk-renderer", FALSE, FALSE, {"renderer"},
    <<Push>> \o Build({}, {"renderer"}))

(* tar ... || true, then the pull to today's file on the laptop, which is  *)
(* there as soon as the transfer begins.                                   *)
ArchiveBinaries == Step("archive-binaries", FALSE, FALSE, {"archive"},
    <<Stops({}, {"tar"}), Stops({}, {"archive"}), Stops({}, {"archive_whole"})>>)

PixhawkUdev == Step("pixhawk-udev", FALSE, TRUE, {"udev_rules", "dirs"},
    <<Push, Must({}, {"udev_rules"}), Must({}, {"udev_loaded"}),
      Must({}, {"dirs"})>>)

InstallUv == Step("install-uv", FALSE, FALSE, {"uv"},
    <<Must({}, {"uv"}), Must({"uv"}, {"python"})>>)

(* uv tool install --python 3.11 fetches the Python the step before may    *)
(* have failed to install.                                                 *)
InstallCli == Step("install-cli", FALSE, FALSE, {"cli"},
    <<Push, Must({"uv"}, {"cli", "python"})>>)

(* The probe; "verified" stands for what it found: see Observed.           *)
Verify == Step("verify", FALSE, FALSE, Never, <<Must({"cli", "verified"}, {})>>)

(* The copy, and the switch of the database to the _test zone, which does  *)
(* nothing: the script of sed arrives unquoted and is split at its `|`.    *)
VslamConfig == Step("vslam-config", FALSE, FALSE, {"vslam_yaml"},
    <<Push, Must({"dirs"}, {"vslam_yaml"}), Soft({}, {})>>)

Service == Step("service", FALSE, TRUE, Never,
    <<Must({"cli"}, {"health_unit"}), Must({"health_unit"}, {"health_active"})>>)

(* Never raises; its decisions are the subject of module DbCheck.          *)
VslamDbCheck == Step("vslam-db-check", FALSE, FALSE, Never, <<Soft({}, {})>>)

InstallMavproxy == Step("install-mavproxy", FALSE, TRUE, Never,
    <<Must({"cli"}, {"mavproxy"}), Unchecked({}, {"mavproxy_unit"}),
      Must({"mavproxy", "mavproxy_unit"}, {"mavproxy_active"}),
      Command({"vslam_yaml"}, {"udp_config"}, "ignore", "return", "ignore"),
      Soft({"bridge_unit"}, {"bridge_active"}), Soft({}, {})>>)

(* The SLAM node exits where there is no camera.  The poll takes an empty  *)
(* answer (ssh exited 255) for two active services.                        *)
VslamServices == Step("vslam-services", FALSE, TRUE, Never,
    <<Must({"cli"}, {"vslam_unit"}), Must({"cli"}, {"bridge_unit"}), Soft({}, {}),
      Unchecked({"vslam_unit", "slam_node", "vslam_yaml", "camera"}, {"vslam_active"}),
      Unchecked({"bridge_unit", "mavproxy_active", "vslam_active"}, {"bridge_active"}),
      Command({"vslam_active", "bridge_active"}, {}, "raise", "again", "return")>>)

PixhawkSync == Step("pixhawk-sync", FALSE, TRUE, Never,
    <<Must({"cli"}, {"sync_unit"}), Stops({}, {"synced"})>>)

KioskServices == Step("kiosk-services", FALSE, TRUE, Never,
    <<Soft({}, {}), Unchecked({}, {"kiosk_units"}),
      Unchecked({"kiosk_units"}, {"kiosk_enabled"}),
      Soft({"kiosk_units", "renderer", "display"}, {"kiosk_active"}), Soft({}, {})>>)

KioskProbe == Step("kiosk-probe", FALSE, FALSE, Never, <<Soft({}, {})>>)

FinalVerify == Step("final-verify", FALSE, FALSE, Never,
    <<Reboot, Must({}, {}), Must({"cli", "infra_verified"}, {})>>)

BRINGUP_STEPS ==
    <<ClearHostKey, CheckSsh, EnableLinger, HardenOs, RebootAndWait,
      RestoreBinaries, InstallBuildDeps, BuildRtabmap, BuildDepthai,
      BuildSlamNode, BuildKioskRenderer, ArchiveBinaries, PixhawkUdev,
      InstallUv, InstallCli, Verify, VslamConfig, Service, VslamDbCheck,
      InstallMavproxy, VslamServices, PixhawkSync, KioskServices, KioskProbe,
      FinalVerify>>

(* The facts f, and what a probe run where they hold lets pass.            *)
Observed(f) ==
    LET status == run_checks(Good(f)) IN
    f \cup {v \in {"verified"} : Blocking(status, DEFERRED_CHECKS) = {}}
      \cup {v \in {"infra_verified"} : Blocking(status, HW_DEPENDENT) = {}}

(* Everything a step is there to establish.                                *)
Purpose(s) ==
    UNION {s.commands[k].does : k \in DOMAIN s.commands} \ {"reboot", "restored", "tar"}

(* What no step brings: the packages, and the camera on its port.          *)
Manual == {"build_deps", "camera"}
=============================================================================
