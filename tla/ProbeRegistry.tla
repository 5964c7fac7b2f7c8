---------------------------- MODULE ProbeRegistry ----------------------------
(***************************************************************************)
(* `mower-jetson probe` (probe/registry.py, probe/checks): the checks of   *)
(* severity CRITICAL with their dependencies, and what run_checks makes of *)
(* them.  A check of severity WARNING never decides anything here, and no  *)
(* critical one depends on one.  The zone checks (probe/checks/zone.py)    *)
(* are in no list of probe/checks/__init__.py and are never registered.    *)
(***************************************************************************)
EXTENDS Naturals

Critical ==
    {"jetpack_version", "cuda", "disk_space", "python_ver", "pixhawk_symlink",
     "health_service", "oakd", "vslam_process", "vslam_bridge",
     "vslam_socket_active", "vslam_params"}

depends_on == [c \in Critical |->
    CASE c \in {"cuda", "python_ver", "oakd"} -> {"jetpack_version"}
      [] c \in {"vslam_process", "vslam_params"} -> {"oakd"}
      [] c = "vslam_bridge" -> {"vslam_process"}
      [] c = "vslam_socket_active" -> {"vslam_bridge"}
      [] OTHER -> {}]

(* run_checks, in dependency order: a check is skipped when one it depends *)
(* on has failed or was skipped; else it passes iff it is in good.         *)
run_checks(good) ==
    LET status[c \in Critical] ==
            IF \E d \in depends_on[c] : status[d] # "pass" THEN "skip"
            ELSE IF c \in good THEN "pass" ELSE "fail"
    IN status

(* What a probe that finds status blocks a step with: a failed critical    *)
(* check outside exempt.  A skipped one does not count.                    *)
Blocking(status, exempt) == {c \in Critical \ exempt : status[c] = "fail"}

(* The checks that pass where the facts f hold, on a flashed Jetson with   *)
(* the Pixhawk attached.  check_oakd fails only where the SLAM service is  *)
(* active without a camera; the socket is open beside both services.       *)
Good(f) ==
    {"jetpack_version", "cuda", "disk_space"}
        \cup {c \in {"python_ver"} : "python" \in f}
        \cup {c \in {"pixhawk_symlink"} : "udev_loaded" \in f}
        \cup {c \in {"health_service"} : "health_active" \in f}
        \cup {c \in {"oakd"} : "vslam_active" \notin f \/ "camera" \in f}
        \cup {c \in {"vslam_process"} : "vslam_active" \in f}
        \cup {c \in {"vslam_bridge"} : "bridge_active" \in f}
        \cup {c \in {"vslam_socket_active"} : {"vslam_active", "bridge_active"} \subseteq f}
        \cup {c \in {"vslam_params"} : "vslam_yaml" \in f}

(* The members of the two lists of cli/bringup.py that are critical.       *)
DEFERRED_CHECKS ==
    {"health_service", "vslam_process", "vslam_bridge", "vslam_socket_active",
     "vslam_params", "oakd"}
HW_DEPENDENT ==
    {"health_service", "vslam_process", "vslam_bridge", "vslam_socket_active",
     "vslam_params", "oakd"}
=============================================================================
