---------------------------- MODULE VslamServices ----------------------------
(***************************************************************************)
(* The two VSLAM services under systemd, on a clock.  The SLAM node and    *)
(* the bridge send WATCHDOG=1 only from the code that handles a pose, so   *)
(* lost tracking starves both watchdogs; systemd then kills and restarts   *)
(* the service until the start limit of its unit (service/unit.py).  A     *)
(* start fails, and counts, while the camera or the autopilot is missing.  *)
(*                                                                         *)
(* One step of the clock is one second, or, on the scaled instances, one   *)
(* unit in which the constants keep their order.  Poses come at 20 Hz: a   *)
(* second of tracking brings one.  systemd is external, modelled from the  *)
(* units the source writes.                                                *)
(***************************************************************************)
EXTENDS Naturals

CONSTANTS
    WatchdogSec,    \* WatchdogSec of both units (30)
    SlamNotify,     \* watchdog_interval of the SLAM node (15)
    BridgeNotify,   \* heartbeat interval of the bridge (1)
    RestartSec,     \* RestartSec of both units (5)
    StartTime,      \* from the start of a process to READY=1 or its exit
    StopTime,       \* systemd's default time to wait for a stop (90)
    Interval,       \* Interval[s]: StartLimitIntervalSec (300 and 900)
    Burst,          \* StartLimitBurst (5)
    MaxOutage       \* bound: longest time of a trouble

Services == {"slam", "bridge"}

ASSUME ServicesAssumption ==
    /\ {WatchdogSec, SlamNotify, BridgeNotify, RestartSec, StartTime, StopTime,
      Burst}
         \subseteq Nat \ {0}
    /\ BridgeNotify <= SlamNotify
    /\ Interval \in [Services -> Nat \ {0}]
    /\ MaxOutage \in Nat

VARIABLES
    trouble,   \* what is wrong now
    outage,    \* for how long
    svc        \* svc[s]: what systemd knows of service s, and its last pose

serviceVars == <<trouble, outage, svc>>

(* "odometry": it is lost, no frame gives a pose; "camera": there is none, *)
(* and no start of the SLAM node succeeds either; "autopilot": it sends no *)
(* heartbeat, and no start of the bridge succeeds.                         *)
Troubles == {"none", "odometry", "camera", "autopilot"}

(* state   "starting", "active", "stopping", "waiting" (to be started      *)
(*         again), "failed" (the start limit is reached) or "inactive"     *)
(*         (its start was cancelled with that of the unit it requires)     *)
(* since   time in a starting, stopping or waiting state                   *)
(* silent  time since READY=1 or the last WATCHDOG=1                       *)
(* gap     time since READY=1 or the last pose handled                     *)
(* begun   time since the interval of the start limit began                *)
(* starts  starts counted in that interval                                 *)
States == {"starting", "active", "stopping", "waiting", "failed",
           "inactive"}

Started(begun, starts) ==
    [state |-> "starting", since |-> 0, silent |-> 0, gap |-> 0,
     begun |-> begun, starts |-> starts]

(* At boot the bridge waits for the SLAM node (After=); no interval of its *)
(* start limit has begun.                                                  *)
ServicesInit ==
    /\ trouble = "none" /\ outage = 0
    /\ svc = [s \in Services |->
                IF s = "slam" THEN Started(0, 1)
                ELSE [Started(Interval[s], 1) EXCEPT !.state = "waiting",
                                                     !.since = RestartSec]]

In(s, states) == svc[s].state \in states

(* The time between two WATCHDOG=1 of a service that handles poses.        *)
Notify(s) == IF s = "slam" THEN SlamNotify ELSE BridgeNotify

(* In this second service s gets to the code that handles a pose: the SLAM *)
(* node passes its early "continue"s, the bridge's blocking read returns.  *)
HandlesPose(s) ==
    trouble \notin {"odometry", "camera"} /\ In("slam", {"active"}) /\ In(s, {"active"})

(* Mutant of Silent: the notification waits for twice its interval.        *)
SilentLate(s) ==
    IF HandlesPose(s) /\ svc[s].silent + 1 >= 2 * Notify(s) THEN 0
    ELSE svc[s].silent + 1

(* The watchdog timer of s at the end of the second.                       *)
Silent(s) ==
    IF HandlesPose(s) /\ svc[s].silent + 1 >= Notify(s) THEN 0
    ELSE svc[s].silent + 1

Gap(s) == IF HandlesPose(s) THEN 0 ELSE svc[s].gap + 1

(* The watchdog fires.                                                     *)
Killed(s) == In(s, {"active"}) /\ Silent(s) >= WatchdogSec

(* RestartSec has passed: systemd wants to start s again.                  *)
Due(s) == In(s, {"waiting"}) /\ svc[s].since + 1 >= RestartSec

(* create_depthai_pipeline throws or open_link raises: the process exits   *)
(* with an error before READY=1.                                           *)
FailsStart(s) ==
    /\ In(s, {"starting"}) /\ svc[s].since + 1 >= StartTime
    /\ trouble = (IF s = "slam" THEN "camera" ELSE "autopilot")

(* Requires= and After= of the bridge unit.  Restarting the SLAM unit also *)
(* restarts a running bridge, which is stopped first.  The bridge starts   *)
(* once the SLAM node is ready.  When the start it waits for fails, or the *)
(* SLAM unit has failed, its own start is cancelled, for good.             *)
StopsFor(s) ==
    s = "bridge" /\ Due("slam") /\ In("bridge", {"starting", "active"})

(* Mutant of Held: the SLAM unit also waits for a bridge that waits for it. *)
HeldForWaiting(s) ==
    IF s = "slam" THEN ~In("bridge", {"failed", "inactive"})
    ELSE ~In("slam", {"active", "failed"})

Held(s) ==
    IF s = "slam" THEN In("bridge", {"starting", "active", "stopping"})
    ELSE ~In("slam", {"active", "failed"})
Cancelled(s) == s = "bridge" /\ (In("slam", {"failed"}) \/ FailsStart("slam"))

(* The record of s one second on, in another state or in the same one.     *)
Clocked(s) ==
    [svc[s] EXCEPT !.begun = IF @ < Interval[s] THEN @ + 1 ELSE @]
Enter(s, state, since) ==
    [Clocked(s) EXCEPT !.state = state, !.since = since, !.silent = 0, !.gap = 0]
Stay(s) == [Clocked(s) EXCEPT !.since = @ + 1]

(* READY=1 is sent once the camera pipeline and the SLAM engine exist, or  *)
(* the bridge has its link; otherwise Restart=on-failure.                  *)
Starting(s) ==
    IF StopsFor(s) THEN Enter(s, "waiting", RestartSec)
    ELSE IF svc[s].since + 1 < StartTime THEN Stay(s)
    ELSE IF FailsStart(s) THEN Enter(s, "waiting", 0)
    ELSE Enter(s, "active", 0)

(* The bridge does not see the stop request while it gets no pose: it is   *)
(* killed when the stop has timed out.                                     *)
Active(s) ==
    IF Killed(s) THEN Enter(s, "waiting", 0)
    ELSE IF StopsFor(s) THEN Enter(s, "stopping", 0)
    ELSE [Clocked(s) EXCEPT !.silent = Silent(s), !.gap = Gap(s)]

Stopping(s) ==
    IF svc[s].since + 1 < StopTime THEN Stay(s)
    ELSE Enter(s, "waiting", RestartSec)

(* Restart=on-failure after RestartSec, within the start limit.            *)
Waiting(s) ==
    IF ~Due(s) THEN Stay(s)
    ELSE IF Cancelled(s) THEN Enter(s, "inactive", 0)
    ELSE IF Held(s) THEN Clocked(s)
    ELSE IF svc[s].begun >= Interval[s] THEN Started(0, 1)
    ELSE IF svc[s].starts < Burst THEN Started(svc[s].begun + 1, svc[s].starts + 1)
    ELSE Enter(s, "failed", 0)

After(s) ==
    CASE In(s, {"starting"}) -> Starting(s)
      [] In(s, {"active"})   -> Active(s)
      [] In(s, {"stopping"}) -> Stopping(s)
      [] In(s, {"waiting"})  -> Waiting(s)
      [] In(s, {"failed", "inactive"}) -> svc[s]

(* A second passes.                                                        *)
Tick ==
    /\ trouble = "none" \/ outage < MaxOutage
    /\ svc' = [s \in Services |-> After(s)]
    /\ outage' = IF trouble = "none" THEN 0 ELSE outage + 1
    /\ UNCHANGED trouble

(* Darkness or fast motion, an unplugged camera, an autopilot that is off; *)
(* and the end of it -- a second without trouble lies between two.         *)
Lose ==
    /\ trouble = "none" /\ outage = 0
    /\ trouble' \in Troubles \ {"none"}
    /\ UNCHANGED <<outage, svc>>

Recover ==
    /\ trouble # "none"
    /\ trouble' = "none"
    /\ UNCHANGED <<outage, svc>>

ServicesNext == Tick \/ Lose \/ Recover

ServicesSpec == ServicesInit /\ [][ServicesNext]_serviceVars

(* Time passes, and a trouble ends when it has reached MaxOutage.          *)
ServicesFairSpec == ServicesSpec /\ WF_serviceVars(Tick) /\ WF_serviceVars(Recover)

-----------------------------------------------------------------------------
(* A watchdog kill is never spurious: the service had handled no pose for  *)
(* longer than the slack between WatchdogSec and its notification interval *)
KilledOnlyAfterGap ==
    \A s \in Services : Killed(s) => Gap(s) > WatchdogSec - Notify(s)

(* Once camera, odometry and autopilot are back for good, both services    *)
(* come to run for good -- whichever of them was waiting for the other to  *)
(* stop or to start -- unless the trouble has used up the start limit of a *)
(* unit, or a start of the SLAM node failed while that of the bridge was   *)
(* queued behind it; then the unit stays down, where docs/research/        *)
(* 008-jetson-mavlink-vision-integration-deploy.md says "Self-healing when *)
(* SLAM recovers".                                                         *)
HealsWithinLimit ==
    <>[](trouble = "none") =>
        \/ <>[](\A s \in Services : svc[s].state = "active")
        \/ <>(\E s \in Services : svc[s].state \in {"failed", "inactive"})
=============================================================================
