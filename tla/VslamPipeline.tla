---------------------------- MODULE VslamPipeline ----------------------------
(***************************************************************************)
(* The pose path: the SLAM node (contrib/rtabmap_slam_node), its Unix      *)
(* socket, and the bridge (vslam/ipc.py, vslam/bridge.py) that forwards    *)
(* the poses to the flight controller.  Both processes crash and are       *)
(* started again by systemd; the bridge may be asked to stop.  The probe   *)
(* check vslam_socket_active (probe/checks/vslam.py) is a second client of *)
(* the socket, which serves one at a time.                                 *)
(*                                                                         *)
(* A pose is abstracted to the frame it is expressed in -- the start of    *)
(* the SLAM node and the odometry reset it follows -- and the reset        *)
(* counter.  The rate limit, the conversion FLU -> NED, the heartbeat, the *)
(* STATUSTEXT and the watchdog are left out here (see VslamServices).      *)
(***************************************************************************)
EXTENDS Integers, Sequences, FiniteSets

CONSTANTS
    CounterSize,      \* values of a uint8_t reset counter (256)
    SocketCapacity,   \* poses the socket buffer holds
    MaxResets,        \* bound: odometry resets in one life of the SLAM node
    MaxSlamCrashes,   \* bound
    MaxBridgeCrashes, \* bound
    MaxProbes,        \* bound: runs of the probe
    MayStop           \* TRUE iff the bridge may be asked to stop

ASSUME VslamAssumption ==
    /\ CounterSize \in Nat \ {0}
    /\ SocketCapacity \in Nat \ {0}
    /\ MaxResets \in Nat /\ MaxSlamCrashes \in Nat /\ MaxBridgeCrashes \in Nat
    /\ MaxProbes \in Nat /\ MayStop \in BOOLEAN

(* listen(fd, 1): the kernel queues one connection more than the backlog.  *)
Backlog == 2

VARIABLES
    slam,          \* "down" or "up"
    life,          \* times the SLAM node was started before this one
    path,          \* the file of its socket exists
    resets,        \* odometry resets in this life; the counter is its low byte
    client,        \* client_fd: "none", or a connection: the bridge's ("live"),
                   \* the probe's ("probe"), or one that was closed ("dead")
    pending,       \* connections waiting for accept()
    sock,          \* the reader's socket: "none", "open", "eof" (peer gone)
    chan,          \* poses written to the reader's socket and not yet read
    bridge,        \* "down", "linking" (open_link), "up", "stopped"
    prev,          \* frame of prev_msg, or NoFrame
    last_reset_counter, bridge_reset_counter,
    stop,          \* the shutdown event
    run,           \* starts of the bridge so far
    sentFrames,    \* sentFrames[c]: what the flight controller got with
                   \* reset_counter c: the frames, and the run that sent them
    speed,         \* the last VISION_SPEED_ESTIMATE of this run
    crashes,       \* crashes of the bridge so far
    probe,         \* "idle", or "waiting" for a pose of its connection
    probes         \* runs of the probe so far

slamVars   == <<slam, life, path, resets>>
socketVars == <<client, pending, sock, chan>>
loopVars   == <<prev, last_reset_counter, bridge_reset_counter, run, sentFrames, speed>>
probeVars  == <<probe, probes>>
vars == <<slamVars, socketVars, bridge, loopVars, stop, crashes, probeVars>>

Frames == [life : 0 .. MaxSlamCrashes, resets : 0 .. MaxResets]
Pose == [frame : Frames, reset_counter : 0 .. CounterSize - 1]
NoFrame == [life |-> -1, resets |-> -1]
NoSpeed == [from |-> NoFrame, to |-> NoFrame, counter |-> 0]

(* Mutant of LowByte: a wider counter.                                     *)
LowByteWide(n) == n

(* The SLAM node counts its resets in a uint8_t.                           *)
LowByte(n) == n % CounterSize

Init ==
    /\ slam = "down" /\ life = 0 /\ path = FALSE /\ resets = 0
    /\ client = "none" /\ pending = << >> /\ sock = "none" /\ chan = << >>
    /\ bridge = "down"
    /\ prev = NoFrame
    /\ last_reset_counter = -1 /\ bridge_reset_counter = 0
    /\ stop = FALSE
    /\ run = 0 /\ speed = NoSpeed
    /\ sentFrames = [c \in 0 .. CounterSize - 1 |-> {}]
    /\ crashes = 0
    /\ probe = "idle" /\ probes = 0

-----------------------------------------------------------------------------
(* SLAM node                                                               *)

(* main(): a fresh engine and a fresh listening socket.                    *)
SlamStart ==
    /\ slam = "down"
    /\ slam' = "up" /\ path' = TRUE
    /\ resets' = 0
    /\ UNCHANGED <<life, socketVars, bridge, loopVars, stop, crashes, probeVars>>

(* Mutant of SlamAccept: a new client takes the place of the present one.  *)
SlamAcceptReplaces ==
    /\ slam = "up" /\ pending # << >>
    /\ client' = Head(pending)
    /\ pending' = Tail(pending)
    /\ UNCHANGED <<slamVars, sock, chan, bridge, loopVars, stop, crashes, probeVars>>

(* socket_accept_nonblock                                                  *)
SlamAccept ==
    /\ slam = "up" /\ client = "none" /\ pending # << >>
    /\ client' = Head(pending)
    /\ pending' = Tail(pending)
    /\ UNCHANGED <<slamVars, sock, chan, bridge, loopVars, stop, crashes, probeVars>>

(* A frame whose pose is null because odometry is lost.                    *)
OdometryLost ==
    /\ slam = "up" /\ resets < MaxResets
    /\ resets' = resets + 1
    /\ UNCHANGED <<slam, life, path, socketVars, bridge, loopVars, stop, crashes, probeVars>>

(* A frame with a pose: socket_send_pose writes it, blocking while the     *)
(* socket is full, and drops a client that has gone.                       *)
SlamPose ==
    /\ slam = "up"
    /\ \/ /\ client = "live" /\ Len(chan) < SocketCapacity
          /\ chan' = Append(chan, [frame |-> [life |-> life, resets |-> resets],
                                   reset_counter |-> LowByte(resets)])
          /\ UNCHANGED <<client, probe>>
       \/ /\ client = "dead"
          /\ client' = "none"
          /\ UNCHANGED <<chan, probe>>
       \/ /\ client = "probe"                \* it reads the pose and closes
          /\ client' = "dead" /\ probe' = "idle"
          /\ UNCHANGED chan
    /\ UNCHANGED <<slamVars, pending, sock, bridge, loopVars, stop, crashes, probes>>

(* The process ends (crash, watchdog, restart): its sockets are closed;    *)
(* what it wrote stays readable.                                           *)
SlamCrash ==
    /\ slam = "up" /\ life < MaxSlamCrashes
    /\ slam' = "down" /\ path' = FALSE
    /\ life' = life + 1
    /\ client' = "none"
    /\ pending' = << >>
    /\ sock' = IF sock = "open" THEN "eof" ELSE sock
    /\ probe' = "idle"                       \* "Short read", if it was waiting
    /\ UNCHANGED <<resets, chan, bridge, loopVars, stop, crashes, probes>>

(* mower-kiosk-data declares RuntimeDirectory=mower too: when that service *)
(* ends, systemd removes /run/mower and all in it.                         *)
KioskServiceEnds ==
    /\ path
    /\ path' = FALSE
    /\ UNCHANGED <<slam, life, resets, socketVars, bridge, loopVars, stop, crashes, probeVars>>

-----------------------------------------------------------------------------
(* Bridge                                                                  *)

(* run_bridge starts: the locals of the loop are fresh, so the counter     *)
(* begins at 0 again, while the flight controller has what was sent.       *)
BridgeStart ==
    /\ bridge = "down" /\ ~stop
    /\ bridge' = "linking"
    /\ prev' = NoFrame
    /\ last_reset_counter' = -1 /\ bridge_reset_counter' = 0
    /\ run' = run + 1 /\ speed' = NoSpeed
    /\ UNCHANGED <<slamVars, socketVars, sentFrames, stop, crashes, probeVars>>

(* open_link got a heartbeat, and yields the link whatever the event says; *)
(* READY=1.                                                                *)
LinkUp ==
    /\ bridge = "linking"
    /\ bridge' = "up"
    /\ UNCHANGED <<slamVars, socketVars, loopVars, stop, crashes, probeVars>>

(* open_link looks at the event before each attempt and while it waits for *)
(* the next one, and raises ConnectionError.                               *)
LinkStopped ==
    /\ bridge = "linking" /\ stop
    /\ bridge' = "stopped"
    /\ UNCHANGED <<slamVars, socketVars, loopVars, stop, crashes, probeVars>>

(* _connect: refused while nobody listens or the file is missing, blocked  *)
(* while the queue is full                                                 *)
ReaderConnect ==
    /\ bridge = "up" /\ sock = "none"
    /\ slam = "up" /\ path /\ Len(pending) < Backlog
    /\ sock' = "open"
    /\ pending' = Append(pending, "live")
    /\ chan' = << >>
    /\ UNCHANGED <<slamVars, client, bridge, loopVars, stop, crashes, probeVars>>

(* OSError of connect: the reader waits and tries again.                   *)
ReaderRefused ==
    /\ bridge = "up" /\ sock = "none"
    /\ slam = "down" \/ ~path
    /\ UNCHANGED vars

(* Mutant of ReaderEof: an empty read is taken for "nothing yet".          *)
ReaderEofIgnored ==
    /\ bridge = "up" /\ sock = "eof" /\ chan = << >>
    /\ UNCHANGED vars

(* recv returned b"": ConnectionError("socket EOF"), _close.               *)
ReaderEof ==
    /\ bridge = "up" /\ sock = "eof" /\ chan = << >>
    /\ sock' = "none"
    /\ UNCHANGED <<slamVars, client, pending, chan, bridge, loopVars, stop, crashes, probeVars>>

(* What a connection of the bridge becomes when the bridge closes it.      *)
Dead(c) == IF c = "live" THEN "dead" ELSE c

(* The bridge's end of its connection is closed.                           *)
CloseSocket ==
    /\ sock' = "none"
    /\ chan' = << >>
    /\ client' = Dead(client)
    /\ pending' = [i \in DOMAIN pending |-> Dead(pending[i])]

(* Mutant of ResetCounter: a reference of 0 counts as none.                *)
ResetCounterPositive(m) ==
    IF m.reset_counter # last_reset_counter /\ last_reset_counter > 0
    THEN bridge_reset_counter + 1
    ELSE bridge_reset_counter

(* The reset counter of the bridge after pose m.                           *)
ResetCounter(m) ==
    IF m.reset_counter # last_reset_counter /\ last_reset_counter >= 0
    THEN bridge_reset_counter + 1
    ELSE bridge_reset_counter

(* Mutant of SpeedEstimates: the estimate carries the counter of prev_msg. *)
SpeedEstimatesOldCounter(m) ==
    {speed} \cup
    { s \in {[from |-> prev, to |-> m.frame, counter |-> bridge_reset_counter]} :
        prev # NoFrame }

(* _differentiate_velocity: prev_msg and m are differenced, also across a  *)
(* reset; nothing is sent without a previous pose, or when the wall clock  *)
(* (the timestamps) did not advance.                                       *)
SpeedEstimates(m) ==
    {speed} \cup
    { s \in {[from |-> prev, to |-> m.frame, counter |-> ResetCounter(m)]} :
        prev # NoFrame }

(* One turn of the loop.  VISION_POSITION_ESTIMATE carries the counter in  *)
(* a byte: packing a larger one raises, and the bridge ends.               *)
Forward ==
    /\ bridge = "up" /\ sock # "none" /\ chan # << >> /\ ~stop
    /\ LET m == Head(chan) IN
        /\ ResetCounter(m) < CounterSize
        /\ bridge_reset_counter' = ResetCounter(m)
        /\ last_reset_counter' = m.reset_counter
        /\ sentFrames' = [sentFrames EXCEPT ![ResetCounter(m)] =
                           @ \cup {[run |-> run, frame |-> m.frame]}]
        /\ speed' \in SpeedEstimates(m)
        /\ prev' = m.frame
    /\ chan' = Tail(chan)
    /\ UNCHANGED <<slamVars, client, pending, sock, bridge, run, stop, crashes, probeVars>>

CounterOverflow ==
    /\ bridge = "up" /\ sock # "none" /\ chan # << >> /\ ~stop
    /\ ResetCounter(Head(chan)) >= CounterSize
    /\ bridge' = "down"
    /\ CloseSocket
    /\ UNCHANGED <<slamVars, loopVars, stop, crashes, probeVars>>

(* Mutant of LoopStopped: the event is not looked at.                      *)
LoopStoppedIgnored ==
    /\ bridge = "up" /\ sock # "none" /\ chan # << >> /\ stop
    /\ chan' = Tail(chan)
    /\ UNCHANGED <<slamVars, client, pending, sock, bridge, loopVars, stop, crashes, probeVars>>

(* The event is looked at after the next pose: break, reader.close().      *)
LoopStopped ==
    /\ bridge = "up" /\ sock # "none" /\ chan # << >> /\ stop
    /\ bridge' = "stopped"
    /\ CloseSocket
    /\ UNCHANGED <<slamVars, loopVars, stop, crashes, probeVars>>

(* The process ends: link failure, crash, watchdog.                        *)
BridgeCrash ==
    /\ bridge \in {"linking", "up"} /\ crashes < MaxBridgeCrashes
    /\ crashes' = crashes + 1
    /\ bridge' = IF stop THEN "stopped" ELSE "down"
    /\ CloseSocket
    /\ UNCHANGED <<slamVars, loopVars, stop, probeVars>>

(* SIGTERM: _handle_signal sets the event.                                 *)
RequestStop ==
    /\ MayStop /\ bridge \in {"linking", "up"} /\ ~stop
    /\ stop' = TRUE
    /\ UNCHANGED <<slamVars, socketVars, bridge, loopVars, crashes, probeVars>>

-----------------------------------------------------------------------------
(* check_vslam_socket_active, which runs when vslam_bridge has passed: the *)
(* bridge is active and the file exists.  A full queue refuses a socket    *)
(* with a time-out at once, and the check fails.                           *)
ProbeConnect ==
    /\ probe = "idle" /\ probes < MaxProbes
    /\ bridge = "up" /\ path /\ slam = "up" /\ Len(pending) < Backlog
    /\ probe' = "waiting" /\ probes' = probes + 1
    /\ pending' = Append(pending, "probe")
    /\ UNCHANGED <<slamVars, client, sock, chan, bridge, loopVars, stop, crashes>>

(* "Socket read timed out after 10s": s.close().                           *)
ProbeTimeout ==
    /\ probe = "waiting"
    /\ probe' = "idle"
    /\ client' = IF client = "probe" THEN "dead" ELSE client
    /\ pending' = [i \in DOMAIN pending |->
                     IF pending[i] = "probe" THEN "dead" ELSE pending[i]]
    /\ UNCHANGED <<slamVars, sock, chan, bridge, loopVars, stop, crashes, probes>>

Idle == bridge = "stopped" /\ UNCHANGED vars

Next ==
    \/ SlamStart \/ SlamAccept \/ OdometryLost \/ SlamPose \/ SlamCrash
    \/ KioskServiceEnds
    \/ BridgeStart \/ LinkUp \/ LinkStopped \/ ReaderConnect \/ ReaderRefused
    \/ ReaderEof \/ Forward \/ CounterOverflow \/ LoopStopped \/ BridgeCrash \/ RequestStop
    \/ ProbeConnect \/ ProbeTimeout
    \/ Idle

Spec == Init /\ [][Next]_vars

(* systemd starts what has ended; the SLAM loop accepts; the bridge takes  *)
(* its next step.                                                          *)
Running ==
    /\ WF_vars(SlamStart) /\ WF_vars(SlamAccept)
    /\ WF_vars(BridgeStart) /\ WF_vars(LinkUp) /\ WF_vars(LinkStopped)
    /\ WF_vars(ReaderConnect) /\ WF_vars(ReaderEof)
    /\ WF_vars(Forward) /\ WF_vars(CounterOverflow) /\ WF_vars(LoopStopped)

FairSpec == Spec /\ Running

(* Besides, the camera delivers frames and odometry tracks.                *)
TrackingSpec == FairSpec /\ WF_vars(SlamPose)

-----------------------------------------------------------------------------
Connections == {"live", "probe", "dead"}

TypeOK ==
    /\ slam \in {"down", "up"}
    /\ life \in 0 .. MaxSlamCrashes /\ path \in BOOLEAN
    /\ resets \in 0 .. MaxResets
    /\ client \in {"none"} \cup Connections
    /\ pending \in Seq(Connections) /\ Len(pending) <= Backlog
    /\ sock \in {"none", "open", "eof"}
    /\ chan \in Seq(Pose) /\ Len(chan) <= SocketCapacity
    /\ bridge \in {"down", "linking", "up", "stopped"}
    /\ prev \in Frames \cup {NoFrame}
    /\ last_reset_counter \in -1 .. CounterSize - 1
    /\ bridge_reset_counter \in 0 .. CounterSize - 1
    /\ stop \in BOOLEAN
    /\ run \in Nat
    /\ sentFrames \in [0 .. CounterSize - 1 -> SUBSET [run : Nat, frame : Frames]]
    /\ speed \in [from : Frames, to : Frames, counter : 0 .. CounterSize - 1]
                  \cup {NoSpeed}
    /\ crashes \in 0 .. MaxBridgeCrashes
    /\ probe \in {"idle", "waiting"} /\ probes \in 0 .. MaxProbes

(* The reader, the server's client_fd and the accept queue agree: at most  *)
(* one connection is the bridge's, it exists only while its socket is      *)
(* open, and poses wait only on a connection the reader still holds.       *)
OneLiveConnection ==
    /\ Cardinality({i \in DOMAIN pending : pending[i] = "live"})
         + (IF client = "live" THEN 1 ELSE 0) = (IF sock = "open" THEN 1 ELSE 0)
    /\ chan # << >> => sock # "none"

(* Two frames of one start of the SLAM node (a restarted one counts from 0 *)
(* again) that are less than a whole turn of the counter apart.            *)
Near(f, g) ==
    f.life = g.life /\ f.resets - g.resets \in 1 - CounterSize .. CounterSize - 1

(* If the flight controller has such poses with one reset_counter in two   *)
(* frames, the bridge was restarted between them, which begins its counter *)
(* at 0 again ("Python bridge restarts -> bridge_reset_counter starts at   *)
(* 0", docs/research/014-multi-zone-lawn-management.md:264).  Within a run *)
(* an odometry reset between two forwarded poses always shows as a new     *)
(* value, however many poses were lost between them and however often the  *)
(* SLAM node was restarted.                                                *)
SameCounterSameFrame ==
    \A c \in DOMAIN sentFrames : \A p, q \in sentFrames[c] :
        Near(p.frame, q.frame) => p.frame = q.frame \/ p.run # q.run

(* A speed that was differenced across an odometry reset is a jump, not a  *)
(* motion: it never carries the counter under which the earlier pose went  *)
(* out, so the flight controller can tell.                                 *)
SpeedAcrossResetIsFlagged ==
    speed.from # speed.to /\ Near(speed.from, speed.to) =>
        [run |-> run, frame |-> speed.from] \notin sentFrames[speed.counter]

(* While nobody stops the bridge and odometry tracks, poses keep reaching  *)
(* the flight controller: crashes of either process, connections left in   *)
(* the accept queue and a client that has gone are all got over -- unless  *)
(* the end of the kiosk service has removed the file of the socket, and    *)
(* the SLAM node goes on without it ("systemd deduplicates -- safe",       *)
(* docs/plans/009-jetson-deploy-integration-gaps.md:491).                  *)
PosesFlow == []~stop => []<><<Forward>>_vars \/ <>[](~path)

(* Asked to stop, the bridge stops, also while it waits for the link, when *)
(* the link comes up behind the last look at the event, and whoever        *)
(* crashes meanwhile -- as long as poses come: read_poses yields only with *)
(* a pose, and the event is looked at after it.                            *)
StopEndsBridge == (stop ~> bridge = "stopped") \/ <>[](~path)
=============================================================================
