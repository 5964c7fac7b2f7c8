-------------------------------- MODULE Kiosk --------------------------------
(***************************************************************************)
(* The kiosk: the data service (kiosk/app.py, kiosk/telemetry.py), which   *)
(* collects telemetry and pushes it as frames over a Unix socket once a    *)
(* second, and the renderer (contrib/lvgl_kiosk), which polls the socket   *)
(* and draws.  Each runs under a watchdog of systemd (service/unit.py),    *)
(* which is external, as are the kernel's sockets.                         *)
(*                                                                         *)
(* One Tick of the clock is a second, or, on scaled instances, one turn of *)
(* the main loop of the data service; it comes when nobody has anything    *)
(* left to do in this one.  A frame is abstracted to its age.              *)
(***************************************************************************)
EXTENDS Integers, Sequences, FiniteSetsExt

CONSTANTS
    Staleness,    \* kiosk.heartbeat_staleness_s (60)
    WatchdogSec,  \* of both units (30)
    RestartSec,   \* of both units (5 and 2)
    Threshold,    \* STALENESS_THRESHOLD_MS (5)
    NotifyEvery,  \* WATCHDOG_INTERVAL_MS (15)
    Polls,        \* polls of the socket in a second (10)
    BackoffMin, BackoffMax, \* RECONNECT_MIN_MS and _MAX_MS, counted in polls
    FrameSize,    \* bytes of a frame with its length, on some scale
    RecvBuf,      \* RECV_BUF_SIZE
    SocketBuf,    \* what the kernel buffers between the processes
    MaxFaults     \* bound: crashes, hangs, stops, removals

ASSUME KioskAssumption ==
    /\ {Staleness, WatchdogSec, RestartSec, Threshold, NotifyEvery, Polls,
        BackoffMin, FrameSize} \subseteq Nat \ {0}
    /\ BackoffMax \in Nat /\ BackoffMin <= BackoffMax
    /\ NotifyEvery < WatchdogSec /\ WatchdogSec > 2
    /\ RecvBuf \in Nat /\ FrameSize <= RecvBuf \* json_parser gets whole frames
    /\ MaxFaults \in Nat
    /\ SocketBuf \in Nat \* some 200 kB, minutes of frames
    /\ FrameSize * (WatchdogSec * MaxFaults + 2) <= SocketBuf

(* listen(1): the kernel queues one connection more than the backlog.      *)
Backlog == 2

None == -1
HbCap == Staleness + WatchdogSec + 1
OldAge == Threshold + WatchdogSec * MaxFaults + 2
AgeCap == OldAge + 1

VARIABLES
    fc,      \* the autopilot is there and its heartbeats reach the reader
    faults,  \* faults so far
    svc,     \* the data service
    client,  \* its accepted connection: "none", "live", "dead" (the peer has gone)
    queue,   \* the connections waiting for accept()
    stream,  \* ages of the frames sent and not yet taken out by the renderer
    got,     \* bytes of them that are in the buffer of the renderer
    sock,    \* its connection: "none", "open", "eof" (the peer has gone)
    rend,    \* the renderer
    screen   \* what it shows

connVars == <<client, queue, stream, got, sock>>
vars == <<fc, faults, svc, connVars, rend, screen>>

(* unit    "up", or "wait"ing to be started again for down seconds         *)
(* pc      the place in the main loop                                      *)
(* slept   the second of a sleep, or of accept's time-out, is over         *)
(* stop    the shutdown event                                              *)
(* reader  the MAVLink thread: "waiting" for a heartbeat, "reading", "dead" *)
(* hb      age of last_heartbeat_epoch, None while it is 0.0               *)
(* silent  time since READY=1 or the last WATCHDOG=1                       *)
(* snap    age of the snapshot in hand                                     *)
(* path    the socket file exists                                          *)
Service ==
    [unit : {"up", "wait"}, down : 0 .. RestartSec,
     pc : {"top", "accept", "send", "sleep"}, slept : BOOLEAN, stop : BOOLEAN,
     reader : {"waiting", "reading", "dead"}, hb : None .. HbCap,
     silent : 0 .. WatchdogSec, snap : 0 .. AgeCap, path : BOOLEAN]

NewService ==
    [unit |-> "up", down |-> 0, pc |-> "top", slept |-> FALSE, stop |-> FALSE,
     reader |-> "waiting", hb |-> None, silent |-> 0, snap |-> 0, path |-> TRUE]

(* state            "up", "hung", or "wait"ing to be started again         *)
(* polls, checked   what its timers have done in this second               *)
(* interval, waited reconnect_interval_ms, and polls since the last try    *)
Renderer ==
    [state : {"up", "hung", "wait"}, down : 0 .. RestartSec,
     silent : 0 .. WatchdogSec, polls : 0 .. Polls, checked : BOOLEAN,
     interval : BackoffMin .. BackoffMax, waited : 0 .. BackoffMax]

NewRenderer ==
    [state |-> "up", down |-> 0, silent |-> 0, polls |-> 0, checked |-> FALSE,
     interval |-> BackoffMin, waited |-> BackoffMin]

(* fresh   age of last_data_time_ms                                        *)
(* shown   age of the frame on the screen                                  *)
(* first   first_frame_received                                            *)
Screen ==
    [fresh : None .. Threshold + 1, shown : None .. AgeCap,
     first : BOOLEAN, overlay : BOOLEAN, stale : BOOLEAN]

NewScreen ==
    [fresh |-> None, shown |-> None, first |-> FALSE, overlay |-> TRUE,
     stale |-> FALSE]

Init ==
    /\ fc \in BOOLEAN /\ faults = 0
    /\ svc = NewService
    /\ client = "none" /\ queue = <<>> /\ stream = <<>> /\ got = 0 /\ sock = "none"
    /\ rend = NewRenderer /\ screen = NewScreen

Fault == faults < MaxFaults /\ faults' = faults + 1
Works == UNCHANGED faults

At(place) == svc.unit = "up" /\ svc.pc = place
Goes(place) == svc' = [svc EXCEPT !.pc = place, !.slept = FALSE,
                                  !.snap = IF place = "send" THEN @ ELSE 0]

-----------------------------------------------------------------------------
(* The MAVLink reader thread                                               *)

(* wait_heartbeat takes the first heartbeat, which is not handled; every   *)
(* later one is.                                                           *)
Heartbeat ==
    /\ fc /\ svc.unit = "up" /\ svc.reader # "dead"
    /\ svc' = [svc EXCEPT !.reader = "reading",
                          !.hb = IF svc.reader = "reading" THEN 0 ELSE @]
    /\ UNCHANGED <<fc, faults, connVars, rend, screen>>

(* An exception ends the thread; _mavlink_reader_thread logs it.           *)
ReaderDies ==
    /\ svc.unit = "up" /\ svc.reader # "dead" /\ Fault
    /\ svc' = [svc EXCEPT !.reader = "dead"]
    /\ UNCHANGED <<fc, connVars, rend, screen>>

-----------------------------------------------------------------------------
(* The main loop                                                           *)

(* Mutant of ShouldNotify: whatever the heartbeats do.                     *)
ShouldNotifyAlways == TRUE

(* Mutant of ShouldNotify: a heartbeat that never came counts as stale.    *)
ShouldNotifySeen == svc.hb # None /\ svc.hb < Staleness

(* _should_notify_watchdog                                                 *)
ShouldNotify == svc.hb = None \/ svc.hb < Staleness

(* The snapshot is taken first, the watchdog is gated on it.               *)
Top ==
    /\ At("top") /\ ~svc.stop
    /\ svc' = [svc EXCEPT !.snap = 0,
                          !.silent = IF ShouldNotify THEN 0 ELSE @,
                          !.pc = IF client = "none" THEN "accept" ELSE "send"]
    /\ UNCHANGED <<fc, faults, connVars, rend, screen>>

Accept ==
    /\ At("accept") /\ queue # <<>>
    /\ client' = Head(queue) /\ queue' = Tail(queue)
    /\ Goes("send")
    /\ UNCHANGED <<fc, faults, stream, got, sock, rend, screen>>

AcceptTimeout ==
    /\ At("accept") /\ queue = <<>> /\ svc.slept
    /\ Goes("top")
    /\ UNCHANGED <<fc, faults, connVars, rend, screen>>

Room == FrameSize * (Len(stream) + 1) - got <= SocketBuf

(* sendall: it blocks while the socket is full.                            *)
Send ==
    /\ At("send") /\ client = "live" /\ Room
    /\ stream' = Append(stream, svc.snap)
    /\ Goes("sleep")
    /\ UNCHANGED <<fc, faults, client, queue, got, sock, rend, screen>>

(* Mutant of SendFails: the dead connection is kept.                       *)
SendFailsKept ==
    /\ At("send") /\ client = "dead"
    /\ Goes("sleep")
    /\ UNCHANGED <<fc, faults, connVars, rend, screen>>

(* EPIPE: the connection is dropped, and the loop goes on without a pause. *)
SendFails ==
    /\ At("send") /\ client = "dead"
    /\ client' = "none"
    /\ Goes("top")
    /\ UNCHANGED <<fc, faults, queue, stream, got, sock, rend, screen>>

Sleep ==
    /\ At("sleep")
    /\ svc.slept \/ svc.stop
    /\ Goes("top")
    /\ UNCHANGED <<fc, faults, connVars, rend, screen>>

-----------------------------------------------------------------------------
(* The data service under systemd                                          *)

(* The process is gone: its sockets are closed, what it sent stays         *)
(* readable, and the runtime directory of its unit is removed.             *)
Ends ==
    /\ svc' = [NewService EXCEPT !.unit = "wait", !.path = FALSE]
    /\ client' = "none" /\ queue' = <<>>
    /\ sock' = IF sock = "open" THEN "eof" ELSE sock
    /\ UNCHANGED <<fc, stream, got, rend, screen>>

(* The finally clause, reached through the test of the loop.               *)
Exit == At("top") /\ svc.stop /\ Ends /\ Works

(* WatchdogSec has passed without a notification.                          *)
Killed == svc.unit = "up" /\ svc.silent >= WatchdogSec /\ Ends /\ Works

Crashes == svc.unit = "up" /\ Ends /\ Fault

(* SIGTERM of a systemctl restart.                                         *)
Restart ==
    /\ svc.unit = "up" /\ ~svc.stop /\ Fault
    /\ svc' = [svc EXCEPT !.stop = TRUE]
    /\ UNCHANGED <<fc, connVars, rend, screen>>

(* run_kiosk up to READY=1: a stale socket file is removed, a new one is   *)
(* bound in the directory the unit creates.                                *)
Starts ==
    /\ svc.unit = "wait" /\ svc.down >= RestartSec
    /\ svc' = NewService
    /\ UNCHANGED <<fc, faults, connVars, rend, screen>>

(* RuntimeDirectory=mower is declared by the unit of the SLAM node too:    *)
(* when that service ends, systemd removes /run/mower and all in it.       *)
SlamServiceEnds ==
    /\ svc.unit = "up" /\ svc.path /\ Fault
    /\ svc' = [svc EXCEPT !.path = FALSE]
    /\ UNCHANGED <<fc, connVars, rend, screen>>

-----------------------------------------------------------------------------
(* The renderer: its timers                                                *)

Polling == rend.state = "up" /\ rend.polls < Polls
Polled == [rend EXCEPT !.polls = @ + 1, !.waited = Min({@ + 1, rend.interval})]

(* What the server holds of a connection the renderer closes.              *)
Dead(c) == IF c = "live" THEN "dead" ELSE c
Hangup ==
    /\ sock' = "none" /\ stream' = <<>> /\ got' = 0
    /\ client' = Dead(client)
    /\ queue' = [i \in DOMAIN queue |-> Dead(queue[i])]

Listening == svc.unit = "up" /\ svc.path /\ Len(queue) < Backlog

(* try_connect within its backoff.                                         *)
Backoff ==
    /\ Polling /\ sock = "none" /\ rend.waited < rend.interval
    /\ rend' = Polled
    /\ UNCHANGED <<fc, faults, svc, connVars, screen>>

(* Mutant of NextInterval: the backoff has no limit.                       *)
NextIntervalUncapped == 2 * rend.interval

NextInterval == Min({2 * rend.interval, BackoffMax})

TryConnect ==
    /\ Polling /\ sock = "none" /\ rend.waited >= rend.interval
    /\ IF Listening
       THEN /\ sock' = "open" /\ queue' = Append(queue, "live")
            /\ rend' = [Polled EXCEPT !.waited = 0, !.interval = BackoffMin]
       ELSE /\ rend' = [Polled EXCEPT !.waited = 0,
                                      !.interval = NextInterval]
            /\ UNCHANGED <<sock, queue>>
    /\ UNCHANGED <<fc, faults, svc, client, stream, got, screen>>

(* recv fills the buffer.                                                  *)
Received == Min({RecvBuf, FrameSize * Len(stream)})

(* recv returned 0: the peer has closed and everything is read -- or there *)
(* is no room in the buffer.                                               *)
Nothing == sock = "eof" /\ Received = got
Full == got = RecvBuf

Disconnect ==
    /\ Polling /\ sock # "none"
    /\ Nothing \/ Full
    /\ Hangup
    /\ rend' = Polled
    /\ UNCHANGED <<fc, faults, svc, screen>>

FrameComplete == Received >= FrameSize

(* update_dashboard: the overlay is hidden by the first frame only.        *)
Updated(age) ==
    [screen EXCEPT !.fresh = 0, !.shown = age, !.first = TRUE,
                   !.overlay = @ /\ screen.first]

(* socket_poll_cb on a connection: at most one frame is taken out.         *)
Receive ==
    /\ Polling /\ sock # "none" /\ ~Nothing /\ ~Full
    /\ rend' = Polled
    /\ IF FrameComplete
       THEN /\ got' = Received - FrameSize /\ stream' = Tail(stream)
            /\ screen' = Updated(Head(stream))
       ELSE got' = Received /\ UNCHANGED <<stream, screen>>
    /\ UNCHANGED <<fc, faults, svc, client, queue, sock>>

(* Mutant of StalenessCb: a lost connection is not shown.                  *)
StalenessCbConnected ==
    /\ rend.state = "up" /\ ~rend.checked
    /\ rend' = [rend EXCEPT !.checked = TRUE]
    /\ screen' = IF sock = "none" \/ screen.fresh = None THEN screen
                 ELSE [screen EXCEPT !.stale = screen.fresh > Threshold]
    /\ UNCHANGED <<fc, faults, svc, connVars>>

(* staleness_cb                                                            *)
StalenessCb ==
    /\ rend.state = "up" /\ ~rend.checked
    /\ rend' = [rend EXCEPT !.checked = TRUE]
    /\ screen' = IF sock = "none" THEN [screen EXCEPT !.overlay = TRUE]
                 ELSE IF screen.fresh = None THEN screen
                 ELSE [screen EXCEPT !.stale = screen.fresh > Threshold]
    /\ UNCHANGED <<fc, faults, svc, connVars>>

(* The event loop stands still (the compositor does not answer), and goes  *)
(* on.                                                                     *)
Hangs ==
    /\ rend.state = "up" /\ Fault
    /\ rend' = [rend EXCEPT !.state = "hung"]
    /\ UNCHANGED <<fc, svc, connVars, screen>>
Recovers ==
    /\ rend.state = "hung"
    /\ rend' = [rend EXCEPT !.state = "up"]
    /\ UNCHANGED <<fc, faults, svc, connVars, screen>>

(* The renderer under systemd                                              *)
RendererEnds ==
    /\ rend' = [NewRenderer EXCEPT !.state = "wait"] /\ screen' = NewScreen
    /\ Hangup
    /\ UNCHANGED <<fc, svc>>
RendererKilled == rend.state = "hung" /\ rend.silent >= WatchdogSec
                    /\ RendererEnds /\ Works
RendererCrashes == rend.state # "wait" /\ RendererEnds /\ Fault
RendererStarts ==
    /\ rend.state = "wait" /\ rend.down >= RestartSec
    /\ rend' = NewRenderer
    /\ UNCHANGED <<fc, faults, svc, connVars, screen>>

-----------------------------------------------------------------------------
(* The clock                                                               *)

ServiceWaits ==
    CASE svc.unit = "wait" -> svc.down < RestartSec
      [] At("sleep") -> ~svc.slept /\ ~svc.stop
      [] At("accept") -> ~svc.slept /\ queue = <<>>
      [] At("send") -> client = "live" /\ ~Room
      [] OTHER -> FALSE

RendererWaits ==
    CASE rend.state = "up" -> rend.polls = Polls /\ rend.checked
      [] rend.state = "hung" -> rend.silent < WatchdogSec
      [] OTHER -> rend.down < RestartSec

Older(age, cap) == IF age = None THEN None ELSE Min({age + 1, cap})

(* Mutant of RendererSilent: a thread of its own notifies the watchdog.    *)
RendererSilentThread ==
    IF rend.state # "wait" /\ rend.silent + 1 >= NotifyEvery THEN 0
    ELSE rend.silent + 1

(* The watchdog_cb timer of the renderer is due every NotifyEvery seconds. *)
RendererSilent ==
    IF rend.state = "up" /\ rend.silent + 1 >= NotifyEvery THEN 0
    ELSE rend.silent + 1

Tick ==
    /\ ServiceWaits /\ RendererWaits
    /\ svc.silent < WatchdogSec
    /\ svc' = IF svc.unit = "wait" THEN [svc EXCEPT !.down = @ + 1]
              ELSE [svc EXCEPT !.slept = TRUE, !.hb = Older(@, HbCap),
                               !.silent = @ + 1,
                               !.snap = IF svc.pc = "sleep" THEN 0 ELSE Older(@, AgeCap)]
    /\ stream' = [i \in DOMAIN stream |-> Older(stream[i], AgeCap)]
    /\ rend' = IF rend.state = "wait" THEN [rend EXCEPT !.down = @ + 1]
               ELSE [rend EXCEPT !.silent = RendererSilent, !.polls = 0,
                                 !.checked = FALSE]
    /\ screen' = [screen EXCEPT !.fresh = Older(@, Threshold + 1),
                                !.shown = Older(@, AgeCap)]
    /\ fc' \in BOOLEAN \* the autopilot, or MAVProxy, comes or goes
    /\ UNCHANGED <<faults, client, queue, got, sock>>

ServiceStep ==
    Top \/ Accept \/ AcceptTimeout \/ Send \/ SendFails \/ Sleep \/ Exit
        \/ Killed \/ Starts
RendererStep ==
    Backoff \/ TryConnect \/ Disconnect \/ Receive \/ StalenessCb
        \/ RendererKilled \/ RendererStarts
Faults ==
    ReaderDies \/ Crashes \/ Restart \/ SlamServiceEnds \/ Hangs \/ RendererCrashes

Next ==
    Heartbeat \/ ServiceStep \/ RendererStep \/ Recovers \/ Faults \/ Tick

(* The loops of both processes go on, systemd restarts what has ended, and *)
(* a heartbeat that comes is read.                                         *)
Spec ==
    /\ Init /\ [][Next]_vars
    /\ WF_vars(ServiceStep) /\ WF_vars(RendererStep) /\ WF_vars(Heartbeat)
    /\ WF_vars(Tick)

-----------------------------------------------------------------------------
TypeOK ==
    /\ fc \in BOOLEAN /\ faults \in 0 .. MaxFaults
    /\ svc \in Service /\ rend \in Renderer /\ screen \in Screen
    /\ client \in {"none", "live", "dead"}
    /\ queue \in Seq({"live", "dead"}) /\ Len(queue) <= Backlog
    /\ sock \in {"none", "open", "eof"}
    /\ stream \in Seq(0 .. AgeCap) /\ got \in 0 .. RecvBuf

(* Telemetry the service once had is never pushed for longer than the      *)
(* staleness and a watchdog time after its last heartbeat: "kiosk-data     *)
(* must detect total MAVLink data blackout and allow watchdog restart"     *)
(* (docs/plans/026-jetson-startup-pixhawk-reinit.md:92).                   *)
BlackoutIsLeft == svc.hb <= Staleness + WatchdogSec

(* The watchdog of the data service strikes only when telemetry was there  *)
(* and has gone, or is back for not more than the two seconds a turn of    *)
(* the loop can take (accept, then sleep): an autopilot that is silent     *)
(* from the start does not get it killed again and again ("suppressing     *)
(* watchdog from the very first iteration would cause an immediate restart *)
(* loop", docs/plans/026-jetson-startup-pixhawk-reinit.md:41).             *)
KilledOnlyInBlackout ==
    svc.silent >= WatchdogSec => svc.hb \in (0 .. 2) \cup (Staleness .. HbCap)

(* sendall never blocks the loop, which would starve the watchdog: before  *)
(* the socket is full, systemd has killed the renderer that does not read, *)
(* however it recovers and hangs again (up to MaxFaults times).            *)
NeverBlocked == At("send") /\ client = "live" => Room

(* What is on the screen without a mark ("CONNECTING" or "DATA STALE") is  *)
(* never older than the threshold and a watchdog time for each fault.  The *)
(* renderer dates a frame by its arrival: a frame may have waited while it *)
(* hung, and behind others that did, each time for less than WatchdogSec.  *)
OldIsMarked ==
    rend.polls = Polls /\ rend.checked =>
        screen.overlay \/ screen.stale \/ screen.shown <= OldAge

(* New frames keep coming to the screen, whoever crashes, hangs or is      *)
(* restarted -- unless the SLAM service has removed the socket file.       *)
FramesFlow == []<>(screen.shown \in {0, 1}) \/ <>[](~svc.path)

(* Telemetry comes back when the autopilot does, unless the reader thread  *)
(* has ended before its first heartbeat: last_heartbeat_epoch stays 0.0,   *)
(* and the watchdog is notified for ever.                                  *)
TelemetryHeals ==
    <>[]fc => \/ []<>(svc.hb = 0)
              \/ <>[](svc.reader = "dead" /\ svc.hb = None)

(* A frame that is drawn can be seen: "Hide connecting overlay on first    *)
(* valid frame" (contrib/lvgl_kiosk/src/dashboard.c:480), "data reconnects *)
(* transparently" (docs/plans/024-lvgl-kiosk-dashboard-migration.md:47).   *)
DrawnIsVisible == [][screen'.fresh = 0 /\ screen.fresh # 0 => ~screen'.overlay]_vars
=============================================================================
