----------------------------- MODULE KioskProofs -----------------------------
(***************************************************************************)
(* The safety of the kiosk for every choice of its times and sizes, every  *)
(* number of faults, and every order of the two processes' steps.          *)
(***************************************************************************)
EXTENDS Kiosk, TLAPS

-----------------------------------------------------------------------------
(* The watchdog of the data service                                        *)

(* Seconds that can have passed since the loop was last at its top: one in *)
(* accept and one in the sleep behind a frame.                             *)
Turn ==
    IF svc.pc = "top" THEN 2
    ELSE (IF svc.pc = "accept" THEN 0 ELSE 1)
           + (IF svc.pc # "send" /\ svc.slept = TRUE THEN 1 ELSE 0)

(* A heartbeat that is stale has been so for as long as the watchdog was   *)
(* not notified.                                                           *)
StaleIsSilent == svc.hb <= Staleness + svc.silent

(* The watchdog waits for one turn of the loop, unless the heartbeats have *)
(* stopped, or have only come back in this turn.                           *)
SilentForATurn ==
    svc.silent <= Turn \/ svc.hb \in 0 .. Turn \/ svc.hb >= Staleness

-----------------------------------------------------------------------------
(* The connection                                                          *)

LiveAt(i) == i \in DOMAIN queue /\ queue[i] = "live"

(* The renderer has at most one connection, and while it is not accepted,  *)
(* nothing has been sent on it.                                            *)
Connected ==
    /\ client = "live" => sock = "open" /\ \A i \in DOMAIN queue : ~LiveAt(i)
    /\ \A i, j \in DOMAIN queue : LiveAt(i) /\ LiveAt(j) => i = j
    /\ \A i \in DOMAIN queue : LiveAt(i) => sock = "open" /\ stream = <<>>
    /\ sock = "none" => stream = <<>>

(* A snapshot is new, or the loop has waited in accept with it; the first  *)
(* frame of a connection is then in hand.                                  *)
SnapshotIsNew ==
    /\ svc.pc = "accept" =>
         client = "none" /\ svc.snap <= 1 /\ (svc.slept \/ svc.snap = 0)
    /\ svc.pc = "send" => svc.snap = 0 \/ (svc.snap = 1 /\ stream = <<>>)
                            \/ (svc.snap = 1 /\ client # "live")

-----------------------------------------------------------------------------
(* The frames under way                                                    *)

(* Seconds the renderer can have been hanging so far.                      *)
Hung ==
    IF rend.state = "hung" THEN WatchdogSec * (faults - 1) + rend.silent
    ELSE WatchdogSec * faults

(* The service cannot send another frame in this second.                   *)
Spent ==
    \/ svc.unit = "wait" /\ svc.down = 0
    \/ /\ svc.unit = "up"
       /\ \/ svc.pc = "sleep" /\ ~svc.slept
          \/ svc.pc \in {"top", "sleep"} /\ svc.stop

SpentOne == IF Spent THEN 1 ELSE 0
PolledOne == IF rend.polls = 0 THEN 0 ELSE 1

(* A renderer that is being restarted is connected to nothing.             *)
Waiting ==
    rend.state = "wait" => sock = "none" /\ rend.polls = 0 /\ rend.checked = FALSE

(* One frame a second comes and, unless the renderer hangs, one goes.      *)
FewFrames ==
    /\ rend.state = "hung" => faults >= 1
    /\ Len(stream) <= Hung + 1 + SpentOne - PolledOne

(* The n-th frame is taken out after n more seconds, hangs apart.          *)
YoungFrames ==
    \A i \in DOMAIN stream : stream[i] + i <= Hung + 3 - PolledOne

-----------------------------------------------------------------------------
(* The screen                                                              *)

Oldest == WatchdogSec * MaxFaults + 2

(* The frame shown was not older than a watchdog time for each fault when  *)
(* it came.                                                                *)
ArrivedInTime ==
    IF screen.fresh = None THEN screen.shown = None
    ELSE screen.shown <= screen.fresh + Oldest

(* staleness_cb has marked a screen that nothing came for.                 *)
Marked ==
    rend.checked = TRUE =>
        screen.overlay = TRUE \/ screen.stale = TRUE \/ screen.fresh <= Threshold

IInv ==
    /\ TypeOK /\ StaleIsSilent /\ SilentForATurn
    /\ Connected /\ SnapshotIsNew /\ Waiting /\ FewFrames /\ YoungFrames
    /\ ArrivedInTime /\ Marked

-----------------------------------------------------------------------------
(* The constants, and the helpers of the model                             *)

LEMMA Sizes ==
    /\ Staleness \in Nat /\ Staleness >= 1 /\ RestartSec \in Nat /\ RestartSec >= 1
    /\ Threshold \in Nat /\ Threshold >= 1 /\ Polls \in Nat /\ Polls >= 1
    /\ NotifyEvery \in Nat /\ NotifyEvery >= 1 /\ NotifyEvery < WatchdogSec
    /\ WatchdogSec \in Nat /\ WatchdogSec > 2
    /\ BackoffMin \in Nat /\ BackoffMin >= 1
    /\ BackoffMax \in Nat /\ BackoffMin <= BackoffMax
    /\ FrameSize \in Nat /\ FrameSize >= 1 /\ RecvBuf \in Nat /\ FrameSize <= RecvBuf
    /\ MaxFaults \in Nat /\ SocketBuf \in Nat
  BY KioskAssumption

LEMMA MinOfTwo ==
    ASSUME NEW a \in Int, NEW b \in Int
    PROVE  Min({a, b}) = IF a <= b THEN a ELSE b
<1>1. \E x \in {a, b} : \A y \in {a, b} : x <= y
  OBVIOUS
<1>2. Min({a, b}) \in {a, b} /\ \A y \in {a, b} : Min({a, b}) <= y
  BY <1>1 DEF Min
<1> QED
  BY <1>2

LEMMA Product ==
    ASSUME NEW a \in Nat, NEW b \in Nat, NEW c \in Nat, b <= c
    PROVE  a * b <= a * c /\ a * b \in Nat
  OBVIOUS

LEMMA Distribute ==
    ASSUME NEW a \in Nat, NEW b \in Int
    PROVE  a * (b - 1) = a * b - a /\ a * (b + 1) = a * b + a /\ a * b \in Int
           /\ b >= 0 => a * b \in Nat
<1>1. a * (b - 1) = a * b - a /\ a * (b + 1) = a * b + a /\ a * b \in Int
  OBVIOUS
<1>2. b >= 0 => a * b >= 0
  OBVIOUS
<1> QED
  BY <1>1, <1>2

LEMMA Caps ==
    /\ Oldest \in Nat /\ AgeCap = Threshold + Oldest + 1 /\ OldAge = Threshold + Oldest
    /\ HbCap = Staleness + WatchdogSec + 1
<1>1. WatchdogSec * MaxFaults \in Nat
  BY Sizes, Product
<1> QED
  BY <1>1, Sizes DEF Oldest, AgeCap, OldAge, HbCap

LEMMA OlderType ==
    ASSUME NEW cap \in Nat, NEW age \in None .. cap
    PROVE  /\ Older(age, cap) \in None .. cap
           /\ age # None => Older(age, cap) \in 0 .. age + 1
           /\ age # None /\ age < cap => Older(age, cap) = age + 1
           /\ Older(age, cap) = None <=> age = None
           /\ age = cap => Older(age, cap) = cap
  BY MinOfTwo DEF Older, None

LEMMA InitTypeOK == Init => TypeOK
<1> SUFFICES ASSUME Init PROVE TypeOK
  OBVIOUS
<1>1. svc \in Service
  BY Sizes, Caps DEF Init, NewService, Service, None
<1>2. rend \in Renderer
  BY Sizes DEF Init, NewRenderer, Renderer
<1>3. screen \in Screen
  BY Sizes, Caps DEF Init, NewScreen, Screen, None
<1> QED
  BY <1>1, <1>2, <1>3, Sizes DEF Init, TypeOK, Backlog

-----------------------------------------------------------------------------
(* Types                                                                   *)

LEMMA ServiceTypes ==
    ASSUME TypeOK, [Next]_vars
    PROVE  svc' \in Service
<1>0. svc \in Service
  BY DEF TypeOK
<1>a. 0 \in None .. HbCap /\ 0 \in 0 .. AgeCap /\ 0 \in 0 .. WatchdogSec
      /\ 0 \in 0 .. RestartSec /\ None \in None .. HbCap
  BY Sizes, Caps DEF None
<1>1. ASSUME NEW place \in {"top", "accept", "send", "sleep"}, Goes(place)
      PROVE  svc' \in Service
  BY <1>0, <1>a, <1>1 DEF Goes, Service
<1>2. CASE Heartbeat
  BY <1>0, <1>a, <1>2 DEF Heartbeat, Service
<1>3. CASE ReaderDies
  BY <1>0, <1>3 DEF ReaderDies, Service
<1>4. CASE Top
  BY <1>0, <1>a, <1>4 DEF Top, Service
<1>5. CASE Accept \/ AcceptTimeout \/ Send \/ SendFails \/ Sleep
  BY <1>1, <1>5 DEF Accept, AcceptTimeout, Send, SendFails, Sleep
<1>6. CASE Ends
  BY <1>a, <1>6 DEF Ends, NewService, Service
<1>7. CASE Starts
  BY <1>a, <1>7 DEF Starts, NewService, Service
<1>8. CASE Restart
  BY <1>0, <1>8 DEF Restart, Service
<1>9. CASE SlamServiceEnds
  BY <1>0, <1>9 DEF SlamServiceEnds, Service
<1>10. CASE Tick
  <2>1. CASE svc.unit = "wait"
    <3>1. svc.down \in 0 .. RestartSec /\ svc.down < RestartSec
      BY <1>0, <1>10, <2>1 DEF Tick, ServiceWaits, At, Service
    <3>2. svc.down + 1 \in 0 .. RestartSec
      BY <3>1, Sizes
    <3> QED
      BY <1>0, <1>10, <2>1, <3>2 DEF Tick, Service
  <2>2. CASE svc.unit # "wait"
    <3> DEFINE s == svc.silent + 1
               h == Older(svc.hb, HbCap)
               n == IF svc.pc = "sleep" THEN 0 ELSE Older(svc.snap, AgeCap)
    <3>1. svc' = [svc EXCEPT !.slept = TRUE, !.hb = h, !.silent = s, !.snap = n]
      BY <1>10, <2>2 DEF Tick
    <3>2. svc.hb \in None .. HbCap /\ svc.snap \in 0 .. AgeCap /\ svc.silent \in 0 .. WatchdogSec
      BY <1>0 DEF Service
    <3>3. h \in None .. HbCap
      BY <3>2, OlderType, Caps, Sizes
    <3>4. n \in 0 .. AgeCap
      <4>1. svc.snap \in None .. AgeCap /\ svc.snap # None /\ AgeCap \in Nat
        BY <3>2, Caps, Sizes DEF None
      <4>2. Older(svc.snap, AgeCap) \in None .. AgeCap /\ Older(svc.snap, AgeCap) # None
        BY <4>1, OlderType
      <4> QED
        BY <1>a, <4>2 DEF None
    <3>5. s \in 0 .. WatchdogSec
      BY <1>10, <3>2, Sizes DEF Tick
    <3> HIDE DEF s, h, n
    <3> QED
      BY <1>0, <3>1, <3>3, <3>4, <3>5 DEF Service
  <2> QED
    BY <2>1, <2>2
<1>11. CASE UNCHANGED svc
  BY <1>0, <1>11
<1> QED
  BY <1>2, <1>3, <1>4, <1>5, <1>6, <1>7, <1>8, <1>9, <1>10, <1>11
     DEF Next, vars, ServiceStep, RendererStep, Faults, Exit, Killed, Crashes, Backoff,
         TryConnect, Disconnect, Receive, StalenessCb, RendererKilled, RendererStarts,
         Recovers, Hangs, RendererCrashes, RendererEnds

LEMMA RendererTypes ==
    ASSUME TypeOK, [Next]_vars
    PROVE  rend' \in Renderer
<1>0. rend \in Renderer
  BY DEF TypeOK
<1>1. ASSUME Polling PROVE Polled \in Renderer /\ Polled.interval = rend.interval
  <2>1. /\ rend.polls \in 0 .. Polls /\ rend.polls < Polls
        /\ rend.waited \in 0 .. BackoffMax /\ rend.interval \in BackoffMin .. BackoffMax
    BY <1>0, <1>1 DEF Polling, Renderer
  <2>2. /\ rend.polls + 1 \in 0 .. Polls
        /\ Min({rend.waited + 1, rend.interval}) \in 0 .. BackoffMax
    BY <2>1, MinOfTwo, Sizes
  <2> QED
    BY <1>0, <2>2 DEF Polled, Renderer
<1>2. CASE Backoff \/ Disconnect \/ Receive
  BY <1>1, <1>2 DEF Backoff, Disconnect, Receive
<1>3. CASE TryConnect
  <2>1. rend.interval \in BackoffMin .. BackoffMax
    BY <1>0 DEF Renderer
  <2>2. /\ NextInterval \in BackoffMin .. BackoffMax /\ BackoffMin \in BackoffMin .. BackoffMax
        /\ 0 \in 0 .. BackoffMax
    BY <2>1, MinOfTwo, Sizes DEF NextInterval
  <2>3. Polled \in Renderer
    BY <1>1, <1>3 DEF TryConnect
  <2>4. \/ rend' = [Polled EXCEPT !.waited = 0, !.interval = BackoffMin]
        \/ rend' = [Polled EXCEPT !.waited = 0, !.interval = NextInterval]
    BY <1>3 DEF TryConnect
  <2> QED
    BY <2>2, <2>3, <2>4 DEF Renderer
<1>4. CASE StalenessCb \/ Hangs \/ Recovers
  BY <1>0, <1>4 DEF StalenessCb, Hangs, Recovers, Renderer
<1>5. CASE RendererEnds \/ RendererStarts
  <2>1. /\ BackoffMin \in BackoffMin .. BackoffMax /\ BackoffMin \in 0 .. BackoffMax
        /\ 0 \in 0 .. RestartSec /\ 0 \in 0 .. WatchdogSec /\ 0 \in 0 .. Polls
    BY Sizes
  <2>2. NewRenderer \in Renderer
    BY <2>1 DEF NewRenderer, Renderer
  <2>3. [NewRenderer EXCEPT !.state = "wait"] \in Renderer
    BY <2>2 DEF Renderer
  <2> QED
    BY <1>5, <2>2, <2>3 DEF RendererEnds, RendererStarts
<1>6. CASE Tick
  <2>1. /\ rend.down \in 0 .. RestartSec /\ rend.silent \in 0 .. WatchdogSec
        /\ rend.state \in {"up", "hung", "wait"}
    BY <1>0 DEF Renderer
  <2>2. CASE rend.state = "wait"
    <3>1. rend.down < RestartSec
      BY <1>6, <2>2 DEF Tick, RendererWaits
    <3>2. rend.down + 1 \in 0 .. RestartSec
      BY <2>1, <3>1, Sizes
    <3> QED
      BY <1>0, <1>6, <2>2, <3>2 DEF Tick, Renderer
  <2>3. CASE rend.state # "wait"
    <3>1. rend.state = "hung" => rend.silent < WatchdogSec
      BY <1>6 DEF Tick, RendererWaits
    <3>2. RendererSilent \in 0 .. WatchdogSec /\ 0 \in 0 .. Polls
      BY <2>1, <2>3, <3>1, Sizes DEF RendererSilent
    <3> QED
      BY <1>0, <1>6, <2>3, <3>2 DEF Tick, Renderer
  <2> QED
    BY <2>2, <2>3
<1>7. CASE UNCHANGED rend
  BY <1>0, <1>7
<1> QED
  BY <1>2, <1>3, <1>4, <1>5, <1>6, <1>7
     DEF Next, vars, ServiceStep, RendererStep, Faults, Heartbeat, ReaderDies, Top, Accept,
         AcceptTimeout, Send, SendFails, Sleep, Exit, Killed, Crashes, Ends, Starts, Restart,
         SlamServiceEnds, RendererKilled, RendererCrashes

(* A poll finds a whole frame exactly when one is under way.               *)
LEMMA FrameIsWhole ==
    ASSUME TypeOK
    PROVE  /\ Received \in 0 .. RecvBuf
           /\ FrameComplete <=> stream # <<>>
<1>1. stream \in Seq(0 .. AgeCap) /\ Len(stream) \in Nat
  BY DEF TypeOK
<1>2. FrameSize * Len(stream) \in Nat /\ FrameSize * 0 = 0
  BY <1>1, Product, Sizes
<1>3. stream # <<>> => Len(stream) >= 1
  BY <1>1
<1>4. stream # <<>> => FrameSize * 1 <= FrameSize * Len(stream)
  BY <1>1, <1>3, Product, Sizes
<1>5. stream = <<>> => FrameSize * Len(stream) = 0
  BY <1>2
<1>6. Received = IF RecvBuf <= FrameSize * Len(stream) THEN RecvBuf ELSE FrameSize * Len(stream)
  BY <1>2, MinOfTwo, Sizes DEF Received
<1> QED
  BY <1>2, <1>4, <1>5, <1>6, Sizes DEF FrameComplete

LEMMA ScreenTypes ==
    ASSUME TypeOK, [Next]_vars
    PROVE  screen' \in Screen
<1>0. screen \in Screen
  BY DEF TypeOK
<1>1. CASE Receive
  <2>1. CASE FrameComplete
    <3>1. stream # <<>> /\ stream \in Seq(0 .. AgeCap)
      BY <2>1, FrameIsWhole DEF TypeOK
    <3>2. Head(stream) \in None .. AgeCap /\ 0 \in None .. Threshold + 1
      BY <3>1, Sizes, Caps DEF None
    <3>3. screen' = [screen EXCEPT !.fresh = 0, !.shown = Head(stream), !.first = TRUE,
                                   !.overlay = @ /\ screen.first]
      BY <1>1, <2>1 DEF Receive, Updated
    <3>4. (screen.overlay /\ screen.first) \in BOOLEAN
      BY Zenon
    <3> QED
      BY <1>0, <3>2, <3>3, <3>4 DEF Screen
  <2>2. CASE ~FrameComplete
    BY <1>0, <1>1, <2>2 DEF Receive
  <2> QED
    BY <2>1, <2>2
<1>2. CASE StalenessCb
  <2>1. ASSUME NEW b \in BOOLEAN
        PROVE  [screen EXCEPT !.overlay = b] \in Screen /\ [screen EXCEPT !.stale = b] \in Screen
    BY <1>0, <2>1 DEF Screen
  <2>2. (screen.fresh > Threshold) \in BOOLEAN /\ TRUE \in BOOLEAN
    <3>1. screen.fresh \in Int /\ Threshold \in Int
      BY <1>0, Sizes DEF Screen, None
    <3> QED
      BY <3>1
  <2>3. \/ screen' = [screen EXCEPT !.overlay = TRUE] \/ screen' = screen
        \/ screen' = [screen EXCEPT !.stale = (screen.fresh > Threshold)]
    BY <1>2, Zenon DEF StalenessCb
  <2> QED
    BY <1>0, <2>1, <2>2, <2>3
<1>3. CASE RendererEnds
  BY <1>3, Sizes, Caps DEF RendererEnds, NewScreen, Screen, None
<1>4. CASE Tick
  <2>1. screen.fresh \in None .. Threshold + 1 /\ screen.shown \in None .. AgeCap
    BY <1>0 DEF Screen
  <2>2. Older(screen.fresh, Threshold + 1) \in None .. Threshold + 1
    BY <2>1, OlderType, Sizes
  <2>3. Older(screen.shown, AgeCap) \in None .. AgeCap
    BY <2>1, OlderType, Sizes, Caps
  <2> QED
    BY <1>0, <1>4, <2>2, <2>3 DEF Tick, Screen
<1>5. CASE UNCHANGED screen
  BY <1>0, <1>5
<1> QED
  BY <1>1, <1>2, <1>3, <1>4, <1>5
     DEF Next, vars, ServiceStep, RendererStep, Faults, Heartbeat, ReaderDies, Top, Accept,
         AcceptTimeout, Send, SendFails, Sleep, Exit, Killed, Crashes, Ends, Starts, Restart,
         SlamServiceEnds, Backoff, TryConnect, Disconnect, RendererKilled, RendererStarts,
         Recovers, Hangs, RendererCrashes

(* The connections a renderer leaves behind.                               *)
LEMMA HangupTypes ==
    ASSUME TypeOK, Hangup
    PROVE  /\ client' \in {"none", "dead"} /\ (client' = "none" <=> client = "none")
           /\ queue' \in Seq({"live", "dead"}) /\ Len(queue') = Len(queue)
           /\ \A i \in DOMAIN queue' : queue'[i] # "live"
           /\ sock' = "none" /\ stream' = <<>> /\ got' = 0
<1>1. queue \in Seq({"live", "dead"}) /\ client \in {"none", "live", "dead"}
  BY DEF TypeOK
<1> QED
  BY <1>1 DEF Hangup, Dead

(* The frames under way have their ages.                                   *)
LEMMA TickStream ==
    ASSUME TypeOK, Tick
    PROVE  /\ stream' \in Seq(0 .. AgeCap) /\ Len(stream') = Len(stream)
           /\ \A i \in DOMAIN stream : i \in DOMAIN stream' /\ stream'[i] \in 0 .. stream[i] + 1
<1>1. stream \in Seq(0 .. AgeCap) /\ AgeCap \in Nat
  BY Caps, Sizes DEF TypeOK
<1>2. \A i \in DOMAIN stream : stream[i] \in 0 .. AgeCap
  BY <1>1
<1>3. \A a \in 0 .. AgeCap : Older(a, AgeCap) \in 0 .. AgeCap /\ Older(a, AgeCap) <= a + 1
  <2> TAKE a \in 0 .. AgeCap
  <2>1. a \in None .. AgeCap /\ a # None
    BY <1>1 DEF None
  <2> QED
    <3>1. Older(a, AgeCap) \in None .. AgeCap /\ Older(a, AgeCap) \in 0 .. a + 1
      BY <1>1, <2>1, OlderType
    <3> QED
      BY <1>1, <3>1 DEF None
<1>4. stream' = [i \in DOMAIN stream |-> Older(stream[i], AgeCap)]
  BY DEF Tick
<1>5. stream' \in Seq(0 .. AgeCap) /\ Len(stream') = Len(stream) /\ DOMAIN stream' = DOMAIN stream
  <2>1. \A i \in DOMAIN stream : Older(stream[i], AgeCap) \in 0 .. AgeCap
    BY <1>2, <1>3
  <2> DEFINE S == 0 .. AgeCap
  <2>2. stream \in Seq(S) /\ \A i \in DOMAIN stream : Older(stream[i], AgeCap) \in S
    BY <1>1, <2>1
  <2> HIDE DEF S
  <2>3. stream' \in Seq(S) /\ Len(stream') = Len(stream) /\ DOMAIN stream' = DOMAIN stream
    BY <1>4, <2>2
  <2> QED
    BY <2>3 DEF S
<1>6. \A i \in DOMAIN stream : stream'[i] \in 0 .. AgeCap /\ stream'[i] <= stream[i] + 1
  BY <1>2, <1>3, <1>4
<1> QED
  BY <1>1, <1>2, <1>5, <1>6

LEMMA ConnectionTypes ==
    ASSUME TypeOK, [Next]_vars
    PROVE  /\ client' \in {"none", "live", "dead"}
           /\ queue' \in Seq({"live", "dead"}) /\ Len(queue') <= Backlog
           /\ sock' \in {"none", "open", "eof"}
           /\ stream' \in Seq(0 .. AgeCap) /\ got' \in 0 .. RecvBuf
<1>0. /\ client \in {"none", "live", "dead"} /\ sock \in {"none", "open", "eof"}
      /\ queue \in Seq({"live", "dead"}) /\ Len(queue) <= Backlog
      /\ stream \in Seq(0 .. AgeCap) /\ got \in 0 .. RecvBuf
  BY DEF TypeOK
<1>1. CASE UNCHANGED connVars
  BY <1>0, <1>1 DEF connVars
<1>2. CASE Accept
  <2>1. /\ Head(queue) \in {"live", "dead"} /\ Tail(queue) \in Seq({"live", "dead"})
        /\ Len(Tail(queue)) <= Backlog
    BY <1>0, <1>2 DEF Accept, Backlog
  <2> QED
    BY <1>0, <1>2, <2>1 DEF Accept
<1>3. CASE Send
  <2>1. svc.snap \in 0 .. AgeCap
    BY DEF TypeOK, Service
  <2> QED
    BY <1>0, <1>3, <2>1 DEF Send
<1>4. CASE SendFails
  BY <1>0, <1>4 DEF SendFails
<1>5. CASE Ends
  BY <1>0, <1>5 DEF Ends, Backlog
<1>6. CASE Hangup
  BY <1>0, <1>6, HangupTypes, Sizes
<1>7. CASE TryConnect
  BY <1>0, <1>7 DEF TryConnect, Listening, Backlog
<1>8. CASE Receive
  <2>1. got' \in 0 .. RecvBuf
    BY <1>8, FrameIsWhole, Sizes DEF Receive, FrameComplete
  <2>2. stream' \in Seq(0 .. AgeCap)
    <3>1. stream # <<>> => Tail(stream) \in Seq(0 .. AgeCap)
      BY <1>0
    <3> QED
      BY <1>0, <1>8, <3>1, FrameIsWhole DEF Receive
  <2> QED
    BY <1>0, <1>8, <2>1, <2>2 DEF Receive
<1>9. CASE Tick
  BY <1>0, <1>9, TickStream DEF Tick
<1> QED
  BY <1>1, <1>2, <1>3, <1>4, <1>5, <1>6, <1>7, <1>8, <1>9
     DEF Next, vars, ServiceStep, RendererStep, Faults, Heartbeat, ReaderDies, Top,
         AcceptTimeout, Sleep, Exit, Killed, Crashes, Starts, Restart, SlamServiceEnds,
         Backoff, Disconnect, StalenessCb, RendererKilled, RendererStarts, Recovers, Hangs,
         RendererCrashes, RendererEnds

LEMMA FaultTypes ==
    ASSUME TypeOK, [Next]_vars
    PROVE  fc' \in BOOLEAN /\ faults' \in 0 .. MaxFaults /\ faults' \in {faults, faults + 1}
<1>0. fc \in BOOLEAN /\ faults \in 0 .. MaxFaults
  BY DEF TypeOK
<1>1. faults' = faults \/ Fault
  BY DEF Next, vars, ServiceStep, RendererStep, Faults, Heartbeat, ReaderDies, Top, Accept,
         AcceptTimeout, Send, SendFails, Sleep, Exit, Killed, Crashes, Starts, Restart,
         SlamServiceEnds, Backoff, TryConnect, Disconnect, Receive, StalenessCb,
         RendererKilled, RendererStarts, Recovers, Hangs, RendererCrashes, Tick, Works
<1>2. fc' = fc \/ fc' \in BOOLEAN
  BY DEF Next, vars, ServiceStep, RendererStep, Faults, Heartbeat, ReaderDies, Top, Accept,
         AcceptTimeout, Send, SendFails, Sleep, Exit, Killed, Crashes, Ends, Starts, Restart,
         SlamServiceEnds, Backoff, TryConnect, Disconnect, Receive, StalenessCb,
         RendererKilled, RendererStarts, Recovers, Hangs, RendererCrashes, RendererEnds, Tick
<1> QED
  BY <1>0, <1>1, <1>2, Sizes DEF Fault

LEMMA NextTypeOK == TypeOK /\ [Next]_vars => TypeOK'
<1> SUFFICES ASSUME TypeOK, [Next]_vars PROVE TypeOK'
  OBVIOUS
<1>1. svc' \in Service /\ rend' \in Renderer /\ screen' \in Screen
  BY ServiceTypes, RendererTypes, ScreenTypes
<1> QED
  BY <1>1, ConnectionTypes, FaultTypes DEF TypeOK

LEMMA ServiceFields ==
    ASSUME TypeOK
    PROVE  /\ svc.unit \in {"up", "wait"} /\ svc.down \in Nat
           /\ svc.pc \in {"top", "accept", "send", "sleep"}
           /\ svc.slept \in BOOLEAN /\ svc.stop \in BOOLEAN
           /\ svc.hb \in Int /\ svc.hb >= None /\ svc.hb <= HbCap
           /\ svc.silent \in Nat /\ svc.silent <= WatchdogSec /\ svc.snap \in Nat
<1>1. svc \in Service
  BY DEF TypeOK
<1>2. /\ svc.hb \in None .. HbCap /\ svc.silent \in 0 .. WatchdogSec
      /\ svc.snap \in 0 .. AgeCap /\ svc.down \in 0 .. RestartSec
  BY <1>1 DEF Service
<1>3. /\ svc.unit \in {"up", "wait"} /\ svc.pc \in {"top", "accept", "send", "sleep"}
      /\ svc.slept \in BOOLEAN /\ svc.stop \in BOOLEAN
  BY <1>1 DEF Service
<1> QED
  BY <1>2, <1>3, Sizes, Caps DEF None

LEMMA RendererFields ==
    ASSUME TypeOK
    PROVE  /\ rend.state \in {"up", "hung", "wait"} /\ rend.polls \in 0 .. Polls
           /\ rend.silent \in 0 .. WatchdogSec /\ rend.checked \in BOOLEAN
  BY DEF TypeOK, Renderer

-----------------------------------------------------------------------------
(* The socket is never full                                                *)

LEMMA HungType ==
    ASSUME TypeOK, rend.state = "hung" => faults >= 1
    PROVE  Hung \in Nat /\ Hung <= WatchdogSec * MaxFaults
<1>1. faults \in Nat /\ faults <= MaxFaults
  BY Sizes DEF TypeOK
<1>2. WatchdogSec * faults \in Nat /\ WatchdogSec * faults <= WatchdogSec * MaxFaults
  BY <1>1, Product, Sizes
<1>3. CASE rend.state = "hung"
  <2>1. faults - 1 \in Nat
    BY <1>1, <1>3
  <2>2. WatchdogSec * (faults - 1) \in Nat
    BY <2>1, Product, Sizes
  <2>3. WatchdogSec * (faults - 1) = WatchdogSec * faults - WatchdogSec
    BY <1>1, Sizes
  <2>4. rend.silent \in Nat /\ rend.silent <= WatchdogSec
    BY RendererFields, Sizes
  <2>5. Hung = WatchdogSec * (faults - 1) + rend.silent
    BY <1>3 DEF Hung
  <2>6. WatchdogSec * MaxFaults \in Nat
    BY Product, Sizes
  <2> QED
    BY <1>2, <2>2, <2>3, <2>4, <2>5, <2>6, Sizes
<1> QED
  BY <1>2, <1>3 DEF Hung

(* sendall finds room.                                                     *)
LEMMA HasRoom ==
    ASSUME TypeOK, FewFrames, At("send")
    PROVE  Room
<1>1. SpentOne = 0 /\ PolledOne \in {0, 1}
  BY DEF SpentOne, PolledOne, Spent, At
<1>2. Hung \in Nat /\ Hung <= WatchdogSec * MaxFaults /\ WatchdogSec * MaxFaults \in Nat
  BY HungType, Product, Sizes DEF FewFrames
<1>3. Len(stream) \in Nat /\ got \in Nat
  BY Sizes DEF TypeOK
<1>4. Len(stream) + 1 <= WatchdogSec * MaxFaults + 2
  BY <1>1, <1>2, <1>3 DEF FewFrames
<1>5. /\ FrameSize * (Len(stream) + 1) <= FrameSize * (WatchdogSec * MaxFaults + 2)
      /\ FrameSize * (Len(stream) + 1) \in Nat
  <2> DEFINE n == WatchdogSec * MaxFaults + 2
             m == Len(stream) + 1
  <2>1. n \in Nat /\ m \in Nat /\ m <= n
    BY <1>2, <1>3, <1>4
  <2> HIDE DEF n, m
  <2>2. FrameSize * m <= FrameSize * n /\ FrameSize * m \in Nat
    BY <2>1, Product, Sizes
  <2> QED
    BY <2>2 DEF n, m
<1> DEFINE full == FrameSize * (WatchdogSec * MaxFaults + 2)
           need == FrameSize * (Len(stream) + 1)
<1>6. full \in Nat /\ full <= SocketBuf /\ SocketBuf \in Nat
  <2>1. WatchdogSec * MaxFaults + 2 \in Nat
    BY <1>2
  <2> QED
    BY <2>1, Distribute, KioskAssumption
<1>7. need \in Nat /\ need <= full
  BY <1>5
<1> HIDE DEF full, need
<1>8. need - got <= SocketBuf
  BY <1>3, <1>6, <1>7
<1> QED
  BY <1>8 DEF Room, need

(* The second is over for the service when it is being restarted, sleeps,  *)
(* or waits for a connection.                                              *)
LEMMA TickWaits ==
    ASSUME TypeOK, FewFrames, Tick
    PROVE  \/ svc.unit = "wait"
           \/ svc.unit = "up" /\ svc.pc = "sleep" /\ svc.slept = FALSE /\ svc.stop = FALSE
           \/ svc.unit = "up" /\ svc.pc = "accept" /\ svc.slept = FALSE
<1>1. ServiceWaits /\ svc.unit \in {"up", "wait"}
  BY ServiceFields DEF Tick
<1>2. CASE svc.unit = "wait"
  BY <1>2
<1>3. CASE svc.unit = "up"
  <2>1. CASE svc.pc = "top" \/ svc.pc = "send"
    BY <1>1, <1>3, <2>1, HasRoom DEF ServiceWaits, At
  <2>2. CASE svc.pc = "sleep" \/ svc.pc = "accept"
    <3>1. ~svc.slept /\ (svc.pc = "sleep" => ~svc.stop)
      BY <1>1, <1>3, <2>2 DEF ServiceWaits, At
    <3>2. svc.slept \in BOOLEAN /\ svc.stop \in BOOLEAN
      BY ServiceFields
    <3> QED
      BY <1>3, <2>2, <3>1, <3>2
  <2> QED
    BY <2>1, <2>2, ServiceFields
<1> QED
  BY <1>1, <1>2, <1>3

(* How the watchdog and the heartbeat age.                                 *)
LEMMA TickService ==
    ASSUME TypeOK, Tick, svc.unit = "up"
    PROVE  /\ svc'.unit = "up" /\ svc'.pc = svc.pc /\ svc'.slept = TRUE /\ svc'.stop = svc.stop
           /\ svc'.silent = svc.silent + 1
           /\ svc.hb = None => svc'.hb = None
           /\ svc.hb # None => svc'.hb \in 0 .. svc.hb + 1
           /\ svc.hb >= Staleness => svc'.hb >= Staleness
           /\ svc'.snap \in 0 .. svc.snap + 1
<1>1. svc \in Service /\ svc.hb \in None .. HbCap /\ svc.snap \in 0 .. AgeCap
  BY DEF TypeOK, Service
<1>2. HbCap \in Nat /\ AgeCap \in Nat /\ HbCap > Staleness
  BY Caps, Sizes
<1>3. svc' = [svc EXCEPT !.slept = TRUE, !.hb = Older(svc.hb, HbCap),
                         !.silent = svc.silent + 1,
                         !.snap = IF svc.pc = "sleep" THEN 0 ELSE Older(svc.snap, AgeCap)]
  BY DEF Tick
<1>4. /\ svc'.unit = "up" /\ svc'.pc = svc.pc /\ svc'.slept = TRUE /\ svc'.stop = svc.stop
      /\ svc'.silent = svc.silent + 1 /\ svc'.hb = Older(svc.hb, HbCap)
      /\ svc'.snap = IF svc.pc = "sleep" THEN 0 ELSE Older(svc.snap, AgeCap)
  BY <1>1, <1>3 DEF Service
<1>5. /\ svc.hb = None => svc'.hb = None
      /\ svc.hb # None => svc'.hb \in 0 .. svc.hb + 1
      /\ svc.hb # None /\ svc.hb < HbCap => svc'.hb = svc.hb + 1
      /\ svc.hb = HbCap => svc'.hb = HbCap
  BY <1>1, <1>2, <1>4, OlderType
<1>6. svc.hb >= Staleness => svc'.hb >= Staleness
  BY <1>1, <1>2, <1>5, Sizes DEF None
<1>7. svc'.snap \in 0 .. svc.snap + 1
  <2>1. svc.snap \in None .. AgeCap /\ svc.snap # None
    BY <1>1, <1>2 DEF None
  <2>2. Older(svc.snap, AgeCap) \in 0 .. svc.snap + 1
    BY <1>2, <2>1, OlderType
  <2> QED
    BY <1>1, <1>4, <2>2
<1> QED
  BY <1>4, <1>5, <1>6, <1>7

-----------------------------------------------------------------------------
(* The steps of the data service, field by field                           *)

LEMMA GoesFields ==
    ASSUME TypeOK, NEW place, Goes(place)
    PROVE  /\ svc'.unit = svc.unit /\ svc'.down = svc.down /\ svc'.pc = place
           /\ svc'.slept = FALSE /\ svc'.stop = svc.stop
           /\ svc'.hb = svc.hb /\ svc'.silent = svc.silent
           /\ svc'.snap = IF place = "send" THEN svc.snap ELSE 0
<1>1. svc \in Service
  BY DEF TypeOK
<1> QED
  BY <1>1 DEF Goes, Service

LEMMA TopFields ==
    ASSUME TypeOK, Top
    PROVE  /\ svc.unit = "up" /\ svc.pc = "top" /\ svc.stop = FALSE
           /\ svc'.unit = svc.unit /\ svc'.slept = svc.slept /\ svc'.stop = svc.stop
           /\ svc'.hb = svc.hb /\ svc'.snap = 0
           /\ svc'.silent = IF ShouldNotify THEN 0 ELSE svc.silent
           /\ svc'.pc = IF client = "none" THEN "accept" ELSE "send"
<1>1. svc \in Service /\ svc.stop \in BOOLEAN
  BY DEF TypeOK, Service
<1>2. svc.stop = FALSE
  BY <1>1 DEF Top
<1> QED
  BY <1>1, <1>2 DEF Top, At, Service

(* A process that has ended, and a new one.                                *)
LEMMA NewFields ==
    ASSUME Ends \/ Starts
    PROVE  /\ svc'.pc = "top" /\ svc'.slept = FALSE /\ svc'.stop = FALSE /\ svc'.down = 0
           /\ svc'.hb = None /\ svc'.silent = 0 /\ svc'.snap = 0
           /\ svc'.unit = IF Ends THEN "wait" ELSE "up"
<1>1. CASE Ends
  BY <1>1 DEF Ends, NewService
<1>2. CASE ~Ends /\ Starts
  BY <1>2 DEF Starts, NewService
<1> QED
  BY <1>1, <1>2

(* The steps that only change what the loop does not look at, but for the  *)
(* heartbeat and the stop event.                                           *)
LEMMA AsideFields ==
    ASSUME TypeOK, Heartbeat \/ ReaderDies \/ Restart \/ SlamServiceEnds
    PROVE  /\ svc'.unit = svc.unit /\ svc'.down = svc.down /\ svc'.pc = svc.pc
           /\ svc'.slept = svc.slept /\ svc'.silent = svc.silent /\ svc'.snap = svc.snap
           /\ svc'.hb = svc.hb \/ svc'.hb = 0
           /\ svc'.stop = svc.stop \/ svc'.stop = TRUE
<1>1. svc \in Service
  BY DEF TypeOK
<1>2. CASE Heartbeat
  BY <1>1, <1>2 DEF Heartbeat, Service
<1>3. CASE ReaderDies
  BY <1>1, <1>3 DEF ReaderDies, Service
<1>4. CASE Restart
  BY <1>1, <1>4 DEF Restart, Service
<1>5. CASE SlamServiceEnds
  BY <1>1, <1>5 DEF SlamServiceEnds, Service
<1> QED
  BY <1>2, <1>3, <1>4, <1>5

(* Every step is one of these.                                             *)
LoopStep == Accept \/ AcceptTimeout \/ Send \/ SendFails \/ Sleep
AsideStep == Heartbeat \/ ReaderDies \/ Restart \/ SlamServiceEnds
DrawStep ==
    Backoff \/ TryConnect \/ Disconnect \/ Receive \/ StalenessCb \/ RendererEnds
        \/ RendererStarts \/ Recovers \/ Hangs

LEMMA StepKinds ==
    ASSUME [Next]_vars
    PROVE  \/ Top \/ LoopStep \/ Ends \/ Starts \/ AsideStep \/ DrawStep \/ Tick
           \/ UNCHANGED vars
  BY DEF Next, ServiceStep, RendererStep, Faults, LoopStep, AsideStep, DrawStep, Exit, Killed,
         Crashes, RendererKilled, RendererCrashes

LEMMA DrawKeepsService ==
    ASSUME DrawStep \/ UNCHANGED vars
    PROVE  UNCHANGED svc
  BY DEF DrawStep, vars, Backoff, TryConnect, Disconnect, Receive, StalenessCb, RendererEnds,
         RendererStarts, Recovers, Hangs

-----------------------------------------------------------------------------
(* The watchdog of the data service                                        *)

LEMMA NextWatchdog ==
    ASSUME TypeOK, FewFrames, StaleIsSilent, SilentForATurn, [Next]_vars
    PROVE  StaleIsSilent' /\ SilentForATurn'
<1> USE DEF StaleIsSilent, SilentForATurn, Turn
<1>0. /\ svc.hb \in Int /\ svc.hb >= None /\ svc.silent \in Nat /\ svc.slept \in BOOLEAN
      /\ svc.pc \in {"top", "accept", "send", "sleep"} /\ svc.unit \in {"up", "wait"}
  BY ServiceFields
<1>1. CASE Top
  BY <1>0, <1>1, TopFields, Sizes DEF ShouldNotify, None
<1>2. CASE LoopStep
  <2>1. CASE Accept
    <3>1. svc.pc = "accept" /\ svc.unit = "up" /\ Goes("send")
      BY <2>1 DEF Accept, At
    <3>2. /\ svc'.pc = "send" /\ svc'.hb = svc.hb /\ svc'.silent = svc.silent
          /\ svc'.unit = "up"
      BY <3>1, GoesFields
    <3> QED
      BY <1>0, <3>1, <3>2, Sizes
  <2>2. CASE Send
    <3>1. svc.pc = "send" /\ svc.unit = "up" /\ Goes("sleep")
      BY <2>2 DEF Send, At
    <3>2. /\ svc'.pc = "sleep" /\ svc'.hb = svc.hb /\ svc'.silent = svc.silent
          /\ svc'.unit = "up" /\ svc'.slept = FALSE
      BY <3>1, GoesFields
    <3> QED
      BY <1>0, <3>1, <3>2, Sizes
  <2>3. CASE AcceptTimeout \/ SendFails \/ Sleep
    <3>1. Goes("top") /\ svc.unit = "up"
      BY <2>3 DEF AcceptTimeout, SendFails, Sleep, At
    <3>2. /\ svc'.pc = "top" /\ svc'.hb = svc.hb /\ svc'.silent = svc.silent
      BY <3>1, GoesFields
    <3> QED
      BY <1>0, <3>1, <3>2, Sizes
  <2> QED
    BY <1>2, <2>1, <2>2, <2>3 DEF LoopStep
<1>3. CASE Ends \/ Starts
  <2>1. svc'.hb = None /\ svc'.silent = 0 /\ svc'.pc = "top"
    BY <1>3, NewFields
  <2> QED
    BY <2>1, Sizes DEF None
<1>4. CASE AsideStep
  <2>1. /\ svc'.unit = svc.unit /\ svc'.pc = svc.pc /\ svc'.slept = svc.slept
        /\ svc'.silent = svc.silent /\ (svc'.hb = svc.hb \/ svc'.hb = 0)
    BY <1>4, AsideFields DEF AsideStep
  <2> QED
    BY <1>0, <2>1, Sizes
<1>5. CASE Tick
  <2>1. CASE svc.unit = "wait"
    <3>1. /\ svc'.hb = svc.hb /\ svc'.silent = svc.silent
          /\ svc'.pc = svc.pc /\ svc'.slept = svc.slept
      BY <1>5, <2>1 DEF Tick, TypeOK, Service
    <3> QED
      BY <3>1
  <2>2. CASE svc.unit = "up"
    <3>1. svc.pc \in {"sleep", "accept"} /\ svc.slept = FALSE
      BY <1>5, <2>2, TickWaits
    <3>2. /\ svc'.unit = "up" /\ svc'.pc = svc.pc /\ svc'.slept = TRUE
          /\ svc'.silent = svc.silent + 1
          /\ svc.hb = None => svc'.hb = None
          /\ svc.hb # None => svc'.hb \in 0 .. svc.hb + 1
          /\ svc.hb >= Staleness => svc'.hb >= Staleness
      BY <1>5, <2>2, TickService
    <3>3. StaleIsSilent'
      BY <1>0, <3>2, Sizes DEF None
    <3>4. SilentForATurn'
      BY <1>0, <2>2, <3>1, <3>2, Sizes DEF None
    <3> QED
      BY <3>3, <3>4
  <2> QED
    BY <1>0, <2>1, <2>2
<1>6. CASE UNCHANGED svc
  BY <1>6
<1> QED
  BY <1>1, <1>2, <1>3, <1>4, <1>5, <1>6, StepKinds, DrawKeepsService

-----------------------------------------------------------------------------
(* The connection                                                          *)

LEMMA NextConnected ==
    ASSUME TypeOK, Connected, [Next]_vars
    PROVE  Connected'
<1> USE DEF Connected, LiveAt
<1>0. /\ queue \in Seq({"live", "dead"}) /\ Len(queue) \in Nat
      /\ stream \in Seq(0 .. AgeCap) /\ client \in {"none", "live", "dead"}
  BY DEF TypeOK
<1>1. CASE UNCHANGED connVars
  BY <1>1 DEF connVars
<1>2. CASE Accept
  <2>1. Len(queue') = Len(queue) - 1
    BY <1>0, <1>2 DEF Accept
  <2>2. \A i \in DOMAIN queue' : i + 1 \in DOMAIN queue /\ queue'[i] = queue[i + 1]
    BY <1>0, <1>2 DEF Accept
  <2>3. 1 \in DOMAIN queue /\ client' = queue[1]
    BY <1>0, <1>2 DEF Accept
  <2>4. DOMAIN queue' \subseteq Nat \ {0}
    BY <1>0, <1>2 DEF Accept
  <2>5. sock' = sock /\ stream' = stream
    BY <1>2 DEF Accept
  <2> QED
    BY <2>2, <2>3, <2>4, <2>5
<1>3. CASE Send
  BY <1>0, <1>3 DEF Send
<1>4. CASE SendFails
  BY <1>4 DEF SendFails
<1>5. CASE Ends
  BY <1>5 DEF Ends
<1>6. CASE Hangup
  BY <1>6, HangupTypes
<1>7. CASE TryConnect
  <2>1. CASE Listening
    <3>1. queue' = Append(queue, "live") /\ sock = "none" /\ sock' = "open"
          /\ client' = client /\ stream' = stream
      BY <1>7, <2>1 DEF TryConnect
    <3>2. \A i \in DOMAIN queue' :
            \/ i \in DOMAIN queue /\ queue'[i] = queue[i]
            \/ i = Len(queue) + 1
      BY <1>0, <3>1
    <3> QED
      BY <3>1, <3>2
  <2>2. CASE ~Listening
    BY <1>7, <2>2 DEF TryConnect
  <2> QED
    BY <2>1, <2>2
<1>8. CASE Receive
  BY <1>0, <1>8, FrameIsWhole DEF Receive
<1>9. CASE Tick
  <2>1. stream = <<>> => stream' = <<>>
    BY <1>0, <1>9, TickStream
  <2> QED
    BY <1>9, <2>1 DEF Tick
<1> QED
  BY <1>1, <1>2, <1>3, <1>4, <1>5, <1>6, <1>7, <1>8, <1>9, StepKinds
     DEF LoopStep, AsideStep, DrawStep, vars, Heartbeat, ReaderDies, Restart,
         SlamServiceEnds, Top, AcceptTimeout, Sleep, Starts, Backoff, Disconnect,
         StalenessCb, RendererEnds, RendererStarts, Recovers, Hangs

(* What the renderer does to the frames and the connection.                *)
LEMMA DrawConnection ==
    ASSUME TypeOK, DrawStep \/ UNCHANGED vars
    PROVE  /\ client' = client \/ (client # "none" /\ client' = "dead")
           /\ stream = <<>> => stream' = <<>>
<1>1. CASE Hangup
  BY <1>1, HangupTypes DEF TypeOK
<1>2. CASE Receive
  BY <1>2, FrameIsWhole DEF Receive
<1>3. CASE TryConnect
  BY <1>3 DEF TryConnect
<1>4. CASE UNCHANGED connVars
  BY <1>4 DEF connVars
<1> QED
  BY <1>1, <1>2, <1>3, <1>4
     DEF DrawStep, vars, Backoff, Disconnect, StalenessCb, RendererEnds, RendererStarts,
         Recovers, Hangs

LEMMA NextSnapshot ==
    ASSUME TypeOK, FewFrames, Connected, SnapshotIsNew, [Next]_vars
    PROVE  SnapshotIsNew'
<1> USE DEF SnapshotIsNew
<1>0. svc.snap \in Nat /\ svc.slept \in BOOLEAN /\ svc.unit \in {"up", "wait"}
  BY ServiceFields
<1>1. CASE Top
  <2>1. svc'.snap = 0 /\ svc'.pc = (IF client = "none" THEN "accept" ELSE "send")
    BY <1>1, TopFields
  <2>2. client' = client
    BY <1>1 DEF Top, connVars
  <2> QED
    BY <2>1, <2>2
<1>2. CASE Accept
  <2>1. /\ svc.pc = "accept" /\ Goes("send") /\ client' = Head(queue) /\ stream' = stream
        /\ queue # <<>> /\ queue \in Seq({"live", "dead"})
    BY <1>2 DEF Accept, At, TypeOK
  <2>2. svc'.pc = "send" /\ svc'.snap = svc.snap
    BY <2>1, GoesFields
  <2>3. 1 \in DOMAIN queue /\ Head(queue) = queue[1]
    BY <2>1
  <2>4. client' = "live" => stream' = <<>>
    BY <2>1, <2>3 DEF Connected, LiveAt
  <2> QED
    BY <1>0, <2>1, <2>2, <2>4
<1>3. CASE AcceptTimeout \/ Send \/ SendFails \/ Sleep
  <2>1. Goes("top") \/ Goes("sleep")
    BY <1>3 DEF AcceptTimeout, Send, SendFails, Sleep
  <2>2. svc'.pc = "top" \/ svc'.pc = "sleep"
    BY <2>1, GoesFields
  <2> QED
    BY <2>2
<1>4. CASE Ends \/ Starts
  <2>1. svc'.pc = "top"
    BY <1>4, NewFields
  <2> QED
    BY <2>1
<1>5. CASE AsideStep
  <2>1. svc'.pc = svc.pc /\ svc'.slept = svc.slept /\ svc'.snap = svc.snap
    BY <1>5, AsideFields DEF AsideStep
  <2>2. UNCHANGED connVars
    BY <1>5 DEF AsideStep, Heartbeat, ReaderDies, Restart, SlamServiceEnds
  <2> QED
    BY <2>1, <2>2 DEF connVars
<1>6. CASE DrawStep \/ UNCHANGED vars
  <2>1. UNCHANGED svc
    BY <1>6, DrawKeepsService
  <2> QED
    BY <1>6, <2>1, DrawConnection
<1>7. CASE Tick
  <2>1. client' = client /\ (stream = <<>> => stream' = <<>>)
    BY <1>7, TickStream DEF Tick, TypeOK
  <2>2. CASE svc.unit = "wait"
    <3>1. svc'.pc = svc.pc /\ svc'.slept = svc.slept /\ svc'.snap = svc.snap
      BY <1>7, <2>2 DEF Tick, TypeOK, Service
    <3> QED
      BY <2>1, <3>1
  <2>3. CASE svc.unit = "up"
    <3>1. svc.pc \in {"sleep", "accept"} /\ svc.slept = FALSE
      BY <1>7, <2>3, TickWaits
    <3>2. svc'.pc = svc.pc /\ svc'.slept = TRUE /\ svc'.snap \in 0 .. svc.snap + 1
      BY <1>7, <2>3, TickService
    <3> QED
      BY <1>0, <2>1, <3>1, <3>2
  <2> QED
    BY <1>0, <2>2, <2>3
<1> QED
  BY <1>1, <1>2, <1>3, <1>4, <1>5, <1>6, <1>7, StepKinds DEF LoopStep

-----------------------------------------------------------------------------
(* The renderer                                                            *)

LEMMA OthersKeepRenderer ==
    ASSUME Top \/ LoopStep \/ Ends \/ Starts \/ AsideStep \/ UNCHANGED vars
    PROVE  UNCHANGED <<rend, screen>>
  BY DEF LoopStep, AsideStep, vars, Top, Accept, AcceptTimeout, Send, SendFails, Sleep, Ends,
         Starts, Heartbeat, ReaderDies, Restart, SlamServiceEnds

(* A poll counts, and takes a frame if there is one.                       *)
PollStep == Backoff \/ TryConnect \/ Disconnect \/ Receive

LEMMA PollFields ==
    ASSUME TypeOK, Connected, PollStep
    PROVE  /\ rend.state = "up" /\ rend'.state = "up" /\ rend'.silent = rend.silent
           /\ rend'.polls = rend.polls + 1 /\ rend'.checked = rend.checked
           /\ faults' = faults
           /\ stream' = <<>> \/ (stream # <<>> /\ stream' = Tail(stream))
<1>1. rend \in Renderer /\ rend.state = "up" /\ faults' = faults
  BY DEF TypeOK, PollStep, Backoff, TryConnect, Disconnect, Receive, Polling
<1>2. \/ rend' = Polled
      \/ rend' = [Polled EXCEPT !.waited = 0, !.interval = BackoffMin]
      \/ rend' = [Polled EXCEPT !.waited = 0, !.interval = NextInterval]
  BY DEF PollStep, Backoff, TryConnect, Disconnect, Receive
<1>3. /\ rend'.state = rend.state /\ rend'.silent = rend.silent
      /\ rend'.polls = rend.polls + 1 /\ rend'.checked = rend.checked
  BY <1>1, <1>2 DEF Polled, Renderer
<1>4. stream' = <<>> \/ (stream # <<>> /\ stream' = Tail(stream))
  <2>1. CASE sock = "none" /\ (Backoff \/ TryConnect)
    BY <2>1 DEF Connected, Backoff, TryConnect, connVars
  <2>2. CASE Disconnect
    BY <2>2 DEF Disconnect, Hangup
  <2>3. CASE Receive
    BY <2>3, FrameIsWhole DEF Receive
  <2> QED
    BY <2>1, <2>2, <2>3 DEF PollStep, Backoff, TryConnect
<1> QED
  BY <1>1, <1>3, <1>4

LEMMA TickRenderer ==
    ASSUME TypeOK, Tick
    PROVE  /\ rend'.state = rend.state
           /\ rend.state = "wait" => rend'.polls = rend.polls /\ rend'.checked = rend.checked
           /\ rend.state # "wait" => rend'.polls = 0 /\ rend'.checked = FALSE
           /\ rend.state = "up" => rend.polls = Polls
           /\ rend.state = "hung" => rend'.silent = rend.silent + 1
<1>1. rend \in Renderer
  BY DEF TypeOK
<1>2. rend' = IF rend.state = "wait" THEN [rend EXCEPT !.down = @ + 1]
               ELSE [rend EXCEPT !.silent = RendererSilent, !.polls = 0, !.checked = FALSE]
  BY DEF Tick
<1>3. rend.state = "up" => rend.polls = Polls
  BY DEF Tick, RendererWaits
<1>4. rend.state = "hung" => RendererSilent = rend.silent + 1
  BY DEF RendererSilent
<1> QED
  BY <1>1, <1>2, <1>3, <1>4 DEF Renderer

LEMMA QuietFields ==
    ASSUME TypeOK, StalenessCb \/ Recovers \/ Hangs
    PROVE  /\ rend'.polls = rend.polls /\ rend'.silent = rend.silent /\ UNCHANGED connVars
           /\ StalenessCb => rend.state = "up" /\ rend'.state = "up" /\ faults' = faults
           /\ Recovers => rend.state = "hung" /\ rend'.state = "up" /\ faults' = faults
           /\ Hangs => rend.state = "up" /\ rend'.state = "hung" /\ faults' = faults + 1
           /\ Recovers \/ Hangs => rend'.checked = rend.checked /\ UNCHANGED screen
<1>1. rend \in Renderer
  BY DEF TypeOK
<1> QED
  BY <1>1 DEF StalenessCb, Recovers, Hangs, Fault, Renderer

LEMMA FreshFields ==
    ASSUME RendererEnds \/ RendererStarts
    PROVE  /\ rend'.polls = 0 /\ rend'.checked = FALSE
           /\ rend'.state \in {"up", "wait"}
           /\ RendererEnds => rend'.state = "wait" /\ sock' = "none" /\ stream' = <<>>
                              /\ screen' = NewScreen
           /\ RendererStarts => rend.state = "wait" /\ rend'.state = "up"
                                /\ UNCHANGED <<connVars, screen, faults>>
  BY DEF RendererEnds, RendererStarts, NewRenderer, Hangup

LEMMA DrawKinds ==
    ASSUME [Next]_vars
    PROVE  \/ Top \/ LoopStep \/ Ends \/ Starts \/ AsideStep \/ UNCHANGED vars
           \/ PollStep \/ StalenessCb \/ Recovers \/ Hangs
           \/ RendererEnds \/ RendererStarts \/ Tick
  BY StepKinds DEF DrawStep, PollStep

LEMMA NextWaiting ==
    ASSUME TypeOK, Connected, Waiting, [Next]_vars
    PROVE  Waiting'
<1> USE DEF Waiting
<1>1. CASE Top \/ LoopStep \/ Ends \/ Starts \/ AsideStep \/ UNCHANGED vars
  <2>1. UNCHANGED rend
    BY <1>1, OthersKeepRenderer
  <2>2. sock = "none" => sock' = "none"
    BY <1>1 DEF LoopStep, AsideStep, vars, connVars, Top, Accept, AcceptTimeout, Send,
                SendFails, Sleep, Ends, Starts, Heartbeat, ReaderDies, Restart, SlamServiceEnds
  <2> QED
    BY <2>1, <2>2
<1>2. CASE PollStep
  BY <1>2, PollFields
<1>3. CASE StalenessCb \/ Recovers \/ Hangs
  BY <1>3, QuietFields
<1>4. CASE RendererEnds \/ RendererStarts
  BY <1>4, FreshFields
<1>5. CASE Tick
  <2>1. sock' = sock
    BY <1>5 DEF Tick
  <2> QED
    BY <1>5, <2>1, TickRenderer
<1> QED
  BY <1>1, <1>2, <1>3, <1>4, <1>5, DrawKinds

-----------------------------------------------------------------------------
(* The frames under way                                                    *)

(* The time for hanging only grows, and by a second in every second of it. *)
LEMMA NextHung ==
    ASSUME TypeOK, Connected, rend.state = "hung" => faults >= 1, [Next]_vars
    PROVE  /\ rend'.state = "hung" => faults' >= 1
           /\ Hung \in Nat /\ Hung' \in Nat /\ Hung' >= Hung
           /\ Tick /\ rend.state = "hung" => Hung' = Hung + 1
<1> DEFINE W == WatchdogSec * faults
           V == WatchdogSec * (faults - 1)
           X == WatchdogSec * faults'
           Y == WatchdogSec * (faults' - 1)
<1>0. faults \in Nat /\ faults' \in {faults, faults + 1} /\ WatchdogSec \in Nat
  BY FaultTypes, Sizes DEF TypeOK
<1>1. W \in Nat /\ X \in Nat
  <2>1. /\ faults \in Int /\ faults >= 0 /\ faults' \in Int /\ faults' >= 0
    BY <1>0
  <2>2. ASSUME NEW n \in Int, n >= 0 PROVE WatchdogSec * n \in Nat
    BY <1>0, <2>2, Distribute
  <2> QED
    BY <2>1, <2>2
<1>2. V = W - WatchdogSec
  BY <1>0, Distribute
<1>3. Y = X - WatchdogSec
  <2>1. faults' \in Int
    BY <1>0
  <2> QED
    BY <1>0, <2>1, Distribute
<1>4. faults' = faults => X = W
  OBVIOUS
<1>5. faults' = faults + 1 => X = W + WatchdogSec
  BY <1>0, Distribute
<1>6. Hung = IF rend.state = "hung" THEN V + rend.silent ELSE W
  BY DEF Hung
<1>7. Hung' = IF rend'.state = "hung" THEN Y + rend'.silent ELSE X
  BY DEF Hung
<1>8. rend.silent \in Nat /\ rend.silent <= WatchdogSec
  BY RendererFields, Sizes
<1>9. Hung \in Nat
  BY HungType DEF Hung
<1>10. rend'.silent \in Nat
  BY RendererTypes, Sizes DEF Renderer
<1>11. Hung' \in Int
  BY <1>0, <1>1, <1>3, <1>7, <1>10
<1> HIDE DEF W, V, X, Y
<1>12. CASE Top \/ LoopStep \/ Ends \/ Starts \/ AsideStep \/ UNCHANGED vars
  <2>1. UNCHANGED rend
    BY <1>12, OthersKeepRenderer
  <2>2. ~(Tick /\ rend.state = "hung")
    <3> SUFFICES ASSUME Tick, rend.state = "hung" PROVE FALSE
      OBVIOUS
    <3>1. rend'.silent = rend.silent + 1
      BY TickRenderer
    <3> QED
      BY <1>8, <2>1, <3>1
  <2>3. Hung' >= Hung
    BY <1>0, <1>1, <1>2, <1>3, <1>4, <1>5, <1>6, <1>7, <1>8, <2>1
  <2> QED
    BY <1>0, <1>9, <1>11, <2>1, <2>2, <2>3
<1>13. CASE PollStep \/ StalenessCb \/ RendererStarts
  <2>1. rend.state # "hung" /\ rend'.state # "hung" /\ faults' = faults
    BY <1>13, PollFields, QuietFields, FreshFields
  <2> QED
    BY <1>1, <1>4, <1>6, <1>7, <1>9, <1>11, <2>1
<1>14. CASE Recovers \/ RendererEnds
  <2>1. rend'.state # "hung"
    BY <1>14, QuietFields, FreshFields
  <2>2. ~(Tick /\ rend.state = "hung")
    BY <2>1, TickRenderer
  <2> QED
    BY <1>0, <1>1, <1>2, <1>3, <1>4, <1>5, <1>6, <1>7, <1>8, <1>9, <1>11, <2>1, <2>2
<1>15. CASE Hangs
  <2>1. rend.state = "up" /\ rend'.silent = rend.silent /\ faults' = faults + 1
    BY <1>15, QuietFields
  <2> QED
    BY <1>0, <1>1, <1>2, <1>3, <1>5, <1>6, <1>7, <1>8, <1>9, <1>11, <2>1
<1>16. CASE Tick
  <2>1. rend'.state = rend.state /\ (rend.state = "hung" => rend'.silent = rend.silent + 1)
    BY <1>16, TickRenderer
  <2>2. faults' = faults
    BY <1>16 DEF Tick
  <2> QED
    BY <1>0, <1>1, <1>2, <1>3, <1>4, <1>6, <1>7, <1>8, <1>9, <1>11, <2>1, <2>2
<1> QED
  BY <1>12, <1>13, <1>14, <1>15, <1>16, DrawKinds

(* The service's share: it sends only what it had not spent.               *)
LEMMA ServiceSends ==
    ASSUME TypeOK, Top \/ LoopStep \/ Ends \/ Starts \/ AsideStep \/ UNCHANGED vars
    PROVE  \/ /\ Send /\ SpentOne = 0 /\ SpentOne' = 1
              /\ stream' = Append(stream, svc.snap)
           \/ stream' = stream /\ (SpentOne' = 1 \/ SpentOne = 0)
<1> USE DEF SpentOne, Spent
<1>0. svc.slept \in BOOLEAN /\ svc.stop \in BOOLEAN
  BY ServiceFields
<1>1. CASE Top
  <2>1. svc.unit = "up" /\ svc.pc = "top" /\ svc.stop = FALSE
    BY <1>1, TopFields
  <2>2. ~Spent /\ stream' = stream
    BY <1>1, <2>1 DEF Top, connVars
  <2> QED
    BY <2>2
<1>2. CASE Accept \/ AcceptTimeout \/ SendFails
  <2>1. svc.unit = "up" /\ svc.pc \in {"accept", "send"} /\ stream' = stream
    BY <1>2 DEF Accept, AcceptTimeout, SendFails, At, connVars
  <2> QED
    BY <2>1
<1>3. CASE Send
  <2>1. svc.unit = "up" /\ svc.pc = "send" /\ Goes("sleep")
        /\ stream' = Append(stream, svc.snap)
    BY <1>3 DEF Send, At
  <2>2. svc'.unit = "up" /\ svc'.pc = "sleep" /\ svc'.slept = FALSE
    BY <2>1, GoesFields
  <2>3. ~Spent /\ Spent'
    BY <2>1, <2>2
  <2> QED
    BY <1>3, <2>1, <2>3
<1>4. CASE Sleep
  <2>1. /\ svc.unit = "up" /\ svc.pc = "sleep" /\ Goes("top") /\ stream' = stream
        /\ svc.slept \/ svc.stop
    BY <1>4 DEF Sleep, At, connVars
  <2>2. svc'.unit = "up" /\ svc'.pc = "top" /\ svc'.stop = svc.stop
    BY <2>1, GoesFields
  <2>3. Spent' \/ ~Spent
    BY <1>0, <2>1, <2>2
  <2> QED
    BY <2>1, <2>3
<1>5. CASE Ends
  <2>1. svc'.unit = "wait" /\ svc'.down = 0
    BY <1>5, NewFields
  <2> QED
    BY <1>5, <2>1 DEF Ends
<1>6. CASE Starts
  <2>1. svc.unit = "wait" /\ svc.down # 0
    BY <1>6, ServiceFields, Sizes DEF Starts
  <2> QED
    BY <1>6, <2>1 DEF Starts, connVars
<1>7. CASE AsideStep
  <2>1. /\ svc'.unit = svc.unit /\ svc'.down = svc.down /\ svc'.pc = svc.pc
        /\ svc'.slept = svc.slept /\ (svc'.stop = svc.stop \/ svc'.stop = TRUE)
    BY <1>7, AsideFields DEF AsideStep
  <2>2. Spent => Spent'
    BY <1>0, <2>1
  <2>3. stream' = stream
    BY <1>7 DEF AsideStep, Heartbeat, ReaderDies, Restart, SlamServiceEnds, connVars
  <2> QED
    BY <2>2, <2>3
<1>8. CASE UNCHANGED vars
  BY <1>8 DEF vars, connVars
<1> QED
  BY <1>1, <1>2, <1>3, <1>4, <1>5, <1>6, <1>7, <1>8 DEF LoopStep

(* A new second gives the service a new frame to send.                     *)
LEMMA TickSpent ==
    ASSUME TypeOK, FewFrames, Tick
    PROVE  SpentOne' = 0
<1>1. CASE svc.unit = "wait"
  <2>1. svc'.unit = "wait" /\ svc'.down = svc.down + 1
    BY <1>1 DEF Tick, TypeOK, Service
  <2> QED
    BY <2>1, ServiceFields DEF SpentOne, Spent
<1>2. CASE svc.unit = "up"
  <2>1. svc.pc = "accept" \/ (svc.pc = "sleep" /\ svc.stop = FALSE)
    BY <1>2, TickWaits
  <2>2. svc'.unit = "up" /\ svc'.pc = svc.pc /\ svc'.slept = TRUE /\ svc'.stop = svc.stop
    BY <1>2, TickService
  <2> QED
    BY <2>1, <2>2 DEF SpentOne, Spent
<1> QED
  BY <1>1, <1>2, ServiceFields

LEMMA NextFrames ==
    ASSUME TypeOK, Connected, SnapshotIsNew, Waiting, FewFrames, YoungFrames, [Next]_vars
    PROVE  FewFrames' /\ YoungFrames'
<1> DEFINE n == Len(stream)
           H == Hung'
           S == SpentOne'
           P == PolledOne'
<1>0. /\ stream \in Seq(0 .. AgeCap) /\ n \in Nat /\ DOMAIN stream = 1 .. n
      /\ \A i \in 1 .. n : stream[i] \in Nat
  BY Caps, Sizes DEF TypeOK
<1>1. /\ rend'.state = "hung" => faults' >= 1
      /\ Hung \in Nat /\ H \in Nat /\ H >= Hung
      /\ Tick /\ rend.state = "hung" => H = Hung + 1
  BY NextHung DEF FewFrames
<1>2. rend.polls \in Nat
  BY RendererFields, Sizes
<1>3. SpentOne \in 0 .. 1 /\ S \in 0 .. 1 /\ PolledOne \in 0 .. 1 /\ P \in 0 .. 1
  BY DEF SpentOne, PolledOne
<1>4. n <= Hung + 1 + SpentOne - PolledOne
  BY DEF FewFrames
<1>5. \A i \in 1 .. n : stream[i] + i <= Hung + 3 - PolledOne
  BY <1>0 DEF YoungFrames
<1>6. SUFFICES /\ Len(stream') <= H + 1 + S - P
               /\ \A i \in DOMAIN stream' : stream'[i] + i <= H + 3 - P
  BY <1>1 DEF FewFrames, YoungFrames
<1> HIDE DEF n, H, S, P
<1>7. CASE stream' = <<>>
  <2>1. Len(stream') = 0 /\ DOMAIN stream' = {}
    BY <1>7
  <2> QED
    BY <1>1, <1>3, <2>1
<1>8. CASE Top \/ LoopStep \/ Ends \/ Starts \/ AsideStep \/ UNCHANGED vars
  <2>1. P = PolledOne
    BY <1>8, OthersKeepRenderer DEF P, PolledOne
  <2>2. CASE stream' = stream /\ (S = 1 \/ SpentOne = 0)
    BY <1>0, <1>1, <1>3, <1>4, <1>5, <2>1, <2>2 DEF n
  <2>3. CASE Send /\ SpentOne = 0 /\ S = 1 /\ stream' = Append(stream, svc.snap)
    <3>1. svc.snap = 0 \/ (svc.snap = 1 /\ stream = <<>>)
      BY <2>3 DEF Send, At, SnapshotIsNew
    <3>2. svc.snap \in 0 .. AgeCap
      BY DEF TypeOK, Service
    <3>3. /\ Len(stream') = n + 1 /\ DOMAIN stream' = 1 .. n + 1
          /\ \A i \in 1 .. n : stream'[i] = stream[i]
          /\ stream'[n + 1] = svc.snap
      BY <1>0, <2>3, <3>2 DEF n
    <3>4. svc.snap + (n + 1) <= Hung + 3 - PolledOne
      <4>1. CASE svc.snap = 0
        BY <1>0, <1>1, <1>3, <1>4, <2>3, <4>1
      <4>2. CASE svc.snap = 1 /\ stream = <<>>
        BY <1>0, <1>1, <1>3, <4>2 DEF n
      <4> QED
        BY <3>1, <4>1, <4>2
    <3>5. Len(stream') <= H + 1 + S - P
      BY <1>0, <1>1, <1>3, <1>4, <2>1, <2>3, <3>3
    <3>6. ASSUME NEW i \in 1 .. n + 1 PROVE stream'[i] + i <= H + 3 - P
      <4>1. CASE i \in 1 .. n
        <5>1. stream'[i] = stream[i] /\ stream[i] \in Nat /\ stream[i] + i <= Hung + 3 - PolledOne
          BY <1>0, <1>5, <3>3, <4>1
        <5> QED
          BY <1>1, <1>3, <2>1, <5>1
      <4>2. CASE i = n + 1
        BY <1>0, <1>1, <1>3, <2>1, <3>2, <3>3, <3>4, <4>2, Caps, Sizes
      <4> QED
        BY <1>0, <4>1, <4>2
    <3> QED
      BY <3>3, <3>5, <3>6
  <2> QED
    BY <1>8, <2>2, <2>3, ServiceSends DEF S
<1>9. CASE stream # <<>> /\ PollStep /\ stream' # <<>>
  <2>1. stream' = Tail(stream) /\ rend'.polls = rend.polls + 1
    BY <1>9, PollFields
  <2>2. P = 1
    BY <1>2, <2>1 DEF P, PolledOne
  <2>3. /\ Len(stream') = n - 1 /\ DOMAIN stream' = 1 .. n - 1
        /\ \A i \in 1 .. n - 1 : stream'[i] = stream[i + 1]
    BY <1>0, <1>9, <2>1 DEF n
  <2>4. S = SpentOne
    <3>1. UNCHANGED svc
      BY <1>9, DrawKeepsService DEF DrawStep, PollStep
    <3> QED
      BY <3>1 DEF S, SpentOne, Spent
  <2>5. Len(stream') <= H + 1 + S - P
    BY <1>0, <1>1, <1>3, <1>4, <1>9, <2>2, <2>3, <2>4
  <2>6. ASSUME NEW i \in 1 .. n - 1 PROVE stream'[i] + i <= H + 3 - P
    <3>1. i \in Int /\ i + 1 \in 1 .. n
      BY <1>0
    <3>2. stream[i + 1] + (i + 1) <= Hung + 3 - PolledOne /\ stream[i + 1] \in Nat
      BY <1>0, <1>5, <3>1
    <3>3. stream'[i] = stream[i + 1]
      BY <2>3
    <3> QED
      BY <1>1, <1>3, <2>2, <3>1, <3>2, <3>3
  <2> QED
    BY <2>3, <2>5, <2>6
<1>10. CASE StalenessCb \/ Recovers \/ Hangs \/ RendererStarts
  <2>1. stream' = stream
    BY <1>10, QuietFields, FreshFields DEF connVars
  <2>2. P = PolledOne \/ P = 0
    BY <1>10, QuietFields, FreshFields DEF P, PolledOne
  <2>3. UNCHANGED svc
    BY <1>10, DrawKeepsService DEF DrawStep
  <2>4. S = SpentOne
    BY <2>3 DEF S, SpentOne, Spent
  <2> QED
    BY <1>0, <1>1, <1>3, <1>4, <1>5, <2>1, <2>2, <2>4 DEF n
<1>11. CASE Tick
  <2>1. CASE rend.state = "wait"
    <3>1. stream = <<>>
      BY <2>1 DEF Waiting, Connected
    <3>2. stream' = <<>>
      BY <1>11, <3>1, TickStream, <1>0
    <3> QED
      BY <1>7, <3>2
  <2>2. CASE rend.state # "wait"
    <3>1. P = 0
      BY <1>11, <2>2, TickRenderer DEF P, PolledOne
    <3>2. rend.state = "up" => PolledOne = 1
      BY <1>11, TickRenderer, Sizes DEF PolledOne
    <3>3. PolledOne = 1 \/ H = Hung + 1
      BY <1>1, <1>11, <2>2, <3>2, RendererFields
    <3>4. S = 0
      BY <1>11, TickSpent DEF S
    <3>5. /\ Len(stream') = n /\ DOMAIN stream' = 1 .. n
          /\ \A i \in 1 .. n : stream'[i] \in 0 .. stream[i] + 1
      BY <1>0, <1>11, TickStream DEF n
    <3>6. Len(stream') <= H + 1 + S - P
      BY <1>0, <1>1, <1>3, <1>4, <3>1, <3>3, <3>4, <3>5
    <3>7. \A i \in 1 .. n : stream'[i] + i <= H + 3 - P
      BY <1>0, <1>1, <1>3, <1>5, <3>1, <3>3, <3>5
    <3> QED
      BY <3>5, <3>6, <3>7
  <2> QED
    BY <2>1, <2>2
<1>12. PollStep => stream' = <<>> \/ stream # <<>>
  BY PollFields
<1> QED
  BY <1>7, <1>8, <1>9, <1>10, <1>11, <1>12, DrawKinds, FreshFields

-----------------------------------------------------------------------------
(* The screen                                                              *)

LEMMA ScreenFields ==
    ASSUME TypeOK
    PROVE  /\ screen.fresh \in None .. Threshold + 1 /\ screen.shown \in None .. AgeCap
           /\ screen.overlay \in BOOLEAN /\ screen.stale \in BOOLEAN
  BY DEF TypeOK, Screen

LEMMA NextArrived ==
    ASSUME TypeOK, Connected, FewFrames, YoungFrames, ArrivedInTime, [Next]_vars
    PROVE  ArrivedInTime'
<1> USE DEF ArrivedInTime
<1>0. screen \in Screen
  BY DEF TypeOK
<1>1. screen.fresh \in None .. Threshold + 1 /\ screen.shown \in None .. AgeCap
  BY ScreenFields
<1>2. Oldest \in Nat /\ AgeCap = Threshold + Oldest + 1 /\ AgeCap \in Nat /\ Threshold \in Nat
  BY Caps, Sizes
<1>3. CASE Receive
  <2>1. CASE stream # <<>>
    <3>1. stream \in Seq(0 .. AgeCap) /\ 1 \in DOMAIN stream /\ Head(stream) = stream[1]
      BY <2>1 DEF TypeOK
    <3>2. Hung \in Nat /\ Hung <= WatchdogSec * MaxFaults /\ PolledOne \in 0 .. 1
      BY HungType DEF FewFrames, PolledOne
    <3>3. stream[1] + 1 <= Hung + 3 - PolledOne
      BY <3>1 DEF YoungFrames
    <3>4. WatchdogSec * MaxFaults \in Nat /\ stream[1] \in Nat
      BY <1>2, <3>1, Product, Sizes
    <3>5. Head(stream) <= Oldest
      BY <3>1, <3>2, <3>3, <3>4 DEF Oldest
    <3>6. screen'.fresh = 0 /\ screen'.shown = Head(stream)
      BY <1>0, <1>3, <2>1, FrameIsWhole DEF Receive, Updated, Screen
    <3> QED
      BY <1>2, <3>1, <3>4, <3>5, <3>6 DEF None
  <2>2. CASE stream = <<>>
    BY <1>3, <2>2, FrameIsWhole DEF Receive
  <2> QED
    BY <2>1, <2>2
<1>4. CASE StalenessCb
  <2>1. screen'.fresh = screen.fresh /\ screen'.shown = screen.shown
    BY <1>0, <1>4 DEF StalenessCb, Screen
  <2> QED
    BY <2>1
<1>5. CASE RendererEnds
  <2>1. screen'.fresh = None /\ screen'.shown = None
    BY <1>5, FreshFields DEF NewScreen
  <2> QED
    BY <2>1
<1>6. CASE Tick
  <2> DEFINE f == screen'.fresh
             s == screen'.shown
  <2>1. f = Older(screen.fresh, Threshold + 1) /\ s = Older(screen.shown, AgeCap)
    BY <1>0, <1>6 DEF Tick, Screen
  <2>2. /\ f = None <=> screen.fresh = None
        /\ screen.fresh # None /\ screen.fresh < Threshold + 1 => f = screen.fresh + 1
        /\ screen.fresh = Threshold + 1 => f = Threshold + 1
    BY <1>1, <1>2, <2>1, OlderType
  <2>3. /\ screen.shown = None <=> s = None
        /\ screen.shown # None => s \in 0 .. screen.shown + 1
        /\ s \in None .. AgeCap
    BY <1>1, <1>2, <2>1, OlderType
  <2> HIDE DEF f, s
  <2>4. IF f = None THEN s = None ELSE s <= f + Oldest
    <3>1. CASE screen.fresh = None
      BY <2>2, <2>3, <3>1
    <3>2. CASE screen.fresh # None
      BY <1>1, <1>2, <2>2, <2>3, <3>2 DEF None
    <3> QED
      BY <3>1, <3>2
  <2> QED
    BY <2>4 DEF f, s
<1>7. CASE UNCHANGED screen
  BY <1>7
<1>8. Backoff \/ TryConnect \/ Disconnect \/ Recovers \/ Hangs \/ RendererStarts
        => UNCHANGED screen
  BY DEF Backoff, TryConnect, Disconnect, Recovers, Hangs, RendererStarts
<1> QED
  BY <1>3, <1>4, <1>5, <1>6, <1>7, <1>8, DrawKinds, OthersKeepRenderer DEF PollStep

LEMMA NextMarked ==
    ASSUME TypeOK, Connected, Waiting, Marked, [Next]_vars
    PROVE  Marked'
<1> USE DEF Marked
<1>0. screen \in Screen /\ rend.checked \in BOOLEAN
  BY RendererFields DEF TypeOK
<1>1. CASE Receive
  <2>1. rend'.checked = rend.checked
    BY <1>1, PollFields DEF PollStep
  <2>2. screen' = screen \/ screen'.fresh = 0
    BY <1>0, <1>1 DEF Receive, Updated, Screen
  <2> QED
    BY <2>1, <2>2, Sizes
<1>2. CASE StalenessCb
  <2>1. CASE sock = "none"
    <3>1. screen'.overlay = TRUE
      BY <1>0, <1>2, <2>1 DEF StalenessCb, Screen
    <3> QED
      BY <3>1
  <2>2. CASE sock # "none" /\ screen.fresh = None
    <3>1. screen' = screen
      BY <1>2, <2>2 DEF StalenessCb
    <3> QED
      BY <2>2, <3>1, Sizes DEF None
  <2>3. CASE sock # "none" /\ screen.fresh # None
    <3>1. screen' = [screen EXCEPT !.stale = (screen.fresh > Threshold)]
      BY <1>2, <2>3, Zenon DEF StalenessCb
    <3>2. screen.fresh \in Int /\ Threshold \in Int
      BY ScreenFields, Sizes DEF None
    <3>3. screen'.fresh = screen.fresh
      BY <1>0, <3>1, <3>2 DEF Screen
    <3>4. screen.fresh > Threshold => screen'.stale = TRUE
      BY <1>0, <3>1, <3>2 DEF Screen
    <3> QED
      BY <3>2, <3>3, <3>4
  <2> QED
    BY <2>1, <2>2, <2>3
<1>3. CASE RendererEnds \/ RendererStarts
  BY <1>3, FreshFields
<1>4. CASE Tick
  <2>1. rend'.checked = FALSE
    BY <1>4, TickRenderer DEF Waiting
  <2> QED
    BY <2>1
<1>5. CASE UNCHANGED screen /\ rend'.checked = rend.checked
  BY <1>5
<1>6. Backoff \/ TryConnect \/ Disconnect \/ Recovers \/ Hangs
        => UNCHANGED screen /\ rend'.checked = rend.checked
  BY PollFields, QuietFields DEF PollStep, Backoff, TryConnect, Disconnect
<1> QED
  BY <1>1, <1>2, <1>3, <1>4, <1>5, <1>6, DrawKinds, OthersKeepRenderer DEF PollStep

-----------------------------------------------------------------------------
LEMMA InitIInv == Init => IInv
<1> SUFFICES ASSUME Init PROVE IInv
  OBVIOUS
<1>1. TypeOK
  BY InitTypeOK
<1>2. /\ svc.pc = "top" /\ svc.silent = 0 /\ svc.hb = None /\ svc.unit = "up"
      /\ svc.stop = FALSE
  BY DEF Init, NewService
<1>3. rend.state = "up" /\ rend.polls = 0 /\ rend.checked = FALSE /\ faults = 0
  BY DEF Init, NewRenderer
<1>4. queue = <<>> /\ stream = <<>> /\ client = "none" /\ sock = "none"
  BY DEF Init
<1>5. StaleIsSilent /\ SilentForATurn
  BY <1>2, Sizes DEF StaleIsSilent, SilentForATurn, Turn, None
<1>6. Connected /\ SnapshotIsNew /\ Waiting
  BY <1>2, <1>3, <1>4 DEF Connected, LiveAt, SnapshotIsNew, Waiting
<1>7. FewFrames /\ YoungFrames
  <2>1. SpentOne = 0 /\ PolledOne = 0 /\ Hung \in Nat
    BY <1>1, <1>2, <1>3, HungType DEF SpentOne, Spent, PolledOne
  <2>2. Len(stream) = 0 /\ DOMAIN stream = {}
    BY <1>4
  <2> QED
    BY <1>3, <2>1, <2>2 DEF FewFrames, YoungFrames
<1>8. ArrivedInTime /\ Marked
  BY <1>3 DEF Init, NewScreen, ArrivedInTime, Marked
<1> QED
  BY <1>1, <1>5, <1>6, <1>7, <1>8 DEF IInv

LEMMA NextIInv == IInv /\ [Next]_vars => IInv'
  BY NextTypeOK, NextWatchdog, NextConnected, NextSnapshot, NextWaiting, NextFrames,
     NextArrived, NextMarked DEF IInv

LEMMA Invariance == Spec => []IInv
  BY InitIInv, NextIInv, PTL DEF Spec

-----------------------------------------------------------------------------
(* Types: the polls, the backoff, the receive buffer and the watchdog      *)
(* times of both processes stay within their limits.                       *)
THEOREM KioskTypeCorrect == Spec => []TypeOK
  BY Invariance, PTL DEF IInv

(* A service whose heartbeats have stopped is killed within a watchdog     *)
(* time of noticing it: _should_notify_watchdog holds the notification     *)
(* back for exactly as long as the heartbeat has been stale.               *)
THEOREM BlackoutEnds == Spec => []BlackoutIsLeft
<1>1. IInv => BlackoutIsLeft
  BY ServiceFields, Sizes DEF IInv, StaleIsSilent, BlackoutIsLeft
<1> QED
  BY <1>1, Invariance, PTL

(* The watchdog of the data service strikes only in a blackout: a turn of  *)
(* its loop takes two seconds, because sendall never blocks it.            *)
THEOREM WatchdogIsJustified == Spec => []KilledOnlyInBlackout
<1>1. IInv => KilledOnlyInBlackout
  <2> SUFFICES ASSUME IInv, svc.silent >= WatchdogSec
               PROVE  svc.hb \in (0 .. 2) \cup (Staleness .. HbCap)
    BY DEF KilledOnlyInBlackout
  <2>1. svc.hb \in Int /\ svc.hb <= HbCap /\ svc.silent \in Nat /\ HbCap \in Nat
    BY ServiceFields, Caps, Sizes DEF IInv
  <2>2. Turn \in 0 .. 2
    BY DEF Turn
  <2> QED
    BY <2>1, <2>2, Sizes DEF IInv, SilentForATurn
<1> QED
  BY <1>1, Invariance, PTL

(* sendall never finds the socket full.                                    *)
THEOREM SendNeverBlocks == Spec => []NeverBlocked
<1>1. IInv => NeverBlocked
  BY HasRoom DEF IInv, NeverBlocked
<1> QED
  BY <1>1, Invariance, PTL

(* An unmarked screen is never older than the threshold and a watchdog     *)
(* time for each fault together.                                           *)
THEOREM OldScreenIsMarked == Spec => []OldIsMarked
<1>1. IInv => OldIsMarked
  <2> SUFFICES ASSUME IInv, rend.checked, ~screen.overlay, ~screen.stale
               PROVE  screen.shown <= OldAge
    BY DEF OldIsMarked
  <2>1. /\ rend.checked \in BOOLEAN /\ screen.overlay \in BOOLEAN /\ screen.stale \in BOOLEAN
    BY RendererFields, ScreenFields DEF IInv
  <2>2. screen.fresh <= Threshold
    BY <2>1 DEF IInv, Marked
  <2>3. screen.fresh \in Int /\ screen.shown \in Int
    BY ScreenFields, Caps, Sizes DEF IInv, None
  <2> QED
    BY <2>2, <2>3, Caps, Sizes DEF IInv, ArrivedInTime, None
<1> QED
  BY <1>1, Invariance, PTL
=============================================================================
