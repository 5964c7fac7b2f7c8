----------------------------- MODULE VslamProofs -----------------------------
(***************************************************************************)
(* The safety of the pose path for every size of the reset counter and of  *)
(* the socket, and every number of resets, crashes and probes; and of the  *)
(* watchdogs of its two services for every choice of the times in the      *)
(* units and in the two programs.                                          *)
(***************************************************************************)
EXTENDS VslamPipeline, VslamServices, FiniteSetTheorems, TLAPS

-----------------------------------------------------------------------------
(* Connections                                                             *)

LiveAt(i) == i \in DOMAIN pending /\ pending[i] = "live"

(* The bridge has one connection, accepted or waiting, while its socket is *)
(* open, and none otherwise.                                               *)
Connected ==
    /\ client = "live" => \A i \in DOMAIN pending : ~LiveAt(i)
    /\ \A i, j \in DOMAIN pending : LiveAt(i) /\ LiveAt(j) => i = j
    /\ sock = "open" <=> client = "live" \/ \E i \in DOMAIN pending : LiveAt(i)
    /\ chan # << >> => sock # "none"

-----------------------------------------------------------------------------
(* Counters                                                                *)

(* A pose on its way carries the low byte of its resets.                   *)
ChannelCounts ==
    \A i \in DOMAIN chan : chan[i].reset_counter = LowByte(chan[i].frame.resets)

(* All that one run sent under one value of the bridge's counter has the   *)
(* same low byte; under the present value of the present run it is the one *)
(* of the last pose; nothing was sent under a higher one, or by a later    *)
(* run.                                                                    *)
OneByte ==
    \A c \in DOMAIN sentFrames : \A p, q \in sentFrames[c] :
        p.run = q.run => LowByte(p.frame.resets) = LowByte(q.frame.resets)
LastByte ==
    \A p \in sentFrames[bridge_reset_counter] :
        p.run = run => LowByte(p.frame.resets) = last_reset_counter
NoneAbove ==
    \A c \in DOMAIN sentFrames : \A p \in sentFrames[c] :
        p.run <= run /\ (c > bridge_reset_counter => p.run # run)
NoneYet ==
    last_reset_counter = -1 =>
        \A p \in sentFrames[bridge_reset_counter] : p.run # run

(* A speed is sent with the counter of the pose it leads to.               *)
SpeedSent ==
    speed # NoSpeed => [run |-> run, frame |-> speed.to] \in sentFrames[speed.counter]

Counters ==
    ChannelCounts /\ OneByte /\ LastByte /\ NoneAbove /\ NoneYet /\ SpeedSent

IInv == TypeOK /\ Connected /\ Counters

-----------------------------------------------------------------------------
(* Arithmetic of the counter                                               *)

LEMMA MultipleBelow ==
    ASSUME NEW K \in Nat \ {0}, NEW d \in Int, d * K \in 1 - K .. K - 1
    PROVE  d = 0
<1>1. CASE d >= 1
  <2>1. d * K >= K
    BY <1>1
  <2> QED
    BY <2>1
<1>2. CASE d <= -1
  <2>1. d * K <= -K
    BY <1>2
  <2> QED
    BY <2>1
<1> QED
  BY <1>1, <1>2

LEMMA SameRemainder ==
    ASSUME NEW K \in Nat \ {0}, NEW a \in Nat, NEW b \in Nat,
           a % K = b % K, a - b \in 1 - K .. K - 1
    PROVE  a = b
<1> DEFINE p == a \div K
           q == b \div K
<1>1. p \in Int /\ q \in Int
  OBVIOUS
<1>2. a - (a % K) = p * K /\ b - (b % K) = q * K
  OBVIOUS
<1>3. a % K \in Int /\ b % K \in Int
  OBVIOUS
<1> HIDE DEF p, q
<1>4. a - b = p * K - q * K
  BY <1>1, <1>2, <1>3
<1>5. a - b = (p - q) * K
  BY <1>1, <1>4
<1>6. p - q = 0
  BY <1>1, <1>5, MultipleBelow
<1> QED
  BY <1>1, <1>5, <1>6

(* The counter is a byte, and tells near frames apart.                     *)
LEMMA LowByteType ==
    ASSUME NEW n \in Nat
    PROVE  LowByte(n) \in 0 .. CounterSize - 1
  BY VslamAssumption DEF LowByte

LEMMA LowByteTells ==
    ASSUME NEW f \in Frames, NEW g \in Frames, Near(f, g),
           LowByte(f.resets) = LowByte(g.resets)
    PROVE  f = g
<1>1. f.resets \in Nat /\ g.resets \in Nat
  BY VslamAssumption DEF Frames
<1>2. f.resets = g.resets
  BY <1>1, SameRemainder, VslamAssumption DEF Near, LowByte
<1> QED
  BY <1>2 DEF Near, Frames

-----------------------------------------------------------------------------
(* Types                                                                   *)

(* The connections the bridge's end leaves behind.                         *)
LEMMA CloseSocketType ==
    ASSUME TypeOK, CloseSocket
    PROVE  /\ sock' = "none" /\ chan' = << >>
           /\ client' \in {"none"} \cup Connections /\ client' # "live"
           /\ pending' \in Seq(Connections) /\ Len(pending') <= Backlog
           /\ \A i \in DOMAIN pending' : pending'[i] # "live"
<1>1. pending \in Seq(Connections) /\ Len(pending) <= Backlog
  BY DEF TypeOK
<1>2. pending' \in Seq(Connections) /\ Len(pending') = Len(pending)
  BY <1>1 DEF CloseSocket, Dead, Connections
<1>3. \A i \in DOMAIN pending' : pending'[i] # "live"
  BY <1>1 DEF CloseSocket, Dead
<1> QED
  BY <1>1, <1>2, <1>3 DEF CloseSocket, Dead, Connections, TypeOK

(* The next pose of the reader.                                            *)
LEMMA HeadPose ==
    ASSUME TypeOK, chan # << >>
    PROVE  /\ Head(chan) \in Pose /\ Tail(chan) \in Seq(Pose)
           /\ Len(Tail(chan)) = Len(chan) - 1
           /\ Head(chan).frame \in Frames
           /\ Head(chan).reset_counter \in 0 .. CounterSize - 1
<1>1. chan \in Seq(Pose)
  BY DEF TypeOK
<1>2. Head(chan) \in Pose
  BY <1>1
<1> QED
  BY <1>1, <1>2 DEF Pose

LEMMA ResetCounterType ==
    ASSUME TypeOK, NEW m
    PROVE  ResetCounter(m) \in Nat /\ ResetCounter(m) >= bridge_reset_counter
  BY VslamAssumption DEF TypeOK, ResetCounter

LEMMA InitTypeOK == Init => TypeOK
<1> SUFFICES ASSUME Init PROVE TypeOK
  OBVIOUS
<1>1. path \in BOOLEAN /\ stop \in BOOLEAN
  BY Zenon DEF Init
<1>2. sentFrames \in [0 .. CounterSize - 1 -> SUBSET [run : Nat, frame : Frames]]
  BY DEF Init
<1> QED
  BY <1>1, <1>2, VslamAssumption DEF Init, TypeOK, Backlog

LEMMA NextTypeOK == TypeOK /\ [Next]_vars => TypeOK'
<1> SUFFICES ASSUME TypeOK, [Next]_vars PROVE TypeOK'
  OBVIOUS
<1> USE VslamAssumption
<1>1. CASE SlamStart
  <2>1. path' \in BOOLEAN
    BY <1>1, Zenon DEF SlamStart
  <2> QED
    BY <1>1, <2>1 DEF TypeOK, SlamStart, socketVars, loopVars, probeVars
<1>2. CASE SlamAccept
  <2>1. pending \in Seq(Connections) /\ pending # << >> /\ Len(pending) <= Backlog
    BY <1>2 DEF TypeOK, SlamAccept
  <2>2. /\ Head(pending) \in Connections /\ Tail(pending) \in Seq(Connections)
        /\ Len(Tail(pending)) <= Backlog
    BY <2>1 DEF Backlog
  <2> QED
    BY <1>2, <2>2 DEF TypeOK, SlamAccept, slamVars, loopVars, probeVars
<1>3. CASE OdometryLost
  BY <1>3 DEF TypeOK, OdometryLost, socketVars, loopVars, probeVars
<1>4. CASE SlamPose
  <2>1. [frame |-> [life |-> life, resets |-> resets],
         reset_counter |-> LowByte(resets)] \in Pose
    <3>1. resets \in Nat /\ resets \in 0 .. MaxResets /\ life \in 0 .. MaxSlamCrashes
      BY DEF TypeOK
    <3> QED
      BY <3>1, LowByteType DEF Pose, Frames
  <2>2. chan' \in Seq(Pose) /\ Len(chan') <= SocketCapacity
    <3>1. chan \in Seq(Pose) /\ Len(chan) <= SocketCapacity
      BY DEF TypeOK
    <3>2. CASE chan' = chan
      BY <3>1, <3>2
    <3>3. CASE chan' # chan
      <4>1. /\ Len(chan) < SocketCapacity
            /\ chan' = Append(chan, [frame |-> [life |-> life, resets |-> resets],
                                     reset_counter |-> LowByte(resets)])
        BY <1>4, <3>3 DEF SlamPose
      <4> HIDE DEF Pose
      <4> QED
        BY <2>1, <3>1, <4>1
    <3> QED
      BY <3>2, <3>3
  <2> QED
    BY <1>4, <2>2 DEF TypeOK, SlamPose, Connections, slamVars, loopVars
<1>5. CASE SlamCrash
  <2>1. path' \in BOOLEAN
    BY <1>5, Zenon DEF SlamCrash
  <2> QED
    BY <1>5, <2>1 DEF TypeOK, SlamCrash, loopVars, Backlog
<1>6. CASE KioskServiceEnds
  <2>1. path' \in BOOLEAN
    BY <1>6, Zenon DEF KioskServiceEnds
  <2> QED
    BY <1>6, <2>1 DEF TypeOK, KioskServiceEnds, socketVars, loopVars, probeVars
<1>7. CASE BridgeStart
  <2>1. run' \in Nat /\ sentFrames' = sentFrames
    BY <1>7 DEF BridgeStart, TypeOK
  <2> QED
    BY <1>7, <2>1 DEF TypeOK, BridgeStart, slamVars, socketVars, probeVars
<1>8. CASE LinkUp \/ LinkStopped
  BY <1>8 DEF TypeOK, LinkUp, LinkStopped, slamVars, socketVars, loopVars, probeVars
<1>9. CASE ReaderConnect
  BY <1>9 DEF TypeOK, ReaderConnect, Connections, Backlog, slamVars, loopVars, probeVars
<1>10. CASE ReaderEof
  BY <1>10 DEF TypeOK, ReaderEof, slamVars, loopVars, probeVars
<1>11. CASE Forward
  <2> DEFINE m == Head(chan)
  <2>1. m.frame \in Frames /\ m.reset_counter \in 0 .. CounterSize - 1
    BY <1>11, HeadPose DEF Forward
  <2>2. chan' \in Seq(Pose) /\ Len(chan') <= SocketCapacity
    BY <1>11, HeadPose DEF Forward, TypeOK
  <2>3. ResetCounter(m) \in 0 .. CounterSize - 1
    BY <1>11, ResetCounterType DEF Forward
  <2>4. speed' \in [from : Frames, to : Frames, counter : 0 .. CounterSize - 1]
                     \cup {NoSpeed}
    BY <1>11, <2>1, <2>3 DEF Forward, SpeedEstimates, TypeOK
  <2>5. sentFrames' \in [0 .. CounterSize - 1 -> SUBSET [run : Nat, frame : Frames]]
    <3>1. [run |-> run, frame |-> m.frame] \in [run : Nat, frame : Frames]
      BY <2>1 DEF TypeOK
    <3> QED
      BY <1>11, <2>3, <3>1 DEF Forward, TypeOK
  <2> QED
    BY <1>11, <2>1, <2>2, <2>3, <2>4, <2>5
       DEF TypeOK, Forward, slamVars, probeVars
<1>12. CASE CounterOverflow \/ LoopStopped \/ BridgeCrash
  <2>1. CloseSocket
    BY <1>12 DEF CounterOverflow, LoopStopped, BridgeCrash
  <2>2. /\ sock' \in {"none", "open", "eof"} /\ client' \in {"none"} \cup Connections
        /\ chan' \in Seq(Pose) /\ Len(chan') <= SocketCapacity
        /\ pending' \in Seq(Connections) /\ Len(pending') <= Backlog
    BY <2>1, CloseSocketType
  <2>3. /\ bridge' \in {"down", "linking", "up", "stopped"}
        /\ crashes' \in 0 .. MaxBridgeCrashes
    BY <1>12 DEF CounterOverflow, LoopStopped, BridgeCrash, TypeOK
  <2>4. UNCHANGED <<slamVars, loopVars, stop, probeVars>>
    BY <1>12 DEF CounterOverflow, LoopStopped, BridgeCrash
  <2> QED
    BY <2>2, <2>3, <2>4 DEF TypeOK, slamVars, loopVars, probeVars
<1>13. CASE RequestStop
  <2>1. stop' \in BOOLEAN
    BY <1>13, Zenon DEF RequestStop
  <2> QED
    BY <1>13, <2>1 DEF TypeOK, RequestStop, slamVars, socketVars, loopVars, probeVars
<1>14. CASE ProbeConnect
  <2>1. pending' \in Seq(Connections) /\ Len(pending') <= Backlog
    BY <1>14 DEF TypeOK, ProbeConnect, Connections, Backlog
  <2> QED
    BY <1>14, <2>1 DEF TypeOK, ProbeConnect, slamVars, loopVars
<1>15. CASE ProbeTimeout
  <2>1. pending' \in Seq(Connections) /\ Len(pending') = Len(pending)
    <3>1. pending \in Seq(Connections)
      BY DEF TypeOK
    <3> QED
      BY <1>15, <3>1 DEF ProbeTimeout, Connections
  <2> QED
    BY <1>15, <2>1 DEF TypeOK, ProbeTimeout, Connections, slamVars, loopVars
<1>16. CASE UNCHANGED vars
  BY <1>16 DEF TypeOK, vars, slamVars, socketVars, loopVars, probeVars
<1> QED
  BY <1>1, <1>2, <1>3, <1>4, <1>5, <1>6, <1>7, <1>8, <1>9, <1>10, <1>11, <1>12, <1>13,
     <1>14, <1>15, <1>16 DEF Next, ReaderRefused, Idle

-----------------------------------------------------------------------------
(* Connections                                                             *)

LEMMA NextConnected == TypeOK /\ Connected /\ [Next]_vars => Connected'
<1> SUFFICES ASSUME TypeOK, Connected, [Next]_vars PROVE Connected'
  OBVIOUS
<1> USE DEF Connected, LiveAt
<1>0. pending \in Seq(Connections) /\ Len(pending) \in Nat /\ chan \in Seq(Pose)
  BY DEF TypeOK
<1>1. CASE UNCHANGED socketVars
  BY <1>1 DEF socketVars
<1>2. CASE SlamAccept
  <2>1. Len(pending') = Len(pending) - 1
    BY <1>0, <1>2 DEF SlamAccept
  <2>2. \A i \in DOMAIN pending' : i + 1 \in DOMAIN pending /\ pending'[i] = pending[i + 1]
    BY <1>0, <1>2 DEF SlamAccept
  <2>3. 1 \in DOMAIN pending /\ client' = pending[1]
    BY <1>0, <1>2 DEF SlamAccept
  <2>4. \A i \in DOMAIN pending : i # 1 => i - 1 \in DOMAIN pending'
    BY <1>0, <1>2 DEF SlamAccept
  <2>5. DOMAIN pending \subseteq Int /\ DOMAIN pending' \subseteq Int
    BY <1>0, <1>2 DEF SlamAccept
  <2>6. \A i \in DOMAIN pending : i # 1 => pending'[i - 1] = pending[i]
    BY <2>2, <2>4, <2>5
  <2> QED
    BY <1>2, <2>2, <2>3, <2>4, <2>5, <2>6 DEF SlamAccept
<1>3. CASE SlamPose
  BY <1>0, <1>3 DEF SlamPose
<1>4. CASE SlamCrash
  BY <1>4 DEF SlamCrash
<1>5. CASE ReaderConnect
  <2>1. \A i \in DOMAIN pending' :
          \/ i \in DOMAIN pending /\ pending'[i] = pending[i]
          \/ i = Len(pending) + 1 /\ pending'[i] = "live"
    BY <1>0, <1>5 DEF ReaderConnect
  <2>2. Len(pending) + 1 \in DOMAIN pending' /\ pending'[Len(pending) + 1] = "live"
    BY <1>0, <1>5 DEF ReaderConnect
  <2> QED
    BY <1>5, <2>1, <2>2 DEF ReaderConnect
<1>6. CASE ReaderEof
  BY <1>6 DEF ReaderEof
<1>7. CASE Forward
  BY <1>0, <1>7 DEF Forward
<1>8. CASE CounterOverflow \/ LoopStopped \/ BridgeCrash
  <2>1. CloseSocket
    BY <1>8 DEF CounterOverflow, LoopStopped, BridgeCrash
  <2> QED
    BY <2>1, CloseSocketType
<1>9. CASE ProbeConnect
  <2>1. \A i \in DOMAIN pending' :
          \/ i \in DOMAIN pending /\ pending'[i] = pending[i]
          \/ pending'[i] = "probe"
    BY <1>0, <1>9 DEF ProbeConnect
  <2>2. \A i \in DOMAIN pending : i \in DOMAIN pending' /\ pending'[i] = pending[i]
    BY <1>0, <1>9 DEF ProbeConnect
  <2> QED
    BY <1>9, <2>1, <2>2 DEF ProbeConnect
<1>10. CASE ProbeTimeout
  <2>1. DOMAIN pending' = DOMAIN pending
    BY <1>0, <1>10 DEF ProbeTimeout
  <2>2. \A i \in DOMAIN pending : pending'[i] = "live" <=> pending[i] = "live"
    BY <1>0, <1>10 DEF ProbeTimeout
  <2>3. client' = "live" <=> client = "live"
    BY <1>10 DEF ProbeTimeout
  <2> QED
    BY <1>10, <2>1, <2>2, <2>3 DEF ProbeTimeout
<1> QED
  BY <1>1, <1>2, <1>3, <1>4, <1>5, <1>6, <1>7, <1>8, <1>9, <1>10
     DEF Next, vars, SlamStart, OdometryLost, KioskServiceEnds, BridgeStart, LinkUp,
         LinkStopped, ReaderRefused, RequestStop, Idle

-----------------------------------------------------------------------------
(* Counters                                                                *)

(* The poses on their way after a step.                                    *)
LEMMA NextChannelCounts ==
    TypeOK /\ ChannelCounts /\ [Next]_vars => ChannelCounts'
<1> SUFFICES ASSUME TypeOK, ChannelCounts, [Next]_vars PROVE ChannelCounts'
  OBVIOUS
<1> USE DEF ChannelCounts
<1>0. chan \in Seq(Pose)
  BY DEF TypeOK
<1>1. CASE UNCHANGED chan
  BY <1>1
<1>2. CASE chan' = << >>
  BY <1>2
<1>3. CASE SlamPose
  <2>1. CASE UNCHANGED chan
    BY <2>1
  <2>2. CASE chan' = Append(chan, [frame |-> [life |-> life, resets |-> resets],
                                   reset_counter |-> LowByte(resets)])
    <3>1. \A i \in DOMAIN chan' :
            \/ i \in DOMAIN chan /\ chan'[i] = chan[i]
            \/ chan'[i] = [frame |-> [life |-> life, resets |-> resets],
                           reset_counter |-> LowByte(resets)]
      BY <1>0, <2>2
    <3> QED
      BY <3>1
  <2> QED
    BY <1>3, <2>1, <2>2 DEF SlamPose
<1>4. CASE Forward
  <2>1. \A i \in DOMAIN chan' : i + 1 \in DOMAIN chan /\ chan'[i] = chan[i + 1]
    BY <1>0, <1>4 DEF Forward
  <2> QED
    BY <2>1
<1> QED
  BY <1>1, <1>2, <1>3, <1>4
     DEF Next, vars, socketVars, SlamStart, SlamAccept, OdometryLost, SlamCrash,
         KioskServiceEnds, BridgeStart, LinkUp, LinkStopped, ReaderConnect, ReaderRefused,
         ReaderEof, CounterOverflow, LoopStopped, BridgeCrash, CloseSocket, RequestStop,
         ProbeConnect, ProbeTimeout, Idle

(* What the loop has sent after a step.                                    *)
LEMMA NextCounters == TypeOK /\ Counters /\ [Next]_vars => Counters'
<1> SUFFICES ASSUME TypeOK, Counters, [Next]_vars PROVE Counters'
  OBVIOUS
<1> USE DEF Counters, OneByte, LastByte, NoneAbove, NoneYet, SpeedSent
<1>0. ChannelCounts'
  BY NextChannelCounts
<1>1. CASE UNCHANGED loopVars
  BY <1>0, <1>1 DEF loopVars
<1>2. CASE BridgeStart
  <2>1. /\ run \in Nat /\ run' = run + 1 /\ sentFrames' = sentFrames /\ speed' = NoSpeed
        /\ bridge_reset_counter' \in DOMAIN sentFrames
    BY <1>2, VslamAssumption DEF BridgeStart, TypeOK
  <2>2. \A c \in DOMAIN sentFrames : \A p \in sentFrames[c] :
           p.run \in Nat /\ p.run <= run' /\ p.run # run'
    BY <2>1 DEF TypeOK
  <2> QED
    BY <1>0, <2>1, <2>2
<1>3. CASE Forward
  <2> DEFINE m == Head(chan)
             r == ResetCounter(m)
             b == bridge_reset_counter
             D == 0 .. CounterSize - 1
             e == [run |-> run, frame |-> m.frame]
  <2>1. m.frame \in Frames /\ m.reset_counter \in D
    BY <1>3, HeadPose DEF Forward
  <2>2. m.reset_counter = LowByte(m.frame.resets)
    <3>1. chan \in Seq(Pose) /\ chan # << >>
      BY <1>3 DEF Forward, TypeOK
    <3>2. 1 \in DOMAIN chan /\ m = chan[1]
      BY <3>1
    <3> QED
      BY <3>2 DEF ChannelCounts
  <2>3. r \in D /\ b \in D /\ r >= b /\ D \subseteq Int /\ last_reset_counter \in Int
    BY <1>3, ResetCounterType, VslamAssumption DEF Forward, TypeOK
  <2>4. /\ DOMAIN sentFrames = D /\ DOMAIN sentFrames' = D
        /\ sentFrames'[r] = sentFrames[r] \cup {e}
        /\ \A c \in D : c # r => sentFrames'[c] = sentFrames[c]
        /\ run' = run /\ run \in Nat /\ e.run = run /\ e.frame = m.frame
    BY <1>3, <2>3 DEF Forward, TypeOK
  <2>5. /\ bridge_reset_counter' = r /\ last_reset_counter' = m.reset_counter
        /\ speed' = speed \/ speed' = [from |-> prev, to |-> m.frame, counter |-> r]
    BY <1>3 DEF Forward, SpeedEstimates
  <2>6. \A p \in sentFrames[r] :
           p.run = run => LowByte(p.frame.resets) = LowByte(m.frame.resets)
    <3>1. CASE r # b
      BY <2>3, <2>4, <3>1
    <3>2. CASE r = b
      <4>1. m.reset_counter = last_reset_counter \/ last_reset_counter < 0
        BY <2>3, <3>2 DEF ResetCounter
      <4>2. last_reset_counter < 0 => last_reset_counter = -1
        BY VslamAssumption DEF TypeOK
      <4> QED
        BY <2>2, <3>2, <4>1, <4>2
    <3> QED
      BY <3>1, <3>2
  <2>7. speed # NoSpeed => speed.counter \in D
    BY DEF TypeOK
  <2>e. e = [run |-> run, frame |-> m.frame]
    OBVIOUS
  <2> HIDE DEF m, r, b, D, e
  <2>8. OneByte'
    BY <2>4, <2>6
  <2>9. LastByte'
    BY <2>2, <2>4, <2>5, <2>6
  <2>10. NoneAbove'
    BY <2>3, <2>4, <2>5 DEF b
  <2>11. NoneYet'
    BY <2>1, <2>5, VslamAssumption DEF D
  <2>12. SpeedSent'
    BY <2>e, <2>3, <2>4, <2>5, <2>7
  <2> QED
    BY <1>0, <2>8, <2>9, <2>10, <2>11, <2>12
<1> QED
  BY <1>1, <1>2, <1>3
     DEF Next, vars, SlamStart, SlamAccept, OdometryLost, SlamPose, SlamCrash,
         KioskServiceEnds, LinkUp, LinkStopped, ReaderConnect, ReaderRefused, ReaderEof,
         CounterOverflow, LoopStopped, BridgeCrash, RequestStop, ProbeConnect,
         ProbeTimeout, Idle

LEMMA InitIInv == Init => IInv
<1> SUFFICES ASSUME Init PROVE IInv
  OBVIOUS
<1>1. TypeOK
  BY InitTypeOK
<1>2. Connected
  BY DEF Init, Connected, LiveAt
<1>3. Counters
  BY VslamAssumption DEF Init, Counters, ChannelCounts, OneByte, LastByte,
                         NoneAbove, NoneYet, SpeedSent
<1> QED
  BY <1>1, <1>2, <1>3 DEF IInv

LEMMA NextIInv == IInv /\ [Next]_vars => IInv'
  BY NextTypeOK, NextConnected, NextCounters DEF IInv

LEMMA Invariance == Spec => []IInv
  BY InitIInv, NextIInv, PTL DEF Spec

-----------------------------------------------------------------------------
(* The variables keep their types: the reader's queue never holds more     *)
(* than the socket does, the accept queue never more than the kernel       *)
(* allows, and the counter of the bridge stays in the byte that            *)
(* VISION_POSITION_ESTIMATE has for it.                                    *)
THEOREM PipelineTypeCorrect == Spec => []TypeOK
  BY Invariance, PTL DEF IInv

(* Whoever crashes, is restarted or asks for the socket in between, the    *)
(* bridge has exactly one connection while its socket is open, and none    *)
(* otherwise.                                                              *)
THEOREM ConnectionIsUnique == Spec => []OneLiveConnection
<1>1. IInv => OneLiveConnection
  <2> SUFFICES ASSUME IInv PROVE OneLiveConnection
    OBVIOUS
  <2> USE DEF IInv, Connected, LiveAt
  <2> DEFINE L == {i \in DOMAIN pending : pending[i] = "live"}
  <2>1. CASE \E i \in DOMAIN pending : LiveAt(i)
    <3>1. PICK i \in DOMAIN pending : LiveAt(i)
      BY <2>1
    <3>2. L = {i}
      BY <3>1
    <3>3. Cardinality(L) = 1
      BY <3>2, FS_Singleton
    <3>4. client # "live" /\ sock = "open"
      BY <3>1
    <3> QED
      BY <3>3, <3>4 DEF OneLiveConnection
  <2>2. CASE ~\E i \in DOMAIN pending : LiveAt(i)
    <3>1. L = {}
      BY <2>2
    <3>2. Cardinality(L) = 0
      BY <3>1, FS_EmptySet
    <3>3. sock = "open" <=> client = "live"
      BY <2>2
    <3> QED
      BY <3>2, <3>3 DEF OneLiveConnection
  <2> QED
    BY <2>1, <2>2
<1> QED
  BY <1>1, Invariance, PTL

(* Two poses of one start of the SLAM node that left one run of the bridge *)
(* with the same reset counter are in the same frame, if they are less     *)
(* than a turn of the counter apart: only a restart of the bridge, whose   *)
(* counter begins at 0 again, hides a reset from the flight controller.    *)
THEOREM CounterNamesFrame == Spec => []SameCounterSameFrame
<1>1. IInv => SameCounterSameFrame
  <2> SUFFICES ASSUME IInv, NEW c \in DOMAIN sentFrames,
                      NEW p \in sentFrames[c], NEW q \in sentFrames[c],
                      Near(p.frame, q.frame), p.run = q.run
               PROVE  p.frame = q.frame
    BY DEF SameCounterSameFrame
  <2>1. p.frame \in Frames /\ q.frame \in Frames
    BY DEF IInv, TypeOK
  <2>2. LowByte(p.frame.resets) = LowByte(q.frame.resets)
    BY DEF IInv, Counters, OneByte
  <2> QED
    BY <2>1, <2>2, LowByteTells
<1> QED
  BY <1>1, Invariance, PTL

(* A speed differenced across a reset of the odometry goes out with a      *)
(* counter under which this run never sent the earlier of its two poses.   *)
THEOREM JumpIsFlagged == Spec => []SpeedAcrossResetIsFlagged
<1>1. IInv => SpeedAcrossResetIsFlagged
  <2> SUFFICES ASSUME IInv, speed.from # speed.to, Near(speed.from, speed.to),
                      [run |-> run, frame |-> speed.from] \in sentFrames[speed.counter]
               PROVE  FALSE
    BY DEF SpeedAcrossResetIsFlagged
  <2>1. speed # NoSpeed
    BY DEF NoSpeed
  <2>2. speed.from \in Frames /\ speed.to \in Frames /\ speed.counter \in DOMAIN sentFrames
    BY <2>1 DEF IInv, TypeOK
  <2>3. [run |-> run, frame |-> speed.to] \in sentFrames[speed.counter]
    BY <2>1 DEF IInv, Counters, SpeedSent
  <2>4. LowByte(speed.from.resets) = LowByte(speed.to.resets)
    BY <2>2, <2>3 DEF IInv, Counters, OneByte
  <2> QED
    BY <2>2, <2>4, LowByteTells
<1> QED
  BY <1>1, Invariance, PTL

-----------------------------------------------------------------------------
(* The services under systemd                                              *)

Service ==
    [state : States, since : Nat, silent : Nat, gap : Nat, begun : Nat, starts : Nat]

(* The records systemd keeps: it never counts more than Burst starts, and  *)
(* an active service is within its watchdog time.                          *)
ServiceTypeOK ==
    /\ trouble \in Troubles /\ outage \in 0 .. MaxOutage
    /\ svc \in [Services -> Service]
    /\ \A s \in Services : /\ svc[s].starts \in 1 .. Burst
                           /\ svc[s].begun <= Interval[s]
                           /\ svc[s].state = "active" => svc[s].silent < WatchdogSec

(* The watchdog timer runs ahead of the last pose by less than the time    *)
(* between two notifications: a pose either notifies or finds the last     *)
(* notification younger than that.                                         *)
SilentFollowsGap ==
    \A s \in Services : svc[s].silent < svc[s].gap + Notify(s)

ServicesIInv == ServiceTypeOK /\ SilentFollowsGap

LEMMA NotifyPositive == \A s \in Services : Notify(s) \in Nat \ {0}
  BY ServicesAssumption DEF Notify, Services

LEMMA ServicesInitIInv == ServicesInit => ServicesIInv
<1> SUFFICES ASSUME ServicesInit PROVE ServicesIInv
  OBVIOUS
<1> DEFINE w(s) == [Started(Interval[s], 1) EXCEPT !.state = "waiting", !.since = RestartSec]
<1>1. /\ Started(0, 1) \in Service /\ Started(0, 1).starts = 1 /\ Started(0, 1).begun = 0
      /\ Started(0, 1).silent = 0 /\ Started(0, 1).gap = 0 /\ Started(0, 1).state = "starting"
  BY DEF Started, Service, States
<1>2. ASSUME NEW s \in Services
      PROVE  /\ w(s) \in Service /\ w(s).starts = 1 /\ w(s).begun = Interval[s]
             /\ w(s).silent = 0 /\ w(s).gap = 0 /\ w(s).state = "waiting"
  BY ServicesAssumption DEF Started, Service, States
<1>w. svc = [s \in Services |-> IF s = "slam" THEN Started(0, 1) ELSE w(s)]
  BY DEF ServicesInit
<1> HIDE DEF w
<1>3. \A s \in Services : /\ svc[s] \in Service /\ svc[s].starts = 1
                          /\ svc[s].begun \in {0, Interval[s]} /\ svc[s].silent = 0
                          /\ svc[s].gap = 0 /\ svc[s].state # "active"
  BY <1>1, <1>2, <1>w
<1>3a. svc \in [Services -> Service]
  BY <1>1, <1>2, <1>w
<1>4. trouble \in Troubles /\ outage \in 0 .. MaxOutage
  <2>1. trouble = "none" /\ outage = 0
    BY Zenon DEF ServicesInit
  <2>2. MaxOutage \in Nat
    BY Zenon, ServicesAssumption
  <2> QED
    BY <2>1, <2>2 DEF Troubles
<1>5. SilentFollowsGap
  BY <1>3, NotifyPositive DEF SilentFollowsGap
<1> QED
  <2>1. \A s \in Services : Interval[s] \in Nat /\ svc[s].begun <= Interval[s]
    BY <1>3, ServicesAssumption
  <2>2. Burst \in Nat /\ 1 \in 1 .. Burst
    BY ServicesAssumption
  <2> QED
    BY <1>3, <1>3a, <1>4, <1>5, <2>1, <2>2 DEF ServicesIInv, ServiceTypeOK

(* What a second does to the record of one service.                        *)
Sound(s, r) ==
    /\ r \in Service
    /\ r.starts \in 1 .. Burst /\ r.begun <= Interval[s]
    /\ r.state = "active" => r.silent < WatchdogSec
    /\ r.silent < r.gap + Notify(s)

LEMMA AfterIsSound ==
  ASSUME ServicesIInv, NEW s \in Services
  PROVE  Sound(s, After(s))
<1> DEFINE r == svc[s]
<1>1. /\ r \in Service /\ r.starts \in 1 .. Burst /\ r.begun <= Interval[s]
      /\ r.state = "active" => r.silent < WatchdogSec
      /\ r.silent < r.gap + Notify(s)
  BY DEF ServicesIInv, ServiceTypeOK, SilentFollowsGap
<1>2. /\ WatchdogSec \in Nat \ {0} /\ RestartSec \in Nat \ {0} /\ Burst \in Nat \ {0}
      /\ Interval[s] \in Nat \ {0} /\ Notify(s) \in Nat \ {0}
  BY ServicesAssumption, NotifyPositive
<1>3. /\ Clocked(s) \in Service
      /\ Clocked(s).starts = r.starts /\ Clocked(s).begun <= Interval[s]
      /\ Clocked(s).state = r.state /\ Clocked(s).silent = r.silent
      /\ Clocked(s).gap = r.gap /\ Clocked(s).since = r.since
  BY <1>1, <1>2 DEF Clocked, Service
<1>4. ASSUME NEW st \in States, NEW n \in Nat
      PROVE  Sound(s, Enter(s, st, n))
  <2>1. /\ Enter(s, st, n) \in Service
        /\ Enter(s, st, n).starts = Clocked(s).starts
        /\ Enter(s, st, n).begun = Clocked(s).begun
        /\ Enter(s, st, n).silent = 0 /\ Enter(s, st, n).gap = 0
    BY <1>3 DEF Enter, Service
  <2> QED
    BY <1>1, <1>2, <1>3, <2>1 DEF Sound
<1>5. ASSUME r.state # "active" PROVE Sound(s, Stay(s)) /\ Sound(s, Clocked(s))
  <2>1. /\ Stay(s) \in Service
        /\ Stay(s).starts = Clocked(s).starts /\ Stay(s).begun = Clocked(s).begun
        /\ Stay(s).silent = r.silent /\ Stay(s).gap = r.gap /\ Stay(s).state = r.state
    BY <1>3 DEF Stay, Service
  <2> QED
    BY <1>1, <1>3, <1>5, <2>1 DEF Sound
<1>6. ASSUME NEW b \in 0 .. Interval[s], NEW n \in 1 .. Burst
      PROVE  Sound(s, Started(b, n))
  <2>1. /\ Started(b, n) \in Service
        /\ Started(b, n).starts = n /\ Started(b, n).begun = b
        /\ Started(b, n).silent = 0 /\ Started(b, n).gap = 0
        /\ Started(b, n).state = "starting"
    BY <1>2, <1>6 DEF Started, Service, States
  <2> QED
    BY <1>2, <1>6, <2>1 DEF Sound
<1>7. CASE r.state = "starting"
  <2>1. After(s) = Starting(s)
    BY <1>7 DEF After, In
  <2> QED
    BY <1>2, <1>4, <1>5, <1>7, <2>1 DEF Starting, States
<1>8. CASE r.state = "active"
  <2>1. After(s) = Active(s)
    BY <1>8 DEF After, In
  <2>2. CASE Killed(s) \/ StopsFor(s)
    BY <1>4, <2>1, <2>2 DEF Active, States
  <2>3. CASE ~Killed(s) /\ ~StopsFor(s)
    <3> DEFINE q == [Clocked(s) EXCEPT !.silent = Silent(s), !.gap = Gap(s)]
    <3>1. /\ Silent(s) \in Nat /\ Gap(s) \in Nat
          /\ Silent(s) < Gap(s) + Notify(s)
      BY <1>1, <1>2 DEF Silent, Gap, Service
    <3>2. Silent(s) < WatchdogSec
      BY <1>2, <1>8, <2>3, <3>1 DEF Killed, In
    <3>3. /\ q \in Service /\ q.starts = r.starts /\ q.begun <= Interval[s]
          /\ q.silent = Silent(s) /\ q.gap = Gap(s)
      BY <1>3, <3>1 DEF Service
    <3>4. Sound(s, q)
      BY <1>1, <3>1, <3>2, <3>3 DEF Sound
    <3> QED
      BY <2>1, <2>3, <3>4 DEF Active
  <2> QED
    BY <2>2, <2>3
<1>9. CASE r.state = "stopping"
  <2>1. After(s) = Stopping(s)
    BY <1>9 DEF After, In
  <2> QED
    BY <1>2, <1>4, <1>5, <1>9, <2>1 DEF Stopping, States
<1>10. CASE r.state = "waiting"
  <2>1. After(s) = Waiting(s)
    BY <1>10 DEF After, In
  <2>2. Sound(s, Started(0, 1))
    BY <1>2, <1>6
  <2>3. ASSUME r.begun < Interval[s], r.starts < Burst
        PROVE  Sound(s, Started(r.begun + 1, r.starts + 1))
    BY <1>1, <1>2, <1>6, <2>3 DEF Service
  <2>4. r.begun \in Nat /\ r.starts \in Nat
    BY <1>1 DEF Service
  <2> QED
    BY <1>2, <1>4, <1>5, <1>10, <2>1, <2>2, <2>3, <2>4 DEF Waiting, States
<1>11. CASE r.state \in {"failed", "inactive"}
  <2>1. After(s) = r
    BY <1>11 DEF After, In
  <2> QED
    BY <1>1, <2>1 DEF Sound
<1> QED
  BY <1>1, <1>7, <1>8, <1>9, <1>10, <1>11 DEF Service, States

LEMMA ServicesNextIInv == ServicesIInv /\ [ServicesNext]_serviceVars => ServicesIInv'
<1> SUFFICES ASSUME ServicesIInv, [ServicesNext]_serviceVars PROVE ServicesIInv'
  OBVIOUS
<1>1. CASE Tick
  <2>1. \A s \in Services : svc'[s] = After(s) /\ Sound(s, After(s))
    BY <1>1, AfterIsSound DEF Tick
  <2>2. svc' \in [Services -> Service]
    BY <1>1, <2>1 DEF Tick, Sound
  <2>3. trouble' \in Troubles /\ outage' \in 0 .. MaxOutage
    BY <1>1, ServicesAssumption DEF Tick, ServicesIInv, ServiceTypeOK
  <2>4. ServiceTypeOK'
    BY <2>1, <2>2, <2>3 DEF Sound, ServiceTypeOK
  <2>5. SilentFollowsGap'
    BY <2>1 DEF Sound, SilentFollowsGap, Notify
  <2> QED
    BY <2>4, <2>5 DEF ServicesIInv
<1>2. CASE Lose \/ Recover \/ UNCHANGED serviceVars
  <2>1. trouble' \in Troubles /\ outage' = outage /\ svc' = svc
    BY <1>2 DEF Lose, Recover, serviceVars, ServicesIInv, ServiceTypeOK, Troubles
  <2> QED
    BY <2>1 DEF ServicesIInv, ServiceTypeOK, SilentFollowsGap, Notify
<1> QED
  BY <1>1, <1>2 DEF ServicesNext

(* systemd counts the starts of a unit up to its limit and no further, and *)
(* a service that is active has notified within its WatchdogSec.           *)
THEOREM ServiceTypeCorrect == ServicesSpec => []ServiceTypeOK
<1>1. ServicesIInv => ServiceTypeOK
  BY DEF ServicesIInv
<1> QED
  BY <1>1, ServicesInitIInv, ServicesNextIInv, PTL DEF ServicesSpec

(* Whatever the times, no service is killed while poses come: it then had  *)
(* handled none for longer than WatchdogSec less its notification interval *)
(* (15 s of the 30 for the SLAM node, 29 s for the bridge).                *)
THEOREM KillNeedsGap == ServicesSpec => []KilledOnlyAfterGap
<1>1. ASSUME ServicesIInv, NEW s \in Services, Killed(s)
      PROVE  Gap(s) > WatchdogSec - Notify(s)
  <2>1. /\ svc[s].silent \in Nat /\ svc[s].gap \in Nat /\ Notify(s) \in Nat \ {0}
        /\ WatchdogSec \in Nat /\ svc[s].silent < svc[s].gap + Notify(s)
    BY <1>1, NotifyPositive, ServicesAssumption
    DEF ServicesIInv, ServiceTypeOK, SilentFollowsGap, Service
  <2>2. Silent(s) >= WatchdogSec
    BY <1>1 DEF Killed
  <2> QED
    BY <2>1, <2>2 DEF Silent, Gap
<1>2. ServicesIInv => KilledOnlyAfterGap
  BY <1>1 DEF KilledOnlyAfterGap
<1> QED
  BY <1>2, ServicesInitIInv, ServicesNextIInv, PTL DEF ServicesSpec
=============================================================================
