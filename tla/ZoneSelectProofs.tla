--------------------------- MODULE ZoneSelectProofs --------------------------
(***************************************************************************)
(* Over every link, duplicating ones too: the types of ZoneSelect, and     *)
(* that a clear and a verification which returned tell the truth about the *)
(* flight controller.  Over a link that loses messages but does not        *)
(* duplicate them: "selected successfully" implies that the new zone is    *)
(* stored, a failed selection leaves no mixture unless a clear failed, and *)
(* ZoneSelect implements ZoneTransaction.                                  *)
(***************************************************************************)
EXTENDS ZoneSelect, SequenceTheorems, TLAPS

USE DEF Uploaded

-----------------------------------------------------------------------------
(* Facts about the links                                                   *)

(* A message sent is appended or lost; the rest of the link is untouched.  *)
LEMMA SendFacts ==
    ASSUME NEW link \in Seq(Message), NEW m \in Message
    PROVE  /\ Send(link, m) \in Seq(Message)
           /\ \/ Send(link, m) = link
              \/ /\ Len(Send(link, m)) = Len(link) + 1
                 /\ \A i \in 1 .. Len(link) : Send(link, m)[i] = link[i]
                 /\ Send(link, m)[Len(link) + 1] = m
  BY LinkAssumption DEF Send

(* What is left of a link after its oldest message was taken.              *)
LEMMA TailFacts ==
    ASSUME NEW link \in Seq(Message), link # << >>
    PROVE  /\ Tail(link) \in Seq(Message)
           /\ Head(link) \in Message
           /\ Head(link) = link[1]
           /\ Len(link) \in Nat \ {0}
           /\ Len(Tail(link)) = Len(link) - 1
           /\ \A i \in 1 .. Len(Tail(link)) : Tail(link)[i] = link[i + 1]
  OBVIOUS

(* The kinds of message, and what each carries.                            *)
LEMMA MessageFacts ==
    ASSUME NEW m \in Message
    PROVE  /\ m.type \in MissionTypes
           /\ m.kind = "COUNT" => m.n \in Nat
           /\ m.kind = "REQUEST" => m.seq \in Nat
           /\ m.kind = "ITEM" => m.seq \in Nat /\ m.zone \in Zones
           /\ m.kind = "ACK" => m.ok \in BOOLEAN
  BY DEF Message

(* The messages that are sent are messages.                                *)
LEMMA Constructors ==
    ASSUME NEW t \in MissionTypes
    PROVE  /\ \A n \in Nat : Count(t, n) \in Message
           /\ \A i \in Nat : Request(t, i) \in Message
           /\ \A i \in Nat, z \in Zones : ItemMsg(t, i, z) \in Message
           /\ \A ok \in BOOLEAN : Ack(t, ok) \in Message
           /\ ListReq(t) \in Message
           /\ ClearAll(t) \in Message
  BY DEF Message, Count, Request, ItemMsg, Ack, ListReq, ClearAll

(* Every zone has at least one item of each type.                          *)
LEMMA CountsPositive ==
    ASSUME NEW z \in Zones, NEW t \in MissionTypes
    PROVE  ItemCount[z][t] \in Nat /\ ItemCount[z][t] > 0
  BY ItemCountAssumption

(* The items of a zone are a sequence of zones.                            *)
LEMMA ItemsType ==
    ASSUME NEW z \in Zones, NEW t \in MissionTypes
    PROVE  Items(z, t) \in Seq(Zones)
  BY CountsPositive DEF Items

(* What follows a mission type is a mission type, or "none".               *)
LEMMA NextTypeFacts ==
    ASSUME NEW t \in MissionTypes
    PROVE  NextType(t) # "none" => NextType(t) \in MissionTypes
  BY DEF NextType, MissionTypes

(* An overwritten store is a sequence of zones.                            *)
LEMMA OverwriteType ==
    ASSUME NEW s \in Seq(Zones), NEW b \in Seq(Zones)
    PROVE  Overwrite(s, b) \in Seq(Zones)
  BY SubSeqProperties, ConcatProperties DEF Overwrite

(* The records of an upload.                                               *)
LEMMA TransferFacts ==
    /\ NotReceiving \in Transfer
    /\ ~NotReceiving.active
    /\ \A t \in MissionTypes, n \in Nat, b \in Seq(Zones) :
         /\ Receiving(t, n, b) \in Transfer
         /\ Receiving(t, n, b).active
         /\ Receiving(t, n, b).type = t
         /\ Receiving(t, n, b).n = n
         /\ Receiving(t, n, b).buf = b
    /\ \A t \in MissionTypes, n \in Nat : Receiving(t, n, << >>) \in Transfer
    /\ << >> \in Seq(Zones)
    /\ \A r \in Transfer :
         /\ r.active \in BOOLEAN
         /\ r.type \in MissionTypes
         /\ r.n \in Nat
         /\ r.buf \in Seq(Zones)
         /\ Len(r.buf) \in Nat
<1>1. << >> \in Seq(Zones) /\ "MISSION" \in MissionTypes
  BY DEF MissionTypes
<1> QED
  BY <1>1 DEF NotReceiving, Receiving, Transfer

-----------------------------------------------------------------------------
(* Type correctness, one lemma per part of the next-state relation.        *)

(* The link and the flight controller.                                     *)
LEMMA EnvironmentType ==
    ASSUME ProtocolTypeOK, Environment
    PROVE  ProtocolTypeOK'
<1> USE DEF ProtocolTypeOK, callVars, fcVars
<1>1. CASE LoseToFC
  BY <1>1, TailFacts DEF LoseToFC
<1>2. CASE LoseToGCS
  BY <1>2, TailFacts DEF LoseToGCS
<1>3. CASE DuplicateToGCS
  <2>1. toGCS' \in Seq(Message)
    BY <1>3, TailFacts, ConcatProperties DEF DuplicateToGCS
  <2> QED
    BY <1>3, <2>1 DEF DuplicateToGCS
<1>4. CASE FcCount
  <2> DEFINE m == Head(toFC)
  <2>1. m \in Message /\ toFC' \in Seq(Message)
    BY <1>4, TailFacts DEF FcCount
  <2>2. m.type \in MissionTypes /\ m.n \in Nat
    BY <1>4, <2>1, MessageFacts DEF FcCount
  <2>3. Request(m.type, 0) \in Message /\ Ack(m.type, FALSE) \in Message
    BY <2>2, Constructors
  <2>4. toGCS' \in Seq(Message)
    BY <1>4, <2>3, SendFacts DEF FcCount
  <2>5. rx' \in Transfer
    <3>1. rx' = Receiving(m.type, m.n, << >>) \/ rx' = NotReceiving
      BY <1>4 DEF FcCount
    <3>2. Receiving(m.type, m.n, << >>) \in Transfer
      BY <2>2, TransferFacts
    <3> QED
      BY <3>1, <3>2, TransferFacts
  <2> QED
    BY <1>4, <2>1, <2>4, <2>5 DEF FcCount
<1>5. CASE FcItem
  <2> DEFINE buf == Append(rx.buf, Head(toFC).zone)
             last == Len(buf) >= rx.n
  <2>1. Head(toFC) \in Message /\ toFC' \in Seq(Message)
    BY <1>5, TailFacts DEF FcItem
  <2>2. Head(toFC).zone \in Zones
    BY <1>5, <2>1, MessageFacts DEF FcItem
  <2>0. rx.type \in MissionTypes /\ rx.n \in Nat /\ rx.buf \in Seq(Zones)
    BY TransferFacts
  <2>3. buf \in Seq(Zones) /\ rx.type \in MissionTypes /\ Len(buf) \in Nat
    BY <2>0, <2>2
  <2> HIDE DEF buf
  <2>4. rx' \in Transfer
    <3>1. rx' = IF last THEN NotReceiving ELSE Receiving(rx.type, rx.n, buf)
      BY <1>5 DEF FcItem, buf
    <3> QED
      BY <3>1, <2>0, <2>3, TransferFacts
  <2>5. store' \in [MissionTypes -> Seq(Zones)]
    <3>1. store' = [store EXCEPT ![rx.type] =
                      IF last THEN buf
                      ELSE IF rx.type \in InPlace THEN Overwrite(@, buf)
                      ELSE @]
      BY <1>5 DEF FcItem, buf
    <3>2. Overwrite(store[rx.type], buf) \in Seq(Zones)
      BY <2>3, OverwriteType
    <3> QED
      BY <3>1, <3>2, <2>3
  <2>6. toGCS' \in Seq(Message)
    <3>1. Ack(rx.type, TRUE) \in Message /\ Request(rx.type, Len(buf)) \in Message
      BY <2>3, Constructors
    <3>2. toGCS' = Send(toGCS, IF last THEN Ack(rx.type, TRUE)
                                       ELSE Request(rx.type, Len(buf)))
      BY <1>5 DEF FcItem, buf
    <3> QED
      BY <3>1, <3>2, SendFacts
  <2> QED
    BY <1>5, <2>1, <2>4, <2>5, <2>6 DEF FcItem
<1>6. CASE FcUnexpectedItem
  <2>1. Head(toFC) \in Message /\ toFC' \in Seq(Message)
    BY <1>6, TailFacts DEF FcUnexpectedItem
  <2>2. Ack(Head(toFC).type, FALSE) \in Message
    BY <2>1, MessageFacts, Constructors
  <2>3. toGCS' \in Seq(Message)
    BY <1>6, <2>2, SendFacts DEF FcUnexpectedItem
  <2> QED
    BY <1>6, <2>1, <2>3 DEF FcUnexpectedItem
<1>7. CASE FcRepeatRequest
  <2>1. Request(rx.type, Len(rx.buf)) \in Message
    BY TransferFacts, Constructors
  <2> QED
    BY <1>7, <2>1, SendFacts DEF FcRepeatRequest
<1>8. CASE FcAbandon
  <2>1. Ack(rx.type, FALSE) \in Message
    BY TransferFacts, Constructors
  <2>2. toGCS' \in Seq(Message)
    BY <1>8, <2>1, SendFacts DEF FcAbandon
  <2> QED
    BY <1>8, <2>2, TransferFacts DEF FcAbandon
<1>9. CASE FcList
  <2> DEFINE t == Head(toFC).type
  <2>1. t \in MissionTypes /\ toFC' \in Seq(Message)
    BY <1>9, TailFacts, MessageFacts DEF FcList
  <2>2. Len(store[t]) \in Nat
    BY <2>1
  <2>3. Count(t, Len(store[t])) \in Message
    BY <2>1, <2>2, Constructors
  <2>4. toGCS' \in Seq(Message)
    BY <1>9, <2>3, SendFacts DEF FcList
  <2> QED
    BY <1>9, <2>1, <2>4 DEF FcList
<1>10. CASE FcGet
  <2> DEFINE m == Head(toFC)
  <2>1. m \in Message /\ toFC' \in Seq(Message)
    BY <1>10, TailFacts DEF FcGet
  <2>2. m.type \in MissionTypes /\ m.seq \in Nat
    BY <1>10, <2>1, MessageFacts DEF FcGet
  <2>3. Ack(m.type, FALSE) \in Message
    BY <2>2, Constructors
  <2>4. ASSUME m.seq < Len(store[m.type])
        PROVE  ItemMsg(m.type, m.seq, store[m.type][m.seq + 1]) \in Message
    <3>1. store[m.type] \in Seq(Zones)
      BY <2>2
    <3>2. store[m.type][m.seq + 1] \in Zones
      BY <3>1, <2>2, <2>4
    <3> QED
      BY <2>2, <3>2, Constructors
  <2>5. toGCS' \in Seq(Message)
    BY <1>10, <2>3, <2>4, SendFacts DEF FcGet
  <2> QED
    BY <1>10, <2>1, <2>5 DEF FcGet
<1>11. CASE FcClear
  <2> DEFINE t == Head(toFC).type
  <2>1. t \in MissionTypes /\ toFC' \in Seq(Message)
    BY <1>11, TailFacts, MessageFacts DEF FcClear
  <2>2. Ack(t, TRUE) \in Message /\ Ack(t, FALSE) \in Message
    BY <2>1, Constructors
  <2>3. toGCS' \in Seq(Message)
    BY <1>11, <2>2, SendFacts DEF FcClear
  <2>4. \A home \in {0, 1} : home <= Len(store[t]) =>
                                SubSeq(store[t], 1, home) \in Seq(Zones)
    <3>1. store[t] \in Seq(Zones) /\ Len(store[t]) \in Nat
      BY <2>1
    <3> QED
      BY <3>1, SubSeqProperties
  <2>5. store' \in [MissionTypes -> Seq(Zones)]
    BY <1>11, <2>1, <2>4 DEF FcClear
  <2> QED
    BY <1>11, <2>1, <2>3, <2>5 DEF FcClear
<1>12. CASE FcAck
  BY <1>12, TailFacts DEF FcAck
<1> QED
  BY <1>1, <1>2, <1>3, <1>4, <1>5, <1>6, <1>7, <1>8, <1>9, <1>10, <1>11, <1>12
     DEF Environment

(* The receive loops of mission.py.                                        *)
LEMMA ProgramType ==
    ASSUME ProtocolTypeOK, Program
    PROVE  ProtocolTypeOK'
<1> USE DEF ProtocolTypeOK, linkVars, fcVars, Return, Calls
<1>1. CASE UploadRecv
  <2> DEFINE m == Head(toGCS)
  <2>1. m \in Message /\ toGCS' \in Seq(Message)
    BY <1>1, TailFacts DEF UploadRecv
  <2>2. m.kind = "REQUEST" => m.seq \in Nat /\ ItemMsg(type, m.seq, NewZone) \in Message
    BY <2>1, MessageFacts, Constructors DEF Zones
  <2>3. toFC' \in Seq(Message)
    BY <1>1, <2>2, SendFacts DEF UploadRecv
  <2>4. sent' \subseteq Nat
    BY <1>1, <2>2 DEF UploadRecv
  <2>5. call' \in Calls /\ ret' \in {"none", "ok", "error"}
    BY <1>1 DEF UploadRecv
  <2> QED
    BY <1>1, <2>1, <2>3, <2>4, <2>5 DEF UploadRecv
<1>2. CASE FinalAckRecv
  BY <1>2, TailFacts DEF FinalAckRecv
<1>3. CASE CountRecv
  <2>1. Head(toGCS) \in Message /\ toGCS' \in Seq(Message)
    BY <1>3, TailFacts DEF CountRecv
  <2>2. Request(type, 0) \in Message
    BY Constructors
  <2>3. toFC' \in Seq(Message)
    BY <1>3, <2>2, SendFacts DEF CountRecv
  <2>4. expected' \in Nat
    BY <1>3, <2>1, MessageFacts DEF CountRecv
  <2> QED
    BY <1>3, <2>1, <2>3, <2>4 DEF CountRecv
<1>4. CASE ItemRecv
  <2>1. Head(toGCS) \in Message /\ toGCS' \in Seq(Message)
    BY <1>4, TailFacts DEF ItemRecv
  <2>2. items' \in Seq(Zones) /\ Len(items') \in Nat
    <3>1. items' = items \/ (/\ Head(toGCS).kind = "ITEM"
                             /\ items' = Append(items, Head(toGCS).zone))
      BY <1>4 DEF ItemRecv
    <3>2. Head(toGCS).kind = "ITEM" => Append(items, Head(toGCS).zone) \in Seq(Zones)
      BY <2>1, MessageFacts
    <3>3. items' \in Seq(Zones)
      BY <3>1, <3>2
    <3> QED
      BY <3>3
  <2>3. Request(type, Len(items')) \in Message /\ Ack(type, TRUE) \in Message
    BY <2>2, Constructors
  <2>4. toFC' \in Seq(Message)
    BY <1>4, <2>3, SendFacts DEF ItemRecv
  <2> QED
    BY <1>4, <2>1, <2>2, <2>4 DEF ItemRecv
<1>5. CASE ClearAckRecv
  <2>1. toGCS' \in Seq(Message)
    BY <1>5, TailFacts DEF ClearAckRecv
  <2>2. toFC' \in Seq(Message)
    BY <1>5, Constructors, SendFacts DEF ClearAckRecv
  <2> QED
    <3>1. items' = items \/ items' = << >>
      BY <1>5 DEF ClearAckRecv
    <3>2. items' \in Seq(Zones)
      BY <3>1, TransferFacts
    <3> QED
      BY <1>5, <2>1, <2>2, <3>2 DEF ClearAckRecv
<1>6. CASE CallTimeout
  BY <1>6 DEF CallTimeout
<1> QED
  BY <1>1, <1>2, <1>3, <1>4, <1>5, <1>6 DEF Program

(* Starting a call of any of the three kinds.                              *)
LEMMA StartType ==
    ASSUME ProtocolTypeOK, NEW t \in MissionTypes,
           StartUpload(t) \/ StartDownload(t) \/ StartClear(t)
    PROVE  ProtocolTypeOK'
<1>1. ItemCount[NewZone][t] \in Nat
  BY CountsPositive DEF Zones
<1>2. Count(t, ItemCount[NewZone][t]) \in Message /\ ListReq(t) \in Message
        /\ ClearAll(t) \in Message
  BY <1>1, Constructors
<1>3. toFC' \in Seq(Message)
  BY <1>2, SendFacts DEF StartUpload, StartDownload, StartClear, ProtocolTypeOK
<1>4. items' \in Seq(Zones)
  BY TransferFacts DEF StartUpload, StartDownload, StartClear, ProtocolTypeOK
<1> QED
  BY <1>3, <1>4 DEF StartUpload, StartDownload, StartClear, ProtocolTypeOK, fcVars, Calls

(* The steps of select_zone.                                               *)
LEMMA SelectType ==
    ASSUME TypeOK, Select \/ VerifyRaised
    PROVE  TypeOK'
<1> USE DEF TypeOK, Places, Outcomes, End
<1>0. ASSUME UNCHANGED protocolVars PROVE ProtocolTypeOK'
  BY <1>0 DEF ProtocolTypeOK, protocolVars, linkVars, fcVars, callVars
<1>m. "MISSION" \in MissionTypes /\ type \in MissionTypes
  BY DEF MissionTypes, ProtocolTypeOK
<1>1. CASE Confirm
  BY <1>0, <1>1 DEF Confirm
<1>2. CASE Connect
  BY <1>0, <1>2 DEF Connect
<1>3. CASE CheckNotArmed
  BY <1>0, <1>3 DEF CheckNotArmed
<1>4. CASE ActivateZoneOnJetson
  BY <1>0, <1>4 DEF ActivateZoneOnJetson, JetsonState
<1>4a. CASE ActivateReturned
  BY <1>0, <1>4a DEF ActivateReturned
<1>5. CASE Plan
  <2>1. ProtocolTypeOK'
    BY <1>0, <1>m, <1>5, StartType DEF Plan
  <2> QED
    BY <1>5, <2>1 DEF Plan
<1>6. CASE UploadReturned
  <2>1. ProtocolTypeOK'
    BY <1>m, <1>6, NextTypeFacts, StartType DEF UploadReturned
  <2> QED
    BY <1>6, <2>1 DEF UploadReturned
<1>7. CASE UploadRaised
  <2>1. ProtocolTypeOK'
    BY <1>m, <1>7, StartType DEF UploadRaised
  <2> QED
    BY <1>7, <2>1 DEF UploadRaised
<1>8. CASE VerifyReturned
  <2>1. ProtocolTypeOK'
    BY <1>0, <1>m, <1>8, NextTypeFacts, StartType DEF VerifyReturned
  <2> QED
    BY <1>8, <1>m, <2>1 DEF VerifyReturned, Uploaded
<1>8a. CASE VerifyRaised
  <2>1. ProtocolTypeOK'
    BY <1>m, <1>8a, StartType DEF VerifyRaised
  <2> QED
    BY <1>8a, <2>1 DEF VerifyRaised
<1>9. CASE ClearReturned
  <2>1. ProtocolTypeOK'
    BY <1>0, <1>m, <1>9, NextTypeFacts, StartType DEF ClearReturned
  <2> QED
    BY <1>9, <1>m, <2>1 DEF ClearReturned
<1> QED
  BY <1>1, <1>2, <1>3, <1>4, <1>4a, <1>5, <1>6, <1>7, <1>8, <1>8a, <1>9 DEF Select

(* The initial states have the types.                                      *)
LEMMA InitType == Init => TypeOK
<1> SUFFICES ASSUME Init PROVE TypeOK
  OBVIOUS
<1>1. store \in [MissionTypes -> Seq(Zones)]
  BY ItemsType DEF Init, ProtocolInit, Zones
<1>2. << >> \in Seq(Message) /\ << >> \in Seq(Zones)
  OBVIOUS
<1>3. ProtocolTypeOK
  BY <1>1, <1>2, TransferFacts
     DEF Init, ProtocolInit, ProtocolTypeOK, MissionTypes, Calls
<1> QED
  BY <1>3, OptionsAssumption DEF Init, TypeOK, Places, Outcomes, Zones, JetsonState

(* The steps of the Jetson.                                                *)
LEMMA JetsonType ==
    ASSUME TypeOK, Jetson
    PROVE  TypeOK'
<1> USE DEF TypeOK, JetsonState
<1>1. UNCHANGED <<protocolVars, pc, opt, outcome, verified, cleared, armed>>
  BY DEF Jetson, JetsonSaves, JetsonRestarts, JetsonRestartsBridge, SlamRestarts, Remote
<1>2. ProtocolTypeOK'
  BY <1>1 DEF ProtocolTypeOK, protocolVars, linkVars, fcVars, callVars
<1>3. jetson' \in JetsonState
  BY DEF Jetson, JetsonSaves, JetsonRestarts, JetsonRestartsBridge, SlamRestarts, Remote,
     Zones
<1> QED
  BY <1>1, <1>2, <1>3

(* Every step keeps the types.                                             *)
LEMMA TypeStep == TypeOK /\ [Next]_vars => TypeOK'
<1> SUFFICES ASSUME TypeOK, [Next]_vars PROVE TypeOK'
  OBVIOUS
<1>1. CASE Select \/ VerifyRaised
  BY <1>1, SelectType
<1>2. CASE Program /\ UNCHANGED progVars
  BY <1>2, ProgramType DEF TypeOK, progVars
<1>3. CASE Environment /\ UNCHANGED progVars
  BY <1>3, EnvironmentType DEF TypeOK, progVars
<1>4. CASE Arm
  BY <1>4 DEF Arm, TypeOK, ProtocolTypeOK, protocolVars, linkVars, fcVars, callVars
<1>5. CASE UNCHANGED vars
  BY <1>5 DEF TypeOK, ProtocolTypeOK, vars, linkVars, fcVars, callVars, progVars
<1>6. CASE Jetson
  BY <1>6, JetsonType
<1> QED
  BY <1>1, <1>2, <1>3, <1>4, <1>5, <1>6 DEF Next, Ended

(* Every variable keeps its type, for every number of items, every link    *)
(* capacity and with duplication: no handler of mission.py or select_zone  *)
(* reads past an item list or leaves a mission type behind.                *)
THEOREM TypeCorrect == Spec => []TypeOK
  BY InitType, TypeStep, PTL DEF Spec

-----------------------------------------------------------------------------
(***************************************************************************)
(* Why an accepted ACK means that the type is stored.  Over a link that    *)
(* does not duplicate, an upload in progress is exactly one of: a          *)
(* MISSION_COUNT in flight, a transfer at the flight controller, an        *)
(* accepting ACK in flight, an accepting ACK received -- or it is dead and *)
(* ends by its deadline.  The ACKs and requests of an earlier upload that  *)
(* are still in flight refuse, so they cannot be taken for a success.      *)
(***************************************************************************)
IsCount(m) == m.kind = "COUNT"
Accepts(m) == m.kind = "ACK" /\ m.ok

(* What the program may send: items and counts of the new zone.            *)
OfNewZone(m) ==
    /\ m.kind = "ITEM" => m.zone = NewZone
    /\ IsCount(m) => m.n = ItemCount[NewZone][m.type]

HasCount(link) == \E i \in 1 .. Len(link) : IsCount(link[i])
HasAccept(link) == \E i \in 1 .. Len(link) : Accepts(link[i])
OneCount(link) ==
    \A i, j \in 1 .. Len(link) : IsCount(link[i]) /\ IsCount(link[j]) => i = j
OneAccept(link) ==
    \A i, j \in 1 .. Len(link) : Accepts(link[i]) /\ Accepts(link[j]) => i = j
NoClear(link) == \A i \in 1 .. Len(link) : link[i].kind # "CLEAR"
AllOfNewZone(link) == \A i \in 1 .. Len(link) : OfNewZone(link[i])
CountsFor(link, t) ==
    \A i \in 1 .. Len(link) : IsCount(link[i]) => link[i].type = t

StoredNew(t) == store[t] = Items(NewZone, t)
Before(t) ==
    IF t = "MISSION" THEN {} ELSE IF t = "FENCE" THEN {"MISSION"}
    ELSE {"MISSION", "FENCE"}

(* Only items and counts of the new zone are sent and received.            *)
OnlyNewZone ==
    /\ AllOfNewZone(toFC)
    /\ rx.active =>
         /\ rx.n = ItemCount[NewZone][rx.type]
         /\ Len(rx.buf) < rx.n
         /\ \A i \in 1 .. Len(rx.buf) : rx.buf[i] = NewZone

(* Nothing is in flight before the first upload.                           *)
Early == pc \in {"start", "connect", "check", "activate", "plan"}
QuietBeforeUpload == Early => toFC = << >> /\ toGCS = << >> /\ ~rx.active

Uploading == pc = "upload" /\ ret # "error"

OneToken ==
    /\ HasCount(toFC) => ~rx.active /\ ret = "none" /\ ~HasAccept(toGCS)
    /\ rx.active => ret = "none" /\ ~HasAccept(toGCS) /\ rx.type = type
    /\ HasAccept(toGCS) => ret = "none"
    /\ CountsFor(toFC, type)
    /\ OneCount(toFC)
    /\ OneAccept(toGCS)

UploadInv ==
    Uploading =>
        /\ call \in {"idle", "upload", "final_ack"}
        /\ NoClear(toFC)
        /\ OneToken
        /\ \A t \in Before(type) : StoredNew(t)
        /\ HasAccept(toGCS) \/ ret = "ok" => StoredNew(type)

(* From the third accepted upload on nothing writes to the store.          *)
Done == pc = "verify" \/ outcome \in Uploaded
DoneInv ==
    Done =>
        /\ \A t \in MissionTypes : StoredNew(t)
        /\ ~rx.active
        /\ ~HasCount(toFC)
        /\ NoClear(toFC)

EndInv == outcome \in Uploaded => pc = "end"

(* A call has no result while it runs.                                     *)
NoResultYet == call # "idle" => ret = "none"

IInv ==
    /\ OnlyNewZone
    /\ QuietBeforeUpload
    /\ UploadInv
    /\ DoneInv
    /\ EndInv
    /\ NoResultYet

(* Taking the oldest message off a link.                                   *)
LEMMA TailScan ==
    ASSUME NEW link \in Seq(Message), link # << >>
    PROVE  /\ HasCount(Tail(link)) => HasCount(link)
           /\ HasAccept(Tail(link)) => HasAccept(link)
           /\ IsCount(Head(link)) => HasCount(link)
           /\ Accepts(Head(link)) => HasAccept(link)
           /\ OneCount(link) => OneCount(Tail(link))
           /\ OneAccept(link) => OneAccept(Tail(link))
           /\ OneCount(link) /\ IsCount(Head(link)) => ~HasCount(Tail(link))
           /\ OneAccept(link) /\ Accepts(Head(link)) => ~HasAccept(Tail(link))
           /\ NoClear(link) => NoClear(Tail(link)) /\ Head(link).kind # "CLEAR"
           /\ AllOfNewZone(link) => AllOfNewZone(Tail(link)) /\ OfNewZone(Head(link))
           /\ \A t \in MissionTypes : CountsFor(link, t) =>
                CountsFor(Tail(link), t) /\ (IsCount(Head(link)) => Head(link).type = t)
<1>1. /\ Head(link) = link[1]
      /\ Len(link) \in Nat \ {0}
      /\ Len(Tail(link)) = Len(link) - 1
      /\ \A i \in 1 .. Len(Tail(link)) : Tail(link)[i] = link[i + 1]
  BY TailFacts
<1> DEFINE T == Tail(link)
<1>2. /\ 1 \in 1 .. Len(link)
      /\ Len(T) \in Nat
      /\ \A i \in 1 .. Len(T) : i + 1 \in 1 .. Len(link) /\ T[i] = link[i + 1] /\ i \in Nat
  BY <1>1
<1> HIDE DEF T
<1>3. (HasCount(T) => HasCount(link)) /\ (HasAccept(T) => HasAccept(link))
  BY <1>2 DEF HasCount, HasAccept
<1>4. /\ IsCount(Head(link)) => HasCount(link)
      /\ Accepts(Head(link)) => HasAccept(link)
  BY <1>1, <1>2 DEF HasCount, HasAccept
<1>5. OneCount(link) => OneCount(T)
  BY <1>2 DEF OneCount
<1>6. OneAccept(link) => OneAccept(T)
  BY <1>2 DEF OneAccept
<1>7. OneCount(link) /\ IsCount(Head(link)) => ~HasCount(T)
  BY <1>1, <1>2 DEF OneCount, HasCount
<1>8. OneAccept(link) /\ Accepts(Head(link)) => ~HasAccept(T)
  BY <1>1, <1>2 DEF OneAccept, HasAccept
<1>9. NoClear(link) => NoClear(T) /\ Head(link).kind # "CLEAR"
  BY <1>1, <1>2 DEF NoClear
<1>10. AllOfNewZone(link) => AllOfNewZone(T) /\ OfNewZone(Head(link))
  BY <1>1, <1>2 DEF AllOfNewZone
<1>11. \A t \in MissionTypes : CountsFor(link, t) =>
         CountsFor(T, t) /\ (IsCount(Head(link)) => Head(link).type = t)
  BY <1>1, <1>2 DEF CountsFor
<1> QED
  BY <1>3, <1>4, <1>5, <1>6, <1>7, <1>8, <1>9, <1>10, <1>11 DEF T

(* Putting a message on a link.                                            *)
LEMMA SendScan ==
    ASSUME NEW link \in Seq(Message), NEW m \in Message
    PROVE  /\ HasCount(Send(link, m)) => HasCount(link) \/ IsCount(m)
           /\ HasAccept(Send(link, m)) => HasAccept(link) \/ Accepts(m)
           /\ OneCount(link) /\ (IsCount(m) => ~HasCount(link)) => OneCount(Send(link, m))
           /\ OneAccept(link) /\ (Accepts(m) => ~HasAccept(link)) => OneAccept(Send(link, m))
           /\ NoClear(link) /\ m.kind # "CLEAR" => NoClear(Send(link, m))
           /\ AllOfNewZone(link) /\ OfNewZone(m) => AllOfNewZone(Send(link, m))
           /\ \A t \in MissionTypes : CountsFor(link, t) /\ (IsCount(m) => m.type = t) =>
                CountsFor(Send(link, m), t)
<1> DEFINE S == Send(link, m)
<1>1. CASE S = link
  BY <1>1
<1>2. CASE /\ Len(S) = Len(link) + 1
           /\ \A i \in 1 .. Len(link) : S[i] = link[i]
           /\ S[Len(link) + 1] = m
  <2>1. \A i \in 1 .. Len(S) :
          /\ i \in Nat
          /\ \/ i = Len(S) /\ S[i] = m
             \/ i \in 1 .. Len(link) /\ S[i] = link[i]
    BY <1>2
  <2> HIDE DEF S
  <2>2. HasCount(S) => HasCount(link) \/ IsCount(m)
    BY <2>1 DEF HasCount
  <2>3. HasAccept(S) => HasAccept(link) \/ Accepts(m)
    BY <2>1 DEF HasAccept
  <2>4. OneCount(link) /\ (IsCount(m) => ~HasCount(link)) => OneCount(S)
    BY <2>1 DEF OneCount, HasCount
  <2>5. OneAccept(link) /\ (Accepts(m) => ~HasAccept(link)) => OneAccept(S)
    BY <2>1 DEF OneAccept, HasAccept
  <2>6. NoClear(link) /\ m.kind # "CLEAR" => NoClear(S)
    BY <2>1 DEF NoClear
  <2>7. AllOfNewZone(link) /\ OfNewZone(m) => AllOfNewZone(S)
    BY <2>1 DEF AllOfNewZone
  <2>8. \A t \in MissionTypes : CountsFor(link, t) /\ (IsCount(m) => m.type = t) =>
          CountsFor(S, t)
    BY <2>1 DEF CountsFor
  <2> QED
    BY <2>2, <2>3, <2>4, <2>5, <2>6, <2>7, <2>8 DEF S
<1> QED
  BY <1>1, <1>2, SendFacts

(* An empty link.                                                          *)
LEMMA EmptyScan ==
    /\ ~HasCount(<< >>) /\ ~HasAccept(<< >>)
    /\ OneCount(<< >>) /\ OneAccept(<< >>)
    /\ NoClear(<< >>) /\ AllOfNewZone(<< >>)
    /\ \A t \in MissionTypes : CountsFor(<< >>, t)
  BY DEF HasCount, HasAccept, OneCount, OneAccept, NoClear, AllOfNewZone, CountsFor

(* What the messages that are sent are not.                                *)
LEMMA KindFacts ==
    ASSUME NEW t \in MissionTypes, NEW i \in Nat
    PROVE  /\ LET m == Request(t, i) IN
                ~IsCount(m) /\ ~Accepts(m) /\ m.kind # "CLEAR" /\ OfNewZone(m)
           /\ LET m == ItemMsg(t, i, NewZone) IN
                ~IsCount(m) /\ m.kind # "CLEAR" /\ OfNewZone(m)
           /\ \A z \in Zones : ~Accepts(ItemMsg(t, i, z))
           /\ \A ok \in BOOLEAN : LET m == Ack(t, ok) IN
                ~IsCount(m) /\ m.kind # "CLEAR" /\ OfNewZone(m) /\ (Accepts(m) <=> ok)
           /\ ~Accepts(Count(t, i))
           /\ LET m == Count(t, ItemCount[NewZone][t]) IN
                m.type = t /\ m.kind # "CLEAR" /\ OfNewZone(m)
           /\ LET m == ListReq(t) IN
                ~IsCount(m) /\ m.kind # "CLEAR" /\ OfNewZone(m)
           /\ LET m == ClearAll(t) IN ~IsCount(m) /\ OfNewZone(m)
  BY DEF Request, ItemMsg, Ack, Count, ListReq, ClearAll, IsCount, Accepts, OfNewZone

(* A buffer that the last item completes is the new zone's item list.      *)
LEMMA FullBuffer ==
    ASSUME NEW t \in MissionTypes, NEW b \in Seq(Zones),
           \A i \in 1 .. Len(b) : b[i] = NewZone,
           Len(b) < ItemCount[NewZone][t],
           Len(Append(b, NewZone)) >= ItemCount[NewZone][t]
    PROVE  Append(b, NewZone) = Items(NewZone, t)
<1> DEFINE c == Append(b, NewZone)
           n == ItemCount[NewZone][t]
<1>1. n \in Nat /\ Len(b) \in Nat
  BY CountsPositive DEF Zones
<1>2. c \in Seq(Zones) /\ Len(c) = n
  BY <1>1 DEF Zones
<1>3. \A i \in 1 .. n : c[i] = NewZone
  BY <1>1, <1>2
<1>4. Items(NewZone, t) \in Seq(Zones) /\ Len(Items(NewZone, t)) = n
  BY <1>1, ItemsType DEF Items, Zones
<1>5. \A i \in 1 .. n : Items(NewZone, t)[i] = NewZone
  BY DEF Items
<1> HIDE DEF c, n
<1>6. c = Items(NewZone, t)
  BY <1>2, <1>3, <1>4, <1>5, SeqEqual
<1> QED
  BY <1>6 DEF c

-----------------------------------------------------------------------------
(* The invariant is preserved, one lemma per part of the next-state        *)
(* relation.                                                               *)

(* While an upload runs, the items of earlier types are not the ones being *)
(* written.                                                                *)
LEMMA BeforeFacts ==
    ASSUME NEW t \in MissionTypes
    PROVE  /\ t \notin Before(t)
           /\ Before(t) \subseteq MissionTypes
           /\ Before("MISSION") = {}
           /\ NextType(t) # "none" => Before(NextType(t)) \subseteq Before(t) \cup {t}
           /\ NextType(t) = "none" => MissionTypes = Before(t) \cup {t}
  BY DEF Before, NextType, MissionTypes

(* The link and the flight controller.                                     *)
LEMMA EnvironmentInv ==
    ASSUME TypeOK, IInv, ~LinkDuplicates, Environment, UNCHANGED progVars
    PROVE  IInv'
<1> USE DEF TypeOK, ProtocolTypeOK, IInv
<1>p. pc' = pc /\ outcome' = outcome
  BY DEF progVars
<1>q. ~Early /\ ~Early'
  <2>1. toFC # << >> \/ toGCS # << >> \/ rx.active
    BY DEF Environment, LoseToFC, LoseToGCS, DuplicateToGCS, FcCount, FcItem,
           FcUnexpectedItem, FcRepeatRequest, FcAbandon, FcList, FcGet, FcClear, FcAck
  <2>2. ~Early
    BY <2>1 DEF QuietBeforeUpload
  <2> QED
    BY <2>2, <1>p DEF Early
<1>c. call' = call /\ type' = type /\ ret' = ret
  BY DEF Environment, LoseToFC, LoseToGCS, DuplicateToGCS, FcCount, FcItem,
         FcUnexpectedItem, FcRepeatRequest, FcAbandon, FcList, FcGet, FcClear, FcAck,
         callVars
<1>d. (Uploading' <=> Uploading) /\ (Done' <=> Done) /\ EndInv' /\ NoResultYet'
  BY <1>p, <1>c DEF Uploading, Done, EndInv, NoResultYet
<1>r. rx.type \in MissionTypes /\ rx.n \in Nat /\ rx.buf \in Seq(Zones) /\ rx.active \in BOOLEAN
        /\ Len(rx.buf) \in Nat
  BY TransferFacts
(* An action after which the links hold no more counts, acceptances or     *)
(* clears than before, and which writes nothing to the store.              *)
<1>s. ASSUME /\ UNCHANGED store
             /\ rx' = rx \/ ~rx'.active
             /\ HasCount(toFC') => HasCount(toFC)
             /\ HasAccept(toGCS') => HasAccept(toGCS)
             /\ OneCount(toFC) => OneCount(toFC')
             /\ OneAccept(toGCS) => OneAccept(toGCS')
             /\ NoClear(toFC) => NoClear(toFC')
             /\ AllOfNewZone(toFC) => AllOfNewZone(toFC')
             /\ CountsFor(toFC, type) => CountsFor(toFC', type)
      PROVE  IInv'
  <2>1. OnlyNewZone'
    BY <1>s DEF OnlyNewZone
  <2>2. QuietBeforeUpload'
    BY <1>q DEF QuietBeforeUpload
  <2>3. UploadInv'
    BY <1>s, <1>c, <1>d DEF UploadInv, OneToken, StoredNew
  <2>4. DoneInv'
    BY <1>s, <1>d DEF DoneInv, StoredNew
  <2> QED
    BY <2>1, <2>2, <2>3, <2>4, <1>d
<1>1. CASE LoseToFC
  BY <1>s, <1>1, TailScan DEF LoseToFC, fcVars
<1>2. CASE LoseToGCS
  BY <1>s, <1>2, TailScan DEF LoseToGCS, fcVars
<1>3. CASE DuplicateToGCS
  BY <1>3 DEF DuplicateToGCS
<1>4. CASE FcCount
  <2> DEFINE m == Head(toFC)
  <2>1. m \in Message /\ IsCount(m) /\ toFC' = Tail(toFC) /\ toFC # << >>
    BY <1>4, TailFacts DEF FcCount, IsCount
  <2>2. m.type \in MissionTypes /\ m.n \in Nat
    BY <2>1, MessageFacts DEF IsCount
  <2>3. Request(m.type, 0) \in Message /\ Ack(m.type, FALSE) \in Message
    BY <2>2, Constructors
  <2>4. ~Accepts(Request(m.type, 0)) /\ ~Accepts(Ack(m.type, FALSE))
    BY <2>2, KindFacts
  <2>5. /\ HasAccept(toGCS') => HasAccept(toGCS)
        /\ OneAccept(toGCS) => OneAccept(toGCS')
    BY <1>4, <2>3, <2>4, SendScan DEF FcCount
  <2>6. HasCount(toFC) /\ OfNewZone(m) /\ AllOfNewZone(toFC')
    BY <2>1, TailScan DEF OnlyNewZone
  <2>7. \/ rx' = NotReceiving /\ ~rx'.active
        \/ /\ rx'.active /\ rx'.type = m.type /\ rx'.n = m.n /\ rx'.buf = << >>
    <3>1. rx' = Receiving(m.type, m.n, << >>) \/ rx' = NotReceiving
      BY <1>4 DEF FcCount
    <3>2. CASE rx' = NotReceiving
      BY <3>2, TransferFacts
    <3>3. CASE rx' = Receiving(m.type, m.n, << >>)
      BY <3>3 DEF Receiving
    <3> QED
      BY <3>1, <3>2, <3>3
  <2>8. store' = store
    BY <1>4 DEF FcCount
  <2>9. OnlyNewZone'
    <3>1. ItemCount[NewZone][m.type] \in Nat /\ ItemCount[NewZone][m.type] > 0
      BY <2>2, CountsPositive DEF Zones
    <3>2. m.n = ItemCount[NewZone][m.type]
      BY <2>1, <2>6 DEF OfNewZone
    <3> QED
      BY <2>6, <2>7, <3>1, <3>2 DEF OnlyNewZone
  <2>10. UploadInv'
    <3> SUFFICES ASSUME Uploading PROVE UploadInv'
      BY <1>d DEF UploadInv
    <3>1. /\ OneToken /\ NoClear(toFC) /\ call \in {"idle", "upload", "final_ack"}
          /\ \A t \in Before(type) : StoredNew(t)
      BY DEF UploadInv
    <3>2. ret = "none" /\ ~HasAccept(toGCS) /\ m.type = type
      BY <2>1, <2>6, <3>1, TailScan DEF OneToken
    <3>3. ~HasCount(toFC') /\ OneCount(toFC') /\ CountsFor(toFC', type) /\ NoClear(toFC')
      BY <2>1, <3>1, TailScan DEF OneToken
    <3>4. OneToken'
      BY <2>5, <2>7, <3>1, <3>2, <3>3, <1>c DEF OneToken
    <3> QED
      BY <2>5, <2>8, <3>1, <3>2, <3>3, <3>4, <1>c DEF UploadInv, StoredNew
  <2>11. DoneInv'
    BY <2>6, <1>d DEF DoneInv
  <2> QED
    BY <2>9, <2>10, <2>11, <1>q, <1>d DEF QuietBeforeUpload
<1>5. CASE FcItem
  <2> DEFINE z == Head(toFC).zone
             buf == Append(rx.buf, z)
             last == Len(buf) >= rx.n
  <2>1. Head(toFC) \in Message /\ toFC' = Tail(toFC) /\ toFC # << >> /\ rx.active
    BY <1>5, TailFacts DEF FcItem
  <2>2. z = NewZone /\ AllOfNewZone(toFC')
    BY <1>5, <2>1, TailScan DEF OnlyNewZone, OfNewZone, FcItem
  <2>3. /\ rx.n = ItemCount[NewZone][rx.type] /\ Len(rx.buf) < rx.n
        /\ \A i \in 1 .. Len(rx.buf) : rx.buf[i] = NewZone
    BY <2>1 DEF OnlyNewZone
  <2>4. buf \in Seq(Zones) /\ Len(buf) = Len(rx.buf) + 1
          /\ \A i \in 1 .. Len(buf) : buf[i] = NewZone
    BY <1>r, <2>2, <2>3 DEF Zones
  <2>5. last => buf = Items(NewZone, rx.type)
    BY <1>r, <2>2, <2>3, FullBuffer
  <2>6. rx' = IF last THEN NotReceiving ELSE Receiving(rx.type, rx.n, buf)
    BY <1>5 DEF FcItem
  <2>7. store' = [store EXCEPT ![rx.type] =
                    IF last THEN buf
                    ELSE IF rx.type \in InPlace THEN Overwrite(@, buf)
                    ELSE @]
    BY <1>5 DEF FcItem
  <2>8. toGCS' = Send(toGCS, IF last THEN Ack(rx.type, TRUE)
                                     ELSE Request(rx.type, Len(buf)))
    BY <1>5 DEF FcItem
  <2> HIDE DEF z, buf
  <2>9. IF last THEN ~rx'.active
        ELSE rx'.active /\ rx'.type = rx.type /\ rx'.n = rx.n /\ rx'.buf = buf
    BY <2>6, <2>4, <1>r, TransferFacts
  <2>10. OnlyNewZone'
    BY <1>r, <2>2, <2>3, <2>4, <2>9 DEF OnlyNewZone
  <2>11. UploadInv'
    <3> SUFFICES ASSUME Uploading PROVE UploadInv'
      BY <1>d DEF UploadInv
    <3>1. /\ OneToken /\ NoClear(toFC) /\ call \in {"idle", "upload", "final_ack"}
          /\ \A t \in Before(type) : StoredNew(t)
      BY DEF UploadInv
    <3>2. /\ ret = "none" /\ ~HasAccept(toGCS) /\ rx.type = type
          /\ ~HasCount(toFC) /\ OneAccept(toGCS)
      BY <2>1, <3>1 DEF OneToken
    <3>3. ~HasCount(toFC') /\ OneCount(toFC') /\ CountsFor(toFC', type) /\ NoClear(toFC')
      BY <2>1, <3>1, <3>2, TailScan DEF OneToken
    <3>4. /\ Ack(type, TRUE) \in Message /\ Request(type, Len(buf)) \in Message
          /\ ~Accepts(Request(type, Len(buf)))
      <4>1. Len(buf) \in Nat
        BY <2>4, <1>r
      <4> QED
        BY <4>1, Constructors, KindFacts
    <3>5. OneAccept(toGCS') /\ (HasAccept(toGCS') => last)
      BY <2>8, <3>2, <3>4, SendScan
    <3>6. OneToken'
      BY <2>9, <3>2, <3>3, <3>5, <1>c DEF OneToken
    <3>7. \A t \in Before(type) : StoredNew(t)'
      BY <2>7, <3>1, <3>2, BeforeFacts DEF StoredNew
    <3>8. last => store'[type] = Items(NewZone, type)
      BY <2>5, <2>7, <3>2
    <3> QED
      BY <3>1, <3>2, <3>3, <3>5, <3>6, <3>7, <3>8, <1>c DEF UploadInv, StoredNew
  <2>12. DoneInv'
    BY <2>1, <1>d DEF DoneInv
  <2> QED
    BY <2>10, <2>11, <2>12, <1>q, <1>d DEF QuietBeforeUpload
<1>6. CASE FcUnexpectedItem
  <2>1. Head(toFC) \in Message
    BY <1>6, TailFacts DEF FcUnexpectedItem
  <2>2. /\ Ack(Head(toFC).type, FALSE) \in Message
        /\ ~Accepts(Ack(Head(toFC).type, FALSE))
    BY <2>1, MessageFacts, Constructors, KindFacts
  <2> QED
    BY <1>6, <1>s, <2>2, TailScan, SendScan DEF FcUnexpectedItem, fcVars
<1>7. CASE FcRepeatRequest
  <2>1. /\ Request(rx.type, Len(rx.buf)) \in Message
        /\ ~Accepts(Request(rx.type, Len(rx.buf)))
    BY <1>r, Constructors, KindFacts
  <2> QED
    BY <1>7, <1>s, <2>1, SendScan DEF FcRepeatRequest, fcVars
<1>8. CASE FcAbandon
  <2>1. Ack(rx.type, FALSE) \in Message /\ ~Accepts(Ack(rx.type, FALSE))
    BY <1>r, Constructors, KindFacts
  <2> QED
    BY <1>8, <1>s, <2>1, SendScan, TransferFacts DEF FcAbandon
<1>9. CASE FcList
  <2> DEFINE t == Head(toFC).type
  <2>1. t \in MissionTypes
    BY <1>9, TailFacts, MessageFacts DEF FcList
  <2>2. Len(store[t]) \in Nat
    BY <2>1
  <2>3. Count(t, Len(store[t])) \in Message /\ ~Accepts(Count(t, Len(store[t])))
    BY <2>1, <2>2, Constructors, KindFacts
  <2> QED
    BY <1>9, <1>s, <2>3, TailScan, SendScan DEF FcList, fcVars
<1>10. CASE FcGet
  <2> DEFINE m == Head(toFC)
  <2>1. m \in Message
    BY <1>10, TailFacts DEF FcGet
  <2>2. m.type \in MissionTypes /\ m.seq \in Nat
    BY <1>10, <2>1, MessageFacts DEF FcGet
  <2>3. Ack(m.type, FALSE) \in Message /\ ~Accepts(Ack(m.type, FALSE))
    BY <2>2, Constructors, KindFacts
  <2>4. ASSUME m.seq < Len(store[m.type])
        PROVE  /\ ItemMsg(m.type, m.seq, store[m.type][m.seq + 1]) \in Message
               /\ ~Accepts(ItemMsg(m.type, m.seq, store[m.type][m.seq + 1]))
    <3>1. store[m.type] \in Seq(Zones)
      BY <2>2
    <3>2. store[m.type][m.seq + 1] \in Zones
      BY <3>1, <2>2, <2>4
    <3> QED
      BY <2>2, <3>2, Constructors, KindFacts
  <2>5. /\ HasAccept(toGCS') => HasAccept(toGCS)
        /\ OneAccept(toGCS) => OneAccept(toGCS')
    BY <1>10, <2>3, <2>4, SendScan DEF FcGet
  <2> QED
    BY <1>10, <1>s, <2>5, TailScan DEF FcGet, fcVars
<1>11. CASE FcClear
  <2>1. Head(toFC).kind = "CLEAR" /\ toFC # << >> /\ toFC' = Tail(toFC) /\ rx' = rx
    BY <1>11 DEF FcClear
  <2>2. ~NoClear(toFC)
    BY <2>1, TailScan
  <2>3. ~Uploading' /\ ~Done'
    BY <2>2, <1>d DEF UploadInv, DoneInv
  <2>4. OnlyNewZone'
    BY <2>1, TailScan DEF OnlyNewZone
  <2> QED
    BY <2>3, <2>4, <1>q, <1>d DEF QuietBeforeUpload, UploadInv, DoneInv
<1>12. CASE FcAck
  BY <1>12, <1>s, TailScan DEF FcAck, fcVars
<1> QED
  BY <1>1, <1>2, <1>3, <1>4, <1>5, <1>6, <1>7, <1>8, <1>9, <1>10, <1>11, <1>12
     DEF Environment

(* The receive loops of mission.py.                                        *)
LEMMA ProgramInv ==
    ASSUME TypeOK, IInv, Program, UNCHANGED progVars
    PROVE  IInv'
<1> USE DEF TypeOK, ProtocolTypeOK, IInv
<1>c. call # "idle" /\ ret = "none"
  BY DEF NoResultYet, Program, UploadRecv, FinalAckRecv, CountRecv, ItemRecv,
         ClearAckRecv, CallTimeout
<1>p. pc' = pc /\ outcome' = outcome
  BY DEF progVars
<1>f. store' = store /\ rx' = rx /\ type' = type
  BY DEF Program, UploadRecv, FinalAckRecv, CountRecv, ItemRecv, ClearAckRecv,
         CallTimeout, fcVars
<1>q. QuietBeforeUpload' /\ EndInv' /\ (Done' <=> Done)
  <2>1. ASSUME Early PROVE toFC' = << >> /\ toGCS' = << >>
    BY <2>1 DEF QuietBeforeUpload, Program, UploadRecv, FinalAckRecv, CountRecv,
                ItemRecv, ClearAckRecv, CallTimeout, linkVars
  <2>2. Early' <=> Early
    BY <1>p DEF Early
  <2> QED
    BY <2>1, <2>2, <1>p, <1>f DEF QuietBeforeUpload, EndInv, Done
(* What every step of a receive loop does to the links.                    *)
<1>l. /\ HasCount(toFC') => HasCount(toFC)
      /\ OneCount(toFC) => OneCount(toFC')
      /\ NoClear(toFC) => NoClear(toFC')
      /\ AllOfNewZone(toFC) => AllOfNewZone(toFC')
      /\ CountsFor(toFC, type) => CountsFor(toFC', type)
  <2>1. CASE toFC' = toFC
    BY <2>1
  <2>2. ASSUME NEW m \in Message, toFC' = Send(toFC, m),
               ~IsCount(m), m.kind # "CLEAR", OfNewZone(m)
        PROVE  /\ HasCount(toFC') => HasCount(toFC)
               /\ OneCount(toFC) => OneCount(toFC')
               /\ NoClear(toFC) => NoClear(toFC')
               /\ AllOfNewZone(toFC) => AllOfNewZone(toFC')
               /\ CountsFor(toFC, type) => CountsFor(toFC', type)
    BY <2>2, SendScan
  <2>3. \/ toFC' = toFC
        \/ \E i \in Nat : toFC' = Send(toFC, ItemMsg(type, i, NewZone))
        \/ \E i \in Nat : toFC' = Send(toFC, Request(type, i))
        \/ toFC' = Send(toFC, Ack(type, TRUE))
        \/ toFC' = Send(toFC, ListReq(type))
    <3>1. CASE UploadRecv
      BY <3>1, TailFacts, MessageFacts DEF UploadRecv
    <3>2. CASE CountRecv
      BY <3>2 DEF CountRecv
    <3>3. CASE ItemRecv
      <4>1. Head(toGCS) \in Message
        BY <3>3, TailFacts DEF ItemRecv
      <4>2. Head(toGCS).kind = "ITEM" => Len(Append(items, Head(toGCS).zone)) \in Nat
        BY <4>1, MessageFacts
      <4> QED
        BY <3>3, <4>2 DEF ItemRecv
    <3>4. CASE FinalAckRecv \/ ClearAckRecv \/ CallTimeout
      BY <3>4 DEF FinalAckRecv, ClearAckRecv, CallTimeout, linkVars
    <3> QED
      BY <3>1, <3>2, <3>3, <3>4 DEF Program
  <2>4. /\ Ack(type, TRUE) \in Message /\ ListReq(type) \in Message
        /\ \A i \in Nat : ItemMsg(type, i, NewZone) \in Message /\ Request(type, i) \in Message
    BY Constructors DEF Zones
  <2>5. CASE \E i \in Nat : toFC' = Send(toFC, ItemMsg(type, i, NewZone))
    BY <2>2, <2>4, <2>5, KindFacts
  <2>6. CASE \E i \in Nat : toFC' = Send(toFC, Request(type, i))
    BY <2>2, <2>4, <2>6, KindFacts
  <2>7. CASE toFC' = Send(toFC, Ack(type, TRUE))
    BY <2>2, <2>4, <2>7, KindFacts
  <2>8. CASE toFC' = Send(toFC, ListReq(type))
    BY <2>2, <2>4, <2>8, KindFacts
  <2> QED
    BY <2>1, <2>3, <2>5, <2>6, <2>7, <2>8
<1>1. OnlyNewZone'
  BY <1>l, <1>f DEF OnlyNewZone
<1>2. DoneInv'
  BY <1>l, <1>f, <1>q DEF DoneInv, StoredNew
<1>3. UploadInv'
  <2> SUFFICES ASSUME Uploading' PROVE UploadInv'
    BY DEF UploadInv
  <2>1. pc = "upload" /\ ret = "none" /\ ret' # "error" /\ Uploading
    BY <1>p, <1>c DEF Uploading
  <2>2. /\ OneToken /\ NoClear(toFC) /\ call \in {"upload", "final_ack"}
        /\ \A t \in Before(type) : StoredNew(t)
        /\ HasAccept(toGCS) => StoredNew(type)
    BY <2>1, <1>c DEF UploadInv
  <2>3. /\ toGCS # << >> /\ toGCS' = Tail(toGCS)
        /\ call' \in {"idle", "upload", "final_ack"}
        /\ \/ ret' = "none"
           \/ ret' = "ok" /\ Accepts(Head(toGCS)) /\ toFC' = toFC
    <3>1. CASE UploadRecv
      BY <2>1, <2>2, <3>1 DEF UploadRecv, Return, Accepts
    <3>2. CASE FinalAckRecv
      BY <2>1, <2>2, <3>2 DEF FinalAckRecv, Return, Accepts
    <3>3. CASE CallTimeout
      BY <2>1, <3>3 DEF CallTimeout, Return
    <3>4. CASE CountRecv \/ ItemRecv \/ ClearAckRecv
      BY <2>2, <3>4 DEF CountRecv, ItemRecv, ClearAckRecv
    <3> QED
      BY <3>1, <3>2, <3>3, <3>4 DEF Program
  <2>4. /\ HasAccept(toGCS') => HasAccept(toGCS)
        /\ OneAccept(toGCS')
        /\ Accepts(Head(toGCS)) => HasAccept(toGCS) /\ ~HasAccept(toGCS')
    BY <2>2, <2>3, TailScan DEF OneToken
  <2>5. OneToken'
    BY <1>f, <1>l, <2>2, <2>3, <2>4 DEF OneToken
  <2> QED
    BY <1>f, <1>l, <2>2, <2>3, <2>4, <2>5 DEF UploadInv, StoredNew
<1>4. NoResultYet'
  BY <1>c DEF NoResultYet, Program, UploadRecv, FinalAckRecv, CountRecv, ItemRecv,
              ClearAckRecv, CallTimeout, Return
<1> QED
  BY <1>1, <1>2, <1>3, <1>4, <1>q

(* The steps of select_zone.                                               *)
LEMMA SelectInv ==
    ASSUME TypeOK, IInv, Select \/ VerifyRaised
    PROVE  IInv'
<1> USE DEF TypeOK, ProtocolTypeOK, IInv
<1>m. "MISSION" \in MissionTypes
  BY DEF MissionTypes
(* Steps of select_zone before the first upload.                           *)
<1>1. ASSUME UNCHANGED protocolVars, Early,
             Early' \/ (pc' = "end" /\ outcome' \notin Uploaded),
             outcome' \notin Uploaded
      PROVE  IInv'
  <2>1. pc' # "upload" /\ pc' # "verify" /\ ~Done'
    BY <1>1 DEF Early, Done
  <2> QED
    BY <1>1, <2>1 DEF OnlyNewZone, QuietBeforeUpload, UploadInv, Uploading, DoneInv,
       EndInv, NoResultYet, protocolVars, linkVars, fcVars, callVars
<1>e. Early => outcome \notin Uploaded
  BY DEF EndInv, Early
<1>2. CASE Confirm
  BY <1>1, <1>2, <1>e DEF Confirm, End, Early
<1>3. CASE Connect
  BY <1>1, <1>3, <1>e DEF Connect, End, Early
<1>4. CASE CheckNotArmed
  BY <1>1, <1>4, <1>e DEF CheckNotArmed, End, Early
<1>5. CASE ActivateZoneOnJetson \/ ActivateReturned
  <2>1. UNCHANGED protocolVars /\ Early /\ outcome' \notin Uploaded
          /\ (pc' = pc \/ pc' = "plan" \/ pc' = "end")
    BY <1>5, <1>e DEF ActivateZoneOnJetson, ActivateReturned, End, Early
  <2> QED
    BY <1>1, <2>1 DEF Early
(* The start of an upload, when no earlier one can still succeed.          *)
<1>u. ASSUME NEW t \in MissionTypes, StartUpload(t),
             pc' = "upload", outcome' = outcome, outcome \notin Uploaded,
             ~HasCount(toFC), ~rx.active, ~HasAccept(toGCS), NoClear(toFC),
             \A u \in Before(t) : StoredNew(u)
      PROVE  IInv'
  <2> DEFINE m == Count(t, ItemCount[NewZone][t])
  <2>1. m \in Message
    BY CountsPositive, Constructors DEF Zones
  <2>2. m.type = t /\ m.kind # "CLEAR" /\ OfNewZone(m)
    BY CountsPositive, KindFacts
  <2>3. /\ toFC' = Send(toFC, m) /\ toGCS' = toGCS /\ store' = store /\ rx' = rx
        /\ call' = "upload" /\ type' = t /\ ret' = "none"
    BY <1>u DEF StartUpload, fcVars
  <2> HIDE DEF m
  <2>4. OneCount(toFC) /\ CountsFor(toFC, t) /\ OneAccept(toGCS)
    BY <1>u DEF HasCount, OneCount, CountsFor, HasAccept, OneAccept
  <2>5. OneCount(toFC') /\ CountsFor(toFC', t) /\ NoClear(toFC')
    BY <1>u, <2>1, <2>2, <2>3, <2>4, SendScan
  <2>6. OnlyNewZone'
    BY <2>1, <2>2, <2>3, SendScan DEF OnlyNewZone
  <2>7. OneToken'
    BY <1>u, <2>3, <2>4, <2>5 DEF OneToken
  <2>8. UploadInv'
    BY <1>u, <2>3, <2>5, <2>7 DEF UploadInv, StoredNew
  <2> QED
    BY <1>u, <2>3, <2>6, <2>8 DEF QuietBeforeUpload, Early, DoneInv, Done, EndInv,
                               NoResultYet
<1>6. CASE Plan
  <2>1. Early
    BY <1>6 DEF Plan, Early
  <2>2. CASE End("no_waypoints") /\ UNCHANGED protocolVars
    BY <1>1, <2>1, <2>2 DEF End
  <2>3. CASE pc' = "upload" /\ UNCHANGED outcome /\ StartUpload("MISSION")
    <3>1. toFC = << >> /\ toGCS = << >> /\ ~rx.active
      BY <2>1 DEF QuietBeforeUpload
    <3>2. ~HasCount(toFC) /\ ~HasAccept(toGCS) /\ NoClear(toFC)
      BY <3>1, EmptyScan
    <3>3. \A u \in Before("MISSION") : StoredNew(u)
      BY DEF Before
    <3> QED
      BY <1>u, <1>m, <1>e, <2>1, <2>3, <3>1, <3>2, <3>3
  <2> QED
    BY <1>6, <2>2, <2>3 DEF Plan
<1>7. CASE UploadReturned
  <2>1. /\ ~HasCount(toFC) /\ ~rx.active /\ ~HasAccept(toGCS) /\ NoClear(toFC)
        /\ outcome \notin Uploaded /\ outcome' = outcome
        /\ \A u \in Before(type) \cup {type} : StoredNew(u)
    BY <1>7 DEF UploadReturned, UploadInv, Uploading, OneToken, EndInv
  <2>2. CASE NextType(type) # "none"
    <3>1. NextType(type) \in MissionTypes
      BY <2>2, NextTypeFacts
    <3>2. \A u \in Before(NextType(type)) : StoredNew(u)
      BY <2>1, <2>2, BeforeFacts
    <3> QED
      BY <1>7, <1>u, <2>1, <2>2, <3>1, <3>2 DEF UploadReturned
  <2>3. CASE NextType(type) = "none"
    <3>1. /\ StartDownload("MISSION") /\ pc' = "verify"
      BY <1>7, <2>3 DEF UploadReturned
    <3>2. /\ toFC' = Send(toFC, ListReq("MISSION")) /\ toGCS' = toGCS
          /\ store' = store /\ rx' = rx /\ ret' = "none"
      BY <3>1 DEF StartDownload, fcVars
    <3>3. /\ ListReq("MISSION") \in Message /\ ~IsCount(ListReq("MISSION"))
          /\ ListReq("MISSION").kind # "CLEAR" /\ OfNewZone(ListReq("MISSION"))
      BY <1>m, Constructors, KindFacts
    <3>4. ~HasCount(toFC') /\ NoClear(toFC') /\ OnlyNewZone'
      BY <2>1, <3>2, <3>3, SendScan DEF OnlyNewZone
    <3>5. \A u \in MissionTypes : StoredNew(u)'
      BY <2>1, <2>3, <3>2, BeforeFacts DEF StoredNew
    <3> QED
      BY <2>1, <3>1, <3>2, <3>4, <3>5 DEF QuietBeforeUpload, Early, UploadInv, Uploading,
         DoneInv, Done, EndInv, NoResultYet
  <2> QED
    BY <2>2, <2>3
<1>8. CASE UploadRaised \/ VerifyRaised
  <2>1. /\ toFC' = Send(toFC, ClearAll("MISSION")) /\ rx' = rx /\ store' = store
        /\ ret' = "none" /\ pc' = "clear" /\ outcome' = outcome /\ outcome \notin Uploaded
    BY <1>8 DEF UploadRaised, VerifyRaised, StartClear, fcVars, EndInv
  <2>2. ClearAll("MISSION") \in Message /\ OfNewZone(ClearAll("MISSION"))
    BY <1>m, Constructors, KindFacts
  <2>3. OnlyNewZone'
    BY <2>1, <2>2, SendScan DEF OnlyNewZone
  <2> QED
    BY <2>1, <2>3 DEF QuietBeforeUpload, Early, UploadInv, Uploading, DoneInv, Done,
       EndInv, NoResultYet
<1>9. CASE VerifyReturned
  <2>1. Done
    BY <1>9 DEF VerifyReturned, Done
  <2>2. CASE NextType(type) # "none"
    <3> DEFINE t == NextType(type)
    <3>1. t \in MissionTypes /\ StartDownload(t) /\ pc' = pc /\ outcome' = outcome
      BY <1>9, <2>2, NextTypeFacts DEF VerifyReturned
    <3>2. /\ toFC' = Send(toFC, ListReq(t)) /\ toGCS' = toGCS
          /\ store' = store /\ rx' = rx /\ ret' = "none"
      BY <3>1 DEF StartDownload, fcVars
    <3>3. /\ ListReq(t) \in Message /\ ~IsCount(ListReq(t))
          /\ ListReq(t).kind # "CLEAR" /\ OfNewZone(ListReq(t))
      BY <3>1, Constructors, KindFacts
    <3> HIDE DEF t
    <3>4. ~HasCount(toFC') /\ NoClear(toFC') /\ OnlyNewZone'
      BY <2>1, <3>2, <3>3, SendScan DEF OnlyNewZone, DoneInv
    <3>5. pc = "verify"
      BY <1>9 DEF VerifyReturned
    <3> QED
      BY <2>1, <3>1, <3>2, <3>4, <3>5 DEF QuietBeforeUpload, Early, UploadInv, Uploading,
         DoneInv, Done, EndInv, NoResultYet, StoredNew
  <2>3. CASE NextType(type) = "none"
    <3>1. UNCHANGED protocolVars /\ pc' = "end"
      BY <1>9, <2>3 DEF VerifyReturned, End
    <3> QED
      BY <2>1, <3>1 DEF OnlyNewZone, QuietBeforeUpload, Early, UploadInv, Uploading,
         DoneInv, Done, EndInv, NoResultYet, StoredNew, protocolVars, linkVars, fcVars,
         callVars
  <2> QED
    BY <2>2, <2>3
<1>10. CASE ClearReturned
  <2>1. outcome' \notin Uploaded /\ pc' \in {"clear", "end"} /\ rx' = rx /\ store' = store
    BY <1>10 DEF ClearReturned, End, EndInv, StartClear, protocolVars, fcVars
  <2>2. NoResultYet' /\ AllOfNewZone(toFC')
    <3>1. CASE UNCHANGED protocolVars
      BY <3>1 DEF protocolVars, linkVars, callVars, NoResultYet, OnlyNewZone
    <3>2. CASE NextType(type) # "none" /\ StartClear(NextType(type))
      <4>1. NextType(type) \in MissionTypes
        BY <3>2, NextTypeFacts
      <4>2. ClearAll(NextType(type)) \in Message /\ OfNewZone(ClearAll(NextType(type)))
        BY <4>1, Constructors, KindFacts
      <4> QED
        BY <3>2, <4>2, SendScan DEF StartClear, NoResultYet, OnlyNewZone
    <3> QED
      BY <1>10, <3>1, <3>2 DEF ClearReturned
  <2> QED
    BY <2>1, <2>2 DEF OnlyNewZone, QuietBeforeUpload, Early, UploadInv, Uploading,
       DoneInv, Done, EndInv
<1> QED
  BY <1>2, <1>3, <1>4, <1>5, <1>6, <1>7, <1>8, <1>9, <1>10 DEF Select

(* The invariant holds initially.                                          *)
LEMMA InitInv == Init => IInv
<1> SUFFICES ASSUME Init PROVE IInv
  OBVIOUS
<1>1. toFC = << >> /\ toGCS = << >> /\ ~rx.active /\ call = "idle"
        /\ pc = "start" /\ outcome = "none"
  BY TransferFacts DEF Init, ProtocolInit
<1>2. AllOfNewZone(toFC)
  BY <1>1, EmptyScan
<1> QED
  BY <1>1, <1>2 DEF IInv, OnlyNewZone, QuietBeforeUpload, UploadInv, Uploading, DoneInv,
     Done, EndInv, NoResultYet

(* Without duplication every step preserves the invariant.                 *)
LEMMA StepInv ==
    ASSUME ~LinkDuplicates
    PROVE  TypeOK /\ IInv /\ [Next]_vars => IInv'
<1> SUFFICES ASSUME TypeOK, IInv, [Next]_vars PROVE IInv'
  OBVIOUS
<1>1. CASE Select \/ VerifyRaised
  BY <1>1, SelectInv
<1>2. CASE Program /\ UNCHANGED progVars
  BY <1>2, ProgramInv
<1>3. CASE Environment /\ UNCHANGED progVars
  BY <1>3, EnvironmentInv
<1>4. ASSUME UNCHANGED <<protocolVars, pc, outcome>> PROVE IInv'
  BY <1>4 DEF IInv, OnlyNewZone, QuietBeforeUpload, Early, UploadInv, Uploading, OneToken,
     DoneInv, Done, EndInv, NoResultYet, StoredNew, protocolVars, linkVars, fcVars, callVars
<1>5. CASE Arm
  BY <1>4, <1>5 DEF Arm
<1>6. CASE UNCHANGED vars
  BY <1>4, <1>6 DEF vars, protocolVars, progVars
<1>7. CASE Jetson
  BY <1>4, <1>7 DEF Jetson, JetsonSaves, JetsonRestarts, JetsonRestartsBridge,
     SlamRestarts, Remote
<1> QED
  BY <1>1, <1>2, <1>3, <1>5, <1>6, <1>7 DEF Next, Ended

(* Over a link that loses but does not duplicate messages, "selected       *)
(* successfully" means that the flight controller stores the new zone's    *)
(* mission, fence and rally point: for every number of items, every link   *)
(* capacity and every subset of types stored in place.                     *)
THEOREM SelectedIsStored ==
    ASSUME ~LinkDuplicates
    PROVE  Spec => []SelectedMeansStored
<1>1. Init => IInv
  BY InitInv
<1>2. TypeOK /\ IInv /\ [Next]_vars => IInv'
  BY StepInv
<1>3. IInv => SelectedMeansStored
  BY DEF IInv, DoneInv, Done, StoredNew, SelectedMeansStored
<1> QED
  BY <1>1, <1>2, <1>3, TypeCorrect, PTL DEF Spec

-----------------------------------------------------------------------------
(***************************************************************************)
(* Why a download tells the truth, whatever the link loses and duplicates. *)
(* MISSION_REQUEST_LIST is sent after every count and item of the uploads, *)
(* and the link to the flight controller keeps the order: once the list    *)
(* has been answered nothing that could write an item is in flight.  From  *)
(* there on a store only shrinks, by a clear, and while the round trip is  *)
(* verified it does not change at all.                                     *)
(***************************************************************************)
In(link) == {link[i] : i \in 1 .. Len(link)}
Carries(m) == m.kind \in {"COUNT", "ITEM"}
Reads(m) == m.kind \in {"LIST", "REQUEST"}
Dry(link) == \A m \in In(link) : ~Carries(m)

(* Nothing that carries an upload is behind a request for the list.        *)
ListIsLast(link) ==
    \A i, j \in 1 .. Len(link) :
        i < j /\ link[i].kind = "LIST" => ~Carries(link[j])

Clearing == pc = "clear" \/ outcome = "upload_failed"
Verifying == pc = "verify" \/ outcome \in Uploaded

(* A list request of this command has been answered.                       *)
Answered ==
    \/ \E m \in In(toGCS) : Carries(m)
    \/ \E m \in In(toFC) : m.kind = "REQUEST"
    \/ call = "item" \/ ret = "ok" \/ cleared # {} \/ verified # {}

Phases ==
    /\ outcome = "none" <=> pc # "end"
    /\ call # "idle" => ret = "none"
    /\ Clearing => verified = {} /\ call \in {"idle", "clear", "count", "item"}
    /\ Verifying => /\ cleared = {} /\ call \in {"idle", "count", "item"}
                    /\ \A m \in In(toFC) : m.kind # "CLEAR"
    /\ ~Clearing /\ ~Verifying =>
         /\ verified = {} /\ cleared = {} /\ call \in {"idle", "upload", "final_ack"}
         /\ \A m \in In(toFC) : ~Reads(m) /\ m.kind # "CLEAR"
         /\ Dry(toGCS)

Settled ==
    /\ ListIsLast(toFC)
    /\ (Clearing \/ Verifying) /\ Answered => Dry(toFC)

(* A mission may keep its home item.                                       *)
Home(t) == IF t = "MISSION" THEN 1 ELSE 0

(* What was counted or received of a type bounds what is stored of it.     *)
CountsBound ==
    Clearing =>
        /\ \A m \in In(toGCS) : m.kind = "COUNT" => Len(store[m.type]) <= m.n
        /\ call = "count" => items = << >>
        /\ call = "item" => Len(store[type]) <= expected
        /\ ret = "ok" => Len(store[type]) <= Len(items)
        /\ \A t \in cleared : Len(store[t]) <= Home(t)

(* What was counted or received of a type is what is stored of it.         *)
ReadsAreTrue ==
    Verifying =>
        /\ \A m \in In(toGCS) :
             /\ m.kind = "COUNT" => m.n = Len(store[m.type])
             /\ m.kind = "ITEM" => m.zone = store[m.type][m.seq + 1]
        /\ call = "count" => items = << >>
        /\ call = "item" => /\ expected = Len(store[type])
                            /\ \A i \in 1 .. Len(items) : items[i] = store[type][i]
        /\ ret = "ok" => items = store[type]
        /\ \A t \in verified : store[t] = Items(NewZone, t)

ReadInv == Phases /\ Settled /\ CountsBound /\ ReadsAreTrue

(* Taking the oldest message off a link.                                   *)
LEMMA TailIn ==
    ASSUME NEW link \in Seq(Message), link # << >>
    PROVE  /\ In(Tail(link)) \subseteq In(link)
           /\ Head(link) \in In(link)
           /\ ListIsLast(link) => ListIsLast(Tail(link))
           /\ ListIsLast(link) /\ Head(link).kind = "LIST" => Dry(Tail(link))
<1> DEFINE T == Tail(link)
<1>1. /\ Head(link) = link[1]
      /\ 1 \in 1 .. Len(link)
      /\ \A i \in 1 .. Len(T) : /\ i + 1 \in 1 .. Len(link) /\ T[i] = link[i + 1]
                                /\ i \in Nat /\ 1 < i + 1
  BY TailFacts
<1> HIDE DEF T
<1>2. In(T) \subseteq In(link) /\ Head(link) \in In(link)
  BY <1>1 DEF In
<1>3. ListIsLast(link) => ListIsLast(T)
  <2> SUFFICES ASSUME ListIsLast(link), NEW i \in 1 .. Len(T), NEW j \in 1 .. Len(T),
                      i < j, T[i].kind = "LIST"
               PROVE  ~Carries(T[j])
    BY DEF ListIsLast
  <2>1. i + 1 < j + 1
    BY <1>1
  <2> QED
    BY <1>1, <2>1 DEF ListIsLast
<1>4. ListIsLast(link) /\ Head(link).kind = "LIST" => Dry(T)
  BY <1>1 DEF ListIsLast, Dry, In
<1> QED
  BY <1>2, <1>3, <1>4 DEF T

(* Putting a message on a link.                                            *)
LEMMA SendIn ==
    ASSUME NEW link \in Seq(Message), NEW m \in Message
    PROVE  /\ In(Send(link, m)) \subseteq In(link) \cup {m}
           /\ ListIsLast(link) /\ ~Carries(m) => ListIsLast(Send(link, m))
           /\ (\A k \in In(link) : k.kind # "LIST") => ListIsLast(Send(link, m))
<1> DEFINE S == Send(link, m)
<1>1. CASE S = link
  BY <1>1 DEF ListIsLast, In
<1>2. CASE /\ Len(S) = Len(link) + 1
           /\ \A i \in 1 .. Len(link) : S[i] = link[i]
           /\ S[Len(link) + 1] = m
  <2>1. \A i \in 1 .. Len(S) :
          /\ i \in Nat
          /\ \/ i = Len(S) /\ S[i] = m
             \/ i \in 1 .. Len(link) /\ S[i] = link[i]
    BY <1>2
  <2>2. \A i, j \in 1 .. Len(S) : i < j => i \in 1 .. Len(link) /\ S[i] = link[i]
    BY <1>2
  <2> HIDE DEF S
  <2>3. In(S) \subseteq In(link) \cup {m}
    BY <2>1 DEF In
  <2>4. ListIsLast(link) /\ ~Carries(m) => ListIsLast(S)
    BY <2>1, <2>2 DEF ListIsLast
  <2>5. (\A k \in In(link) : k.kind # "LIST") => ListIsLast(S)
    BY <2>2 DEF ListIsLast, In
  <2> QED
    BY <2>3, <2>4, <2>5 DEF S
<1> QED
  BY <1>1, <1>2, SendFacts

(* The messages of a link are messages.                                    *)
LEMMA InType ==
    ASSUME NEW link \in Seq(Message)
    PROVE  In(link) \subseteq Message
  BY DEF In

(* What the messages that are sent say.                                    *)
LEMMA SaidFacts ==
    ASSUME NEW t \in MissionTypes, NEW i \in Nat
    PROVE  /\ Request(t, i).kind = "REQUEST" /\ ~Carries(Request(t, i))
           /\ \A ok \in BOOLEAN : Ack(t, ok).kind = "ACK" /\ ~Carries(Ack(t, ok))
           /\ \A z \in Zones : /\ ItemMsg(t, i, z).kind = "ITEM" /\ ItemMsg(t, i, z).type = t
                               /\ ItemMsg(t, i, z).seq = i /\ ItemMsg(t, i, z).zone = z
           /\ Count(t, i).kind = "COUNT" /\ Count(t, i).type = t /\ Count(t, i).n = i
           /\ ListReq(t).kind = "LIST" /\ ~Carries(ListReq(t))
           /\ ClearAll(t).kind = "CLEAR" /\ ~Carries(ClearAll(t))
  BY DEF Request, Ack, ItemMsg, Count, ListReq, ClearAll, Carries

(* The link and the flight controller.                                     *)
LEMMA ReadEnvironment ==
    ASSUME TypeOK, ReadInv, Environment, UNCHANGED progVars
    PROVE  ReadInv'
<1> USE DEF ReadInv
<1>t. /\ toFC \in Seq(Message) /\ toGCS \in Seq(Message)
      /\ store \in [MissionTypes -> Seq(Zones)] /\ type \in MissionTypes
      /\ cleared \subseteq MissionTypes /\ verified \subseteq MissionTypes
      /\ items \in Seq(Zones) /\ expected \in Nat
  BY DEF TypeOK, ProtocolTypeOK
<1>i. In(toFC) \subseteq Message /\ In(toGCS) \subseteq Message
  BY <1>t, InType
<1>r. rx.type \in MissionTypes /\ rx.n \in Nat /\ rx.buf \in Seq(Zones) /\ Len(rx.buf) \in Nat
  BY TransferFacts DEF TypeOK, ProtocolTypeOK
<1>c. /\ pc' = pc /\ outcome' = outcome /\ cleared' = cleared /\ verified' = verified
      /\ call' = call /\ type' = type /\ ret' = ret /\ expected' = expected /\ items' = items
  BY DEF progVars, Environment, LoseToFC, LoseToGCS, DuplicateToGCS, FcCount, FcItem,
         FcUnexpectedItem, FcRepeatRequest, FcAbandon, FcList, FcGet, FcClear, FcAck,
         callVars
<1>d. (Clearing' <=> Clearing) /\ (Verifying' <=> Verifying)
  BY <1>c DEF Clearing, Verifying
(* No step of theirs puts a message on the link to the flight controller.  *)
<1>f. In(toFC') \subseteq In(toFC) /\ ListIsLast(toFC')
  <2>1. toFC' = toFC \/ (toFC # << >> /\ toFC' = Tail(toFC))
    BY DEF Environment, LoseToFC, LoseToGCS, DuplicateToGCS, FcCount, FcItem,
           FcUnexpectedItem, FcRepeatRequest, FcAbandon, FcList, FcGet, FcClear, FcAck
  <2> QED
    BY <1>t, <2>1, TailIn DEF Settled
(* A step after which the laptop is told no more than before.              *)
<1>g. ASSUME \A m \in In(toGCS') : m \in In(toGCS) \/ ~Carries(m)
      PROVE  Phases' /\ Settled' /\ (Answered' => Answered)
  <2>1. Phases'
    BY <1>c, <1>d, <1>f, <1>g DEF Phases, Dry
  <2>2. Answered' => Answered
    BY <1>c, <1>f, <1>g DEF Answered
  <2> QED
    BY <2>1, <2>2, <1>d, <1>f DEF Settled, Dry
<1>q. ASSUME store' = store, \A m \in In(toGCS') : m \in In(toGCS) \/ ~Carries(m)
      PROVE  ReadInv'
  <2>1. CountsBound'
    BY <1>c, <1>d, <1>q DEF CountsBound, Carries
  <2>2. ReadsAreTrue'
    BY <1>c, <1>d, <1>q DEF ReadsAreTrue, Carries
  <2> QED
    BY <1>g, <1>q, <2>1, <2>2
<1>s. ASSUME NEW m \in Message, toGCS' = Send(toGCS, m), ~Carries(m)
      PROVE  \A k \in In(toGCS') : k \in In(toGCS) \/ ~Carries(k)
  BY <1>s, <1>t, SendIn
<1>1. CASE LoseToFC
  BY <1>1, <1>q DEF LoseToFC, fcVars
<1>2. CASE LoseToGCS
  BY <1>2, <1>q, <1>t, TailIn DEF LoseToGCS, fcVars
<1>3. CASE DuplicateToGCS
  <2>1. \A i \in 1 .. Len(toGCS') : toGCS'[i] \in In(toGCS)
    <3>1. toGCS # << >> /\ toGCS' = <<Head(toGCS)>> \o toGCS
      BY <1>3 DEF DuplicateToGCS
    <3>2. Head(toGCS) \in In(toGCS)
      BY <1>t, <3>1, TailIn
    <3>3. Len(toGCS') = Len(toGCS) + 1 /\ toGCS'[1] = Head(toGCS)
      BY <1>t, <3>1
    <3>4. \A i \in 2 .. Len(toGCS') : toGCS'[i] = toGCS[i - 1]
      BY <1>t, <3>1
    <3> QED
      BY <1>t, <3>2, <3>3, <3>4 DEF In
  <2> QED
    BY <1>3, <2>1, <1>q DEF DuplicateToGCS, fcVars, In
<1>4. CASE FcCount
  <2>1. Head(toFC) \in Message /\ Head(toFC).type \in MissionTypes
    BY <1>4, <1>t, TailFacts, MessageFacts DEF FcCount
  <2>2. /\ Request(Head(toFC).type, 0) \in Message /\ ~Carries(Request(Head(toFC).type, 0))
        /\ Ack(Head(toFC).type, FALSE) \in Message /\ ~Carries(Ack(Head(toFC).type, FALSE))
    BY <2>1, Constructors, SaidFacts
  <2> QED
    BY <1>4, <1>q, <1>s, <2>2 DEF FcCount
<1>5. CASE FcItem
  <2> DEFINE buf == Append(rx.buf, Head(toFC).zone)
             m == IF Len(buf) >= rx.n THEN Ack(rx.type, TRUE) ELSE Request(rx.type, Len(buf))
  <2>1. Head(toFC) \in In(toFC) /\ Head(toFC).kind = "ITEM"
    BY <1>5, <1>t, TailIn DEF FcItem
  <2>2. Len(buf) \in Nat
    BY <1>i, <1>r, <2>1, MessageFacts
  <2>3. m \in Message /\ ~Carries(m)
    BY <1>r, <2>2, Constructors, SaidFacts
  <2>4. toGCS' = Send(toGCS, m)
    BY <1>5 DEF FcItem
  <2> HIDE DEF m
  <2>5. Phases' /\ Settled' /\ (Answered' => Answered)
    BY <1>g, <1>s, <2>3, <2>4
  <2>6. ~Dry(toFC)
    BY <2>1 DEF Dry, Carries
  <2>7. Clearing \/ Verifying => ~Answered'
    BY <2>5, <2>6 DEF Settled
  <2>8. CountsBound'
    BY <1>c, <1>d, <2>7 DEF CountsBound, Answered, Carries
  <2>9. ReadsAreTrue'
    BY <1>c, <1>d, <2>7 DEF ReadsAreTrue, Answered, Carries
  <2> QED
    BY <2>5, <2>8, <2>9
<1>6. CASE FcUnexpectedItem
  <2>1. Head(toFC) \in Message /\ Head(toFC).type \in MissionTypes
    BY <1>6, <1>t, TailFacts, MessageFacts DEF FcUnexpectedItem
  <2>2. Ack(Head(toFC).type, FALSE) \in Message /\ ~Carries(Ack(Head(toFC).type, FALSE))
    BY <2>1, Constructors, SaidFacts
  <2> QED
    BY <1>6, <1>q, <1>s, <2>2 DEF FcUnexpectedItem, fcVars
<1>7. CASE FcRepeatRequest
  <2>1. /\ Request(rx.type, Len(rx.buf)) \in Message
        /\ ~Carries(Request(rx.type, Len(rx.buf)))
    BY <1>r, Constructors, SaidFacts
  <2> QED
    BY <1>7, <1>q, <1>s, <2>1 DEF FcRepeatRequest, fcVars
<1>8. CASE FcAbandon
  <2>1. Ack(rx.type, FALSE) \in Message /\ ~Carries(Ack(rx.type, FALSE))
    BY <1>r, Constructors, SaidFacts
  <2> QED
    BY <1>8, <1>q, <1>s, <2>1 DEF FcAbandon
<1>12. CASE FcAck
  BY <1>12, <1>q DEF FcAck, fcVars
(* The answers to a list and to a request say what is stored, after        *)
(* everything that could change it has been received.                      *)
<1>a. ASSUME NEW m \in Message, toGCS' = Send(toGCS, m), store' = store,
             \E k \in In(toFC) : Reads(k),
             Clearing \/ Verifying => Dry(toFC'),
             m.kind = "COUNT" => m.n = Len(store[m.type]),
             m.kind = "ITEM" => m.zone = store[m.type][m.seq + 1]
      PROVE  ReadInv'
  <2>1. Clearing \/ Verifying
    BY <1>a DEF Phases
  <2>2. In(toGCS') \subseteq In(toGCS) \cup {m}
    BY <1>a, <1>t, SendIn
  <2>3. Phases'
    BY <1>c, <1>d, <1>f, <2>1 DEF Phases
  <2>4. Settled'
    BY <1>a, <1>f, <2>1 DEF Settled
  <2>5. m.type \in MissionTypes /\ (m.kind = "COUNT" => m.n \in Nat)
    BY MessageFacts
  <2>6. m.kind = "COUNT" => Len(store[m.type]) <= m.n
    BY <1>a, <2>5
  <2>7. CountsBound'
    BY <1>a, <1>c, <1>d, <2>2, <2>6 DEF CountsBound
  <2>8. ReadsAreTrue'
    BY <1>a, <1>c, <1>d, <2>2 DEF ReadsAreTrue
  <2> QED
    BY <2>3, <2>4, <2>7, <2>8
<1>9. CASE FcList
  <2> DEFINE t == Head(toFC).type
  <2>1. /\ Head(toFC) \in In(toFC) /\ Head(toFC).kind = "LIST" /\ t \in MissionTypes
        /\ toFC # << >> /\ toFC' = Tail(toFC) /\ store' = store
        /\ toGCS' = Send(toGCS, Count(t, Len(store[t])))
    BY <1>9, <1>t, TailIn, TailFacts, MessageFacts DEF FcList, fcVars
  <2>2. Dry(toFC')
    BY <1>t, <2>1, TailIn DEF Settled
  <2>3. Len(store[t]) \in Nat
    BY <1>t, <2>1
  <2> HIDE DEF t
  <2>4. /\ Count(t, Len(store[t])) \in Message
        /\ Count(t, Len(store[t])).kind = "COUNT" /\ Count(t, Len(store[t])).type = t
        /\ Count(t, Len(store[t])).n = Len(store[t])
    BY <2>1, <2>3, Constructors, SaidFacts
  <2>5. Reads(Head(toFC))
    BY <2>1 DEF Reads
  <2> QED
    BY <1>a, <2>1, <2>2, <2>4, <2>5
<1>10. CASE FcGet
  <2> DEFINE h == Head(toFC)
             a == ItemMsg(h.type, h.seq, store[h.type][h.seq + 1])
             b == Ack(h.type, FALSE)
  <2>1. /\ h \in In(toFC) /\ h.kind = "REQUEST" /\ h.type \in MissionTypes /\ h.seq \in Nat
        /\ store' = store /\ toFC # << >> /\ toFC' = Tail(toFC)
        /\ \/ h.seq < Len(store[h.type]) /\ toGCS' = Send(toGCS, a)
           \/ toGCS' = Send(toGCS, b)
    BY <1>10, <1>t, TailIn, TailFacts, MessageFacts DEF FcGet, fcVars
  <2>2. Clearing \/ Verifying => Dry(toFC')
    BY <2>1, <1>f DEF Settled, Answered, Dry
  <2>3. h.seq < Len(store[h.type]) => store[h.type][h.seq + 1] \in Zones
    <3>1. store[h.type] \in Seq(Zones)
      BY <1>t, <2>1
    <3> HIDE DEF h
    <3> QED
      BY <3>1, <2>1
  <2>4. /\ b \in Message /\ b.kind = "ACK"
        /\ h.seq < Len(store[h.type]) =>
             /\ a \in Message /\ a.kind = "ITEM" /\ a.type = h.type
             /\ a.seq = h.seq /\ a.zone = store[h.type][h.seq + 1]
    <3> DEFINE z == store[h.type][h.seq + 1]
    <3>1. ASSUME z \in Zones
          PROVE  LET m == ItemMsg(h.type, h.seq, z) IN
                   /\ m \in Message /\ m.kind = "ITEM" /\ m.type = h.type
                   /\ m.seq = h.seq /\ m.zone = z
      <4> HIDE DEF z, h
      <4> QED
        BY <2>1, <3>1, Constructors, SaidFacts
    <3>2. b \in Message /\ b.kind = "ACK"
      <4> HIDE DEF h
      <4> QED
        BY <2>1, Constructors, SaidFacts
    <3> HIDE DEF h
    <3> QED
      BY <2>3, <3>1, <3>2
  <2>5. Reads(h)
    BY <2>1 DEF Reads
  <2> HIDE DEF h, a, b
  <2>6. CASE h.seq < Len(store[h.type]) /\ toGCS' = Send(toGCS, a)
    BY <1>a, <2>1, <2>2, <2>4, <2>5, <2>6
  <2>7. CASE toGCS' = Send(toGCS, b)
    BY <1>a, <2>1, <2>2, <2>4, <2>5, <2>7
  <2> QED
    BY <2>1, <2>6, <2>7
<1>11. CASE FcClear
  <2> DEFINE t == Head(toFC).type
  <2>1. Head(toFC) \in In(toFC) /\ Head(toFC).kind = "CLEAR" /\ t \in MissionTypes
    BY <1>11, <1>t, TailIn, TailFacts, MessageFacts DEF FcClear
  <2>2. \A ok \in BOOLEAN : Ack(t, ok) \in Message /\ ~Carries(Ack(t, ok))
    BY <2>1, Constructors, SaidFacts
  <2>3. \A k \in In(toGCS') : k \in In(toGCS) \/ ~Carries(k)
    BY <1>11, <1>s, <2>2 DEF FcClear
  <2>4. CASE store' = store
    BY <1>q, <2>3, <2>4
  <2>5. CASE \E home \in {0, 1} : /\ home <= Len(store[t])
                                  /\ store' = [store EXCEPT ![t] = SubSeq(@, 1, home)]
    <3>1. \A u \in MissionTypes : /\ Len(store'[u]) \in Nat /\ Len(store[u]) \in Nat
                                  /\ Len(store'[u]) <= Len(store[u])
      <4>1. PICK home \in {0, 1} : /\ home <= Len(store[t])
                                   /\ store' = [store EXCEPT ![t] = SubSeq(@, 1, home)]
        BY <2>5
      <4>2. store[t] \in Seq(Zones) /\ Len(store[t]) \in Nat
        BY <1>t, <2>1
      <4>3. Len(SubSeq(store[t], 1, home)) = home
        BY <4>1, <4>2, SubSeqProperties
      <4> HIDE DEF t
      <4> QED
        BY <1>t, <4>1, <4>2, <4>3
    <3>2. Phases' /\ Settled'
      BY <1>g, <2>3
    <3>3. ~Verifying /\ ~Verifying'
      BY <1>d, <2>1 DEF Phases
    <3>4. CountsBound'
      <4> SUFFICES ASSUME Clearing PROVE CountsBound'
        BY <1>d DEF CountsBound
      <4>1. ASSUME NEW m \in In(toGCS'), m.kind = "COUNT" PROVE Len(store'[m.type]) <= m.n
        <5>1. m \in In(toGCS) /\ m \in Message
          BY <4>1, <2>3, <1>i DEF Carries
        <5>2. m.type \in MissionTypes /\ m.n \in Nat
          BY <4>1, <5>1, MessageFacts
        <5>3. Len(store[m.type]) <= m.n
          BY <4>1, <5>1 DEF CountsBound
        <5> QED
          BY <3>1, <5>2, <5>3
      <4>2. call = "item" => Len(store'[type]) <= expected
        BY <3>1, <1>t DEF CountsBound
      <4>3. ret = "ok" => Len(store'[type]) <= Len(items)
        BY <3>1, <1>t DEF CountsBound
      <4>4. \A u \in cleared : Len(store'[u]) <= Home(u)
        <5>1. \A u \in cleared : u \in MissionTypes /\ Len(store[u]) <= Home(u)
          BY <1>t DEF CountsBound
        <5> QED
          BY <3>1, <5>1 DEF Home
      <4> QED
        BY <4>1, <4>2, <4>3, <4>4, <1>c DEF CountsBound
    <3> QED
      BY <3>2, <3>3, <3>4 DEF ReadsAreTrue
  <2> QED
    BY <1>11, <2>4, <2>5 DEF FcClear
<1> QED
  BY <1>1, <1>2, <1>3, <1>4, <1>5, <1>6, <1>7, <1>8, <1>9, <1>10, <1>11, <1>12
     DEF Environment

(* The receive loops of mission.py.                                        *)
LEMMA ReadProgram ==
    ASSUME TypeOK, ReadInv, Program, UNCHANGED progVars
    PROVE  ReadInv'
<1> USE DEF ReadInv
<1>t. /\ toFC \in Seq(Message) /\ toGCS \in Seq(Message)
      /\ store \in [MissionTypes -> Seq(Zones)] /\ type \in MissionTypes
      /\ items \in Seq(Zones) /\ expected \in Nat
  BY DEF TypeOK, ProtocolTypeOK
<1>i. In(toFC) \subseteq Message /\ In(toGCS) \subseteq Message
  BY <1>t, InType
<1>l. store[type] \in Seq(Zones) /\ Len(store[type]) \in Nat /\ Len(items) \in Nat
  BY <1>t
<1>c. /\ pc' = pc /\ outcome' = outcome /\ cleared' = cleared /\ verified' = verified
      /\ store' = store /\ type' = type /\ call # "idle"
  BY DEF progVars, Program, UploadRecv, FinalAckRecv, CountRecv, ItemRecv, ClearAckRecv,
         CallTimeout, fcVars
<1>d. (Clearing' <=> Clearing) /\ (Verifying' <=> Verifying) /\ ret = "none"
  BY <1>c DEF Clearing, Verifying, Phases
<1>g. In(toGCS') \subseteq In(toGCS)
  <2>1. toGCS' = toGCS \/ (toGCS # << >> /\ toGCS' = Tail(toGCS))
    BY DEF Program, UploadRecv, FinalAckRecv, CountRecv, ItemRecv, ClearAckRecv,
           CallTimeout, linkVars
  <2> QED
    BY <1>t, <2>1, TailIn
<1>h. toGCS # << >> => Head(toGCS) \in In(toGCS) /\ Head(toGCS) \in Message
  BY <1>t, TailIn, TailFacts
(* During an upload nothing has been read yet.                             *)
<1>1. CASE ~Clearing /\ ~Verifying
  <2>1. /\ \A m \in In(toFC) : ~Reads(m) /\ m.kind # "CLEAR" /\ m.kind # "LIST"
        /\ Dry(toGCS) /\ verified = {} /\ cleared = {}
    BY <1>1 DEF Phases, Reads
  <2>2. /\ \A m \in In(toFC') : ~Reads(m) /\ m.kind # "CLEAR" /\ m.kind # "LIST"
        /\ call' # "idle" => ret' = "none"
        /\ call' \in {"idle", "upload", "final_ack"}
    <3>1. CASE UploadRecv
      <4>1. \/ toFC' = toFC
            \/ \E i \in Nat : toFC' = Send(toFC, ItemMsg(type, i, NewZone))
        BY <3>1, <1>h, MessageFacts DEF UploadRecv
      <4>2. ASSUME NEW i \in Nat, toFC' = Send(toFC, ItemMsg(type, i, NewZone))
            PROVE  \A m \in In(toFC') : ~Reads(m) /\ m.kind # "CLEAR" /\ m.kind # "LIST"
        <5> DEFINE k == ItemMsg(type, i, NewZone)
        <5>1. k \in Message /\ k.kind = "ITEM"
          BY <1>t, Constructors, SaidFacts DEF Zones
        <5> HIDE DEF k
        <5>2. In(toFC') \subseteq In(toFC) \cup {k}
          BY <1>t, <4>2, <5>1, SendIn DEF k
        <5> QED
          BY <2>1, <5>1, <5>2 DEF Reads
      <4>3. /\ call' # "idle" => ret' = "none"
            /\ call' \in {"idle", "upload", "final_ack"}
        BY <3>1, <1>d DEF UploadRecv, Return
      <4> QED
        BY <2>1, <4>1, <4>2, <4>3
    <3>2. CASE FinalAckRecv \/ CallTimeout
      BY <3>2, <1>d, <2>1 DEF FinalAckRecv, CallTimeout, Return, linkVars
    <3>3. CASE CountRecv \/ ItemRecv \/ ClearAckRecv
      BY <3>3, <1>1 DEF CountRecv, ItemRecv, ClearAckRecv, Phases
    <3> QED
      BY <3>1, <3>2, <3>3 DEF Program
  <2>3. Phases'
    BY <1>1, <1>c, <1>d, <1>g, <2>1, <2>2 DEF Phases, Dry
  <2>4. ListIsLast(toFC')
    BY <2>2 DEF ListIsLast, In
  <2> QED
    BY <1>1, <1>d, <2>3, <2>4 DEF Settled, CountsBound, ReadsAreTrue
(* While it clears or verifies, the program sends reads and a final ACK.   *)
<1>2. CASE Clearing \/ Verifying
  <2>1. call \in {"clear", "count", "item"} /\ (call = "clear" => ~Verifying)
    BY <1>2, <1>c DEF Phases
  <2>2. ASSUME NEW k \in Message, ~Carries(k), k.kind # "CLEAR",
               toFC' = toFC \/ toFC' = Send(toFC, k)
        PROVE  /\ ListIsLast(toFC')
               /\ In(toFC') \subseteq In(toFC) \cup {k}
               /\ Dry(toFC) => Dry(toFC')
               /\ (\A m \in In(toFC) : m.kind # "CLEAR") => \A m \in In(toFC') : m.kind # "CLEAR"
    <3>1. ListIsLast(toFC') /\ In(toFC') \subseteq In(toFC) \cup {k}
      BY <1>t, <2>2, SendIn DEF Settled
    <3> QED
      BY <2>2, <3>1 DEF Dry
  <2>a. ASSUME Head(toGCS).kind \in {"COUNT", "ITEM"} \/ call = "item", toGCS # << >>
        PROVE  Dry(toFC)
    BY <1>2, <1>h, <2>a DEF Settled, Answered, Carries
  (* A step that only drops a message.                                     *)
  <2>n. ASSUME toFC' = toFC, call' = call, ret' = ret, items' = items, expected' = expected
        PROVE  ReadInv'
    <3>1. Phases'
      BY <1>2, <1>c, <1>d, <2>n DEF Phases
    <3>2. Settled'
      BY <1>c, <1>d, <1>g, <2>n DEF Settled, Answered
    <3>3. CountsBound'
      BY <1>c, <1>d, <1>g, <2>n DEF CountsBound
    <3>4. ReadsAreTrue'
      BY <1>c, <1>d, <1>g, <2>n DEF ReadsAreTrue
    <3> QED
      BY <3>1, <3>2, <3>3, <3>4
  (* A step that makes the call fail.                                      *)
  <2>e. ASSUME toFC' = toFC, call' = "idle", ret' = "error"
        PROVE  ReadInv'
    <3>1. Phases'
      BY <1>2, <1>c, <1>d, <2>e DEF Phases
    <3>2. Settled'
      BY <1>c, <1>d, <1>g, <2>e DEF Settled, Answered
    <3>3. CountsBound'
      BY <1>c, <1>d, <1>g, <2>e DEF CountsBound
    <3>4. ReadsAreTrue'
      BY <1>c, <1>d, <1>g, <2>e DEF ReadsAreTrue
    <3> QED
      BY <3>1, <3>2, <3>3, <3>4
  <2>3. CASE CallTimeout
    BY <2>3, <2>e DEF CallTimeout, Return, linkVars
  <2>4. CASE UploadRecv \/ FinalAckRecv
    BY <2>1, <2>4 DEF UploadRecv, FinalAckRecv
  <2>5. CASE ClearAckRecv
    <3>1. CASE toFC' = Send(toFC, ListReq(type)) /\ call' = "count" /\ items' = << >> /\ ret' = ret
      <4>1. ListReq(type) \in Message /\ ~Carries(ListReq(type)) /\ ListReq(type).kind = "LIST"
        BY <1>t, Constructors, SaidFacts
      <4>2. /\ ListIsLast(toFC') /\ In(toFC') \subseteq In(toFC) \cup {ListReq(type)}
            /\ Dry(toFC) => Dry(toFC')
        BY <2>2, <3>1, <4>1
      <4>3. Clearing /\ ~Verifying /\ call = "clear"
        BY <1>2, <2>1, <2>5 DEF ClearAckRecv
      <4>4. Phases'
        BY <1>c, <1>d, <3>1, <4>3 DEF Phases
      <4>5. Settled'
        BY <1>c, <1>d, <1>g, <3>1, <4>1, <4>2, <4>3 DEF Settled, Answered
      <4>6. CountsBound' /\ ReadsAreTrue'
        BY <1>c, <1>d, <1>g, <3>1, <4>3 DEF CountsBound, ReadsAreTrue
      <4> QED
        BY <4>4, <4>5, <4>6
    <3> QED
      BY <2>5, <2>e, <2>n, <3>1 DEF ClearAckRecv, Return
  <2>6. CASE CountRecv
    <3> DEFINE m == Head(toGCS)
    <3>1. CASE ~(m.kind = "COUNT" /\ m.type = type)
      BY <2>6, <2>n, <3>1 DEF CountRecv
    <3>2. CASE m.kind = "COUNT" /\ m.type = type
      <4>1. /\ m \in In(toGCS) /\ m.n \in Nat /\ expected' = m.n /\ items' = items /\ call = "count"
            /\ \/ m.n = 0 /\ call' = "idle" /\ ret' = "ok" /\ toFC' = toFC
               \/ call' = "item" /\ ret' = ret /\ toFC' = Send(toFC, Request(type, 0))
        BY <1>h, <2>6, <3>2, MessageFacts DEF CountRecv, Return
      <4>2. Dry(toFC)
        BY <2>6, <2>a, <3>2 DEF CountRecv
      <4>3. Request(type, 0) \in Message /\ ~Carries(Request(type, 0))
              /\ Request(type, 0).kind # "CLEAR"
        BY <1>t, Constructors, SaidFacts
      <4>4. /\ ListIsLast(toFC') /\ Dry(toFC')
            /\ (\A k \in In(toFC) : k.kind # "CLEAR") => \A k \in In(toFC') : k.kind # "CLEAR"
        BY <2>2, <4>1, <4>2, <4>3
      <4>5. Phases'
        BY <1>2, <1>c, <1>d, <4>1, <4>4 DEF Phases
      <4>6. Settled'
        BY <4>4 DEF Settled
      <4>7. CountsBound'
        <5> SUFFICES ASSUME Clearing PROVE CountsBound'
          BY <1>d DEF CountsBound
        <5>1. Len(store[type]) <= m.n /\ items = << >>
          BY <3>2, <4>1 DEF CountsBound
        <5>2. m.n = 0 => Len(store[type]) <= Len(items)
          BY <5>1, <1>l
        <5> HIDE DEF m
        <5> QED
          BY <1>c, <1>d, <1>g, <4>1, <5>1, <5>2 DEF CountsBound
      <4>8. ReadsAreTrue'
        <5> SUFFICES ASSUME Verifying PROVE ReadsAreTrue'
          BY <1>d DEF ReadsAreTrue
        <5>1. Len(store[type]) = m.n /\ items = << >>
          BY <3>2, <4>1 DEF ReadsAreTrue
        <5>2. m.n = 0 => items = store[type]
          BY <5>1, <1>l
        <5>3. \A i \in 1 .. Len(items) : items[i] = store[type][i]
          BY <5>1
        <5> HIDE DEF m
        <5> QED
          BY <1>c, <1>d, <1>g, <4>1, <5>1, <5>2, <5>3 DEF ReadsAreTrue
      <4> QED
        BY <4>5, <4>6, <4>7, <4>8
    <3> QED
      BY <3>1, <3>2
  <2>7. CASE ItemRecv
    <3> DEFINE m == Head(toGCS)
    <3>1. CASE ~(m.kind = "ITEM" /\ m.type = type /\ m.seq = Len(items))
      BY <2>7, <2>n, <3>1 DEF ItemRecv
    <3>2. CASE m.kind = "ITEM" /\ m.type = type /\ m.seq = Len(items)
      <4> DEFINE n == Len(items')
      <4>0. /\ m \in In(toGCS) /\ m.zone \in Zones /\ items' = Append(items, m.zone)
            /\ call = "item" /\ expected' = expected
        BY <1>h, <2>7, <3>2, MessageFacts DEF ItemRecv
      <4>i. /\ items' \in Seq(Zones) /\ n \in Nat /\ n = Len(items) + 1
            /\ \A i \in 1 .. Len(items) : items'[i] = items[i]
            /\ items'[Len(items) + 1] = m.zone
        BY <1>t, <4>0
      <4>1. \/ n = expected /\ call' = "idle" /\ ret' = "ok" /\ toFC' = Send(toFC, Ack(type, TRUE))
            \/ call' = "item" /\ ret' = ret /\ toFC' = Send(toFC, Request(type, n))
        BY <2>7, <3>2 DEF ItemRecv, Return
      <4> HIDE DEF n
      <4>2. Dry(toFC)
        BY <2>7, <2>a, <3>2 DEF ItemRecv
      <4>3. /\ Request(type, n) \in Message /\ ~Carries(Request(type, n))
            /\ Request(type, n).kind # "CLEAR"
            /\ Ack(type, TRUE) \in Message /\ ~Carries(Ack(type, TRUE))
            /\ Ack(type, TRUE).kind # "CLEAR"
        BY <1>t, <4>i, Constructors, SaidFacts
      <4>4. /\ ListIsLast(toFC') /\ Dry(toFC')
            /\ (\A k \in In(toFC) : k.kind # "CLEAR") => \A k \in In(toFC') : k.kind # "CLEAR"
        BY <2>2, <4>1, <4>2, <4>3
      <4>5. Phases'
        BY <1>2, <1>c, <1>d, <4>1, <4>4 DEF Phases
      <4>6. Settled'
        BY <4>4 DEF Settled
      <4>7. CountsBound'
        <5> SUFFICES ASSUME Clearing PROVE CountsBound'
          BY <1>d DEF CountsBound
        <5>1. Len(store[type]) <= expected
          BY <4>0 DEF CountsBound
        <5> HIDE DEF m
        <5> QED
          BY <1>c, <1>d, <1>g, <4>0, <4>1, <5>1 DEF CountsBound, n
      <4>8. ReadsAreTrue'
        <5> SUFFICES ASSUME Verifying PROVE ReadsAreTrue'
          BY <1>d DEF ReadsAreTrue
        <5>1. /\ expected = Len(store[type]) /\ m.zone = store[type][Len(items) + 1]
              /\ \A i \in 1 .. Len(items) : items[i] = store[type][i]
          BY <3>2, <4>0 DEF ReadsAreTrue
        <5> HIDE DEF m
        <5>2. \A i \in 1 .. n : items'[i] = store[type][i]
          BY <1>l, <4>i, <5>1
        <5>3. n = expected => items' = store[type]
          BY <1>l, <4>i, <5>1, <5>2, SeqEqual DEF n
        <5> QED
          BY <1>c, <1>d, <1>g, <4>0, <4>1, <5>1, <5>2, <5>3 DEF ReadsAreTrue, n
      <4> QED
        BY <4>5, <4>6, <4>7, <4>8
    <3> QED
      BY <3>1, <3>2
  <2> QED
    BY <2>3, <2>4, <2>5, <2>6, <2>7 DEF Program
<1> QED
  BY <1>1, <1>2

(* The steps of select_zone.                                               *)
LEMMA ReadSelect ==
    ASSUME TypeOK, ReadInv, Select \/ VerifyRaised
    PROVE  ReadInv'
<1> USE DEF ReadInv
<1>t. toFC \in Seq(Message) /\ type \in MissionTypes /\ "MISSION" \in MissionTypes
  BY DEF TypeOK, ProtocolTypeOK, MissionTypes
<1>k. \A t \in MissionTypes :
        /\ ListReq(t) \in Message /\ ~Carries(ListReq(t)) /\ ListReq(t).kind = "LIST"
        /\ ClearAll(t) \in Message /\ ~Carries(ClearAll(t)) /\ ClearAll(t).kind = "CLEAR"
  BY Constructors, SaidFacts
(* The steps before the first upload.                                      *)
<1>1. ASSUME UNCHANGED <<protocolVars, verified, cleared>>, pc \notin {"verify", "clear", "end"},
             \/ pc' \notin {"verify", "clear", "end"} /\ outcome' = outcome
             \/ pc' = "end" /\ outcome' \notin {"none", "upload_failed"} \cup Uploaded
      PROVE  ReadInv'
  <2>1. ~Clearing /\ ~Verifying /\ ~Clearing' /\ ~Verifying'
    BY <1>1 DEF Clearing, Verifying, Phases
  <2>2. Phases' /\ Settled'
    BY <1>1, <2>1 DEF Phases, Settled, protocolVars, linkVars, callVars
  <2> QED
    BY <2>1, <2>2 DEF CountsBound, ReadsAreTrue
<1>2. CASE Confirm
  BY <1>1, <1>2 DEF Confirm, End
<1>3. CASE Connect
  BY <1>1, <1>3 DEF Connect, End
<1>4. CASE CheckNotArmed
  <2>1. /\ UNCHANGED <<protocolVars, verified, cleared>> /\ pc = "check"
        /\ \/ pc' \in {"plan", "activate"} /\ outcome' = outcome
           \/ pc' = "end" /\ outcome' = "armed"
    BY <1>4 DEF CheckNotArmed, End
  <2> QED
    BY <1>1, <2>1
<1>5. CASE ActivateZoneOnJetson \/ ActivateReturned
  BY <1>1, <1>5 DEF ActivateZoneOnJetson, ActivateReturned, End
(* The start of an upload.                                                 *)
<1>u. ASSUME NEW t \in MissionTypes, StartUpload(t), pc \in {"plan", "upload"}, pc' = "upload",
             UNCHANGED <<outcome, verified, cleared>>
      PROVE  ReadInv'
  <2> DEFINE k == Count(t, ItemCount[NewZone][t])
  <2>1. k \in Message /\ k.kind = "COUNT"
    BY CountsPositive, Constructors, SaidFacts DEF Zones
  <2> HIDE DEF k
  <2>2. /\ toFC' = Send(toFC, k) /\ toGCS' = toGCS /\ call' = "upload" /\ ret' = "none"
    BY <1>u DEF StartUpload, k
  <2>3. ~Clearing /\ ~Verifying /\ ~Clearing' /\ ~Verifying'
    BY <1>u DEF Clearing, Verifying, Phases
  <2>4. \A m \in In(toFC) : ~Reads(m) /\ m.kind # "CLEAR" /\ m.kind # "LIST"
    BY <2>3 DEF Phases, Reads
  <2>5. In(toFC') \subseteq In(toFC) \cup {k} /\ ListIsLast(toFC')
    BY <1>t, <2>1, <2>2, <2>4, SendIn
  <2>6. Phases'
    BY <1>u, <2>1, <2>2, <2>3, <2>4, <2>5 DEF Phases, Reads
  <2> QED
    BY <2>3, <2>5, <2>6 DEF Settled, CountsBound, ReadsAreTrue
<1>6. CASE Plan
  BY <1>1, <1>6, <1>t, <1>u DEF Plan, End
(* The start of a download that verifies the round trip.                   *)
<1>v. ASSUME NEW t \in MissionTypes, StartDownload(t), pc' = "verify", outcome' = outcome,
             pc = "verify" \/ (pc = "upload" /\ verified' = verified),
             cleared' = cleared, \A u \in verified' : store[u] = Items(NewZone, u),
             verified' # {} => Answered
      PROVE  ReadInv'
  <2>1. /\ toFC' = Send(toFC, ListReq(t)) /\ toGCS' = toGCS /\ store' = store
        /\ call' = "count" /\ type' = t /\ ret' = "none" /\ items' = << >>
    BY <1>v DEF StartDownload, fcVars
  <2>2. /\ outcome = "none" /\ Verifying' /\ ~Clearing' /\ ~Clearing
        /\ (pc = "verify" <=> Verifying)
    BY <1>v DEF Clearing, Verifying, Phases
  <2>3. /\ cleared = {} /\ \A m \in In(toFC) : m.kind # "CLEAR"
    BY <2>2 DEF Phases
  <2>4. /\ In(toFC') \subseteq In(toFC) \cup {ListReq(t)} /\ ListIsLast(toFC')
    BY <1>t, <1>k, <2>1, SendIn DEF Settled
  <2>5. Phases'
    BY <1>v, <1>k, <2>1, <2>2, <2>3, <2>4 DEF Phases
  <2>6. Answered' => Verifying /\ Dry(toFC)
    <3>1. ASSUME Answered' PROVE Answered
      BY <1>v, <1>k, <2>1, <2>3, <2>4, <3>1 DEF Answered
    <3>2. ASSUME Answered', pc = "upload" PROVE FALSE
      <4>1. verified = {} /\ Dry(toGCS) /\ \A m \in In(toFC) : ~Reads(m)
        BY <2>2, <3>2 DEF Phases, Verifying
      <4> QED
        BY <1>v, <1>k, <2>1, <2>3, <2>4, <3>2, <4>1 DEF Answered, Dry, Reads
    <3> QED
      BY <1>v, <2>2, <3>1, <3>2 DEF Settled
  <2>7. Settled'
    BY <1>k, <2>4, <2>6 DEF Settled, Dry
  <2>8. ReadsAreTrue'
    <3>1. CASE Verifying
      BY <1>v, <2>1, <3>1 DEF ReadsAreTrue
    <3>2. CASE ~Verifying
      <4>1. Dry(toGCS)
        BY <2>2, <3>2 DEF Phases
      <4> QED
        BY <1>v, <2>1, <4>1 DEF ReadsAreTrue, Dry, Carries
    <3> QED
      BY <3>1, <3>2
  <2> QED
    BY <2>2, <2>5, <2>7, <2>8 DEF CountsBound
<1>7. CASE UploadReturned
  <2>1. /\ pc = "upload" /\ UNCHANGED <<outcome, verified, cleared>>
        /\ \/ NextType(type) \in MissionTypes /\ StartUpload(NextType(type)) /\ pc' = pc
           \/ StartDownload("MISSION") /\ pc' = "verify"
    BY <1>7, <1>t, NextTypeFacts DEF UploadReturned
  <2>2. verified = {}
    BY <2>1 DEF Phases, Clearing, Verifying
  <2> QED
    BY <1>t, <1>u, <1>v, <2>1, <2>2
<1>8. CASE VerifyReturned
  <2>1. /\ pc = "verify" /\ call = "idle" /\ cleared' = cleared
        /\ verified' = IF RoundTripMatches THEN verified \cup {type} ELSE verified
    BY <1>8 DEF VerifyReturned
  <2>2. Verifying /\ outcome = "none" /\ ~Clearing
    BY <2>1 DEF Verifying, Clearing, Phases
  <2>3. \A u \in verified' : store[u] = Items(NewZone, u)
    BY <2>1, <2>2 DEF RoundTripMatches, ReadsAreTrue
  <2>4. verified' # {} => Answered
    BY <2>1 DEF RoundTripMatches, Answered
  <2>5. CASE NextType(type) # "none"
    <3>1. /\ NextType(type) \in MissionTypes /\ StartDownload(NextType(type)) /\ pc' = pc
          /\ outcome' = outcome
      BY <1>8, <1>t, <2>5, NextTypeFacts DEF VerifyReturned
    <3> QED
      BY <1>v, <2>1, <2>3, <2>4, <3>1
  <2>6. CASE NextType(type) = "none"
    <3>1. UNCHANGED protocolVars /\ pc' = "end" /\ outcome' \in Uploaded
      BY <1>8, <2>6 DEF VerifyReturned, End
    <3>2. /\ toFC' = toFC /\ toGCS' = toGCS /\ store' = store /\ call' = call /\ type' = type
          /\ ret' = ret /\ items' = items /\ expected' = expected
      BY <3>1 DEF protocolVars, linkVars, fcVars, callVars
    <3>3. Verifying' /\ ~Clearing'
      BY <3>1 DEF Verifying, Clearing
    <3>4. Phases'
      BY <2>1, <2>2, <3>1, <3>2, <3>3 DEF Phases
    <3>5. Answered' => Answered
      BY <2>1, <2>4, <3>2 DEF Answered
    <3>6. Settled'
      BY <2>2, <3>2, <3>5 DEF Settled
    <3>7. ReadsAreTrue'
      BY <2>2, <2>3, <3>2 DEF ReadsAreTrue
    <3> QED
      BY <3>3, <3>4, <3>6, <3>7 DEF CountsBound
  <2> QED
    BY <2>5, <2>6
(* The start of a clear.                                                   *)
<1>x. ASSUME NEW t \in MissionTypes, StartClear(t), pc' = "clear", outcome' = outcome,
             pc = "clear" \/ (pc = "upload" /\ cleared' = cleared), verified' = verified,
             \A u \in cleared' : Len(store[u]) <= Home(u), cleared' # {} => Answered
      PROVE  ReadInv'
  <2>1. /\ toFC' = Send(toFC, ClearAll(t)) /\ toGCS' = toGCS /\ store' = store
        /\ call' = "clear" /\ type' = t /\ ret' = "none"
    BY <1>x DEF StartClear, fcVars
  <2>2. /\ outcome = "none" /\ Clearing' /\ ~Verifying' /\ ~Verifying
        /\ (pc = "clear" <=> Clearing)
    BY <1>x DEF Clearing, Verifying, Phases
  <2>3. verified = {}
    BY <2>2 DEF Phases
  <2>4. /\ In(toFC') \subseteq In(toFC) \cup {ClearAll(t)} /\ ListIsLast(toFC')
    BY <1>t, <1>k, <2>1, SendIn DEF Settled
  <2>5. Phases'
    BY <1>x, <2>1, <2>2, <2>3 DEF Phases
  <2>6. Answered' => Clearing /\ Dry(toFC)
    <3>1. ASSUME Answered' PROVE Answered
      BY <1>x, <1>k, <2>1, <2>3, <2>4, <3>1 DEF Answered
    <3>2. ASSUME Answered', pc = "upload" PROVE FALSE
      <4>1. cleared = {} /\ Dry(toGCS) /\ \A m \in In(toFC) : ~Reads(m)
        BY <2>2, <3>2 DEF Phases, Clearing
      <4> QED
        BY <1>x, <1>k, <2>1, <2>3, <2>4, <3>2, <4>1 DEF Answered, Dry, Reads
    <3> QED
      BY <1>x, <2>2, <3>1, <3>2 DEF Settled
  <2>7. Settled'
    BY <1>k, <2>4, <2>6 DEF Settled, Dry
  <2>8. CountsBound'
    <3>1. CASE Clearing
      BY <1>x, <2>1, <3>1 DEF CountsBound
    <3>2. CASE ~Clearing
      <4>1. Dry(toGCS)
        BY <2>2, <3>2 DEF Phases
      <4> QED
        BY <1>x, <2>1, <4>1 DEF CountsBound, Dry, Carries
    <3> QED
      BY <3>1, <3>2
  <2> QED
    BY <2>2, <2>5, <2>7, <2>8 DEF ReadsAreTrue
<1>9. CASE UploadRaised
  <2>1. pc = "upload" /\ UNCHANGED <<outcome, verified, cleared>> /\ StartClear("MISSION")
          /\ pc' = "clear"
    BY <1>9 DEF UploadRaised
  <2>2. cleared = {}
    BY <2>1 DEF Phases, Clearing, Verifying
  <2> QED
    BY <1>t, <1>x, <2>1, <2>2
<1>9a. CASE VerifyRaised
  <2> DEFINE k == ClearAll("MISSION")
  <2>1. /\ toFC' = Send(toFC, k) /\ toGCS' = toGCS /\ store' = store
        /\ call' = "clear" /\ ret' = "none" /\ verified' = {} /\ cleared' = cleared
        /\ pc = "verify" /\ pc' = "clear" /\ outcome' = outcome
    BY <1>9a DEF VerifyRaised, StartClear, fcVars
  <2>2. outcome = "none" /\ Verifying /\ ~Clearing /\ Clearing' /\ ~Verifying' /\ cleared = {}
    BY <2>1 DEF Clearing, Verifying, Phases, Uploaded
  <2>3. k \in Message /\ ~Carries(k) /\ k.kind = "CLEAR"
    BY <1>t, <1>k
  <2> HIDE DEF k
  <2>4. In(toFC') \subseteq In(toFC) \cup {k} /\ ListIsLast(toFC')
    BY <1>t, <2>1, <2>3, SendIn DEF Settled
  <2>5. Phases'
    BY <2>1, <2>2 DEF Phases
  <2>6. Answered' => Answered
    BY <2>1, <2>2, <2>3, <2>4 DEF Answered
  <2>7. Settled'
    BY <2>2, <2>3, <2>4, <2>6 DEF Settled, Dry
  <2>8. CountsBound'
    <3>1. \A m \in In(toGCS) : m.kind = "COUNT" => m.n = Len(store[m.type])
      BY <2>2 DEF ReadsAreTrue
    <3>2. \A m \in In(toGCS) : m.kind = "COUNT" => m.n \in Nat
      BY MessageFacts DEF TypeOK, ProtocolTypeOK, In
    <3>3. \A m \in In(toGCS) : m.kind = "COUNT" => Len(store[m.type]) <= m.n
      BY <3>1, <3>2
    <3> QED
      BY <2>1, <2>2, <3>3 DEF CountsBound
  <2> QED
    BY <2>2, <2>5, <2>7, <2>8 DEF ReadsAreTrue
<1>10. CASE ClearReturned
  <2>1. /\ pc = "clear" /\ call = "idle" /\ verified' = verified
        /\ cleared' = IF ClearVerified THEN cleared \cup {type} ELSE cleared
    BY <1>10 DEF ClearReturned
  <2>2. Clearing /\ outcome = "none" /\ ~Verifying
    BY <2>1 DEF Verifying, Clearing, Phases
  <2>3. \A u \in cleared' : Len(store[u]) <= Home(u)
    <3>1. ClearVerified => Len(store[type]) <= Home(type)
      <4>1. Len(store[type]) \in Nat /\ Len(items) \in Nat
        BY DEF TypeOK, ProtocolTypeOK
      <4> QED
        BY <2>2, <4>1 DEF ClearVerified, Home, CountsBound
    <3> QED
      BY <2>1, <2>2, <3>1 DEF CountsBound
  <2>4. cleared' # {} => Answered
    BY <2>1 DEF ClearVerified, Answered
  <2>5. CASE ClearVerified /\ NextType(type) # "none"
    <3>1. /\ NextType(type) \in MissionTypes /\ StartClear(NextType(type)) /\ pc' = pc
          /\ outcome' = outcome
      BY <1>10, <1>t, <2>5, NextTypeFacts DEF ClearReturned
    <3> QED
      BY <1>x, <2>1, <2>3, <2>4, <3>1
  <2>6. CASE ~(ClearVerified /\ NextType(type) # "none")
    <3>1. UNCHANGED protocolVars /\ pc' = "end" /\ outcome' = "upload_failed"
      BY <1>10, <2>6 DEF ClearReturned, End
    <3>2. /\ toFC' = toFC /\ toGCS' = toGCS /\ store' = store /\ call' = call /\ type' = type
          /\ ret' = ret /\ items' = items /\ expected' = expected
      BY <3>1 DEF protocolVars, linkVars, fcVars, callVars
    <3>3. Clearing' /\ ~Verifying'
      BY <3>1 DEF Verifying, Clearing
    <3>4. Phases'
      BY <2>1, <2>2, <3>1, <3>2, <3>3 DEF Phases
    <3>5. Answered' => Answered
      BY <2>1, <2>4, <3>2 DEF Answered
    <3>6. Settled'
      BY <2>2, <3>2, <3>5 DEF Settled
    <3>7. CountsBound'
      BY <2>2, <2>3, <3>2 DEF CountsBound
    <3> QED
      BY <3>3, <3>4, <3>6, <3>7 DEF ReadsAreTrue
  <2> QED
    BY <2>5, <2>6
<1> QED
  BY <1>2, <1>3, <1>4, <1>5, <1>6, <1>7, <1>8, <1>9, <1>9a, <1>10 DEF Select

(* The invariant holds initially and every step preserves it.              *)
LEMMA ReadInit == Init => ReadInv
<1> SUFFICES ASSUME Init PROVE ReadInv
  OBVIOUS
<1>1. /\ toFC = << >> /\ toGCS = << >> /\ call = "idle" /\ ret = "none"
      /\ pc = "start" /\ outcome = "none" /\ verified = {} /\ cleared = {}
  BY DEF Init, ProtocolInit
<1>2. In(toFC) = {} /\ In(toGCS) = {} /\ ListIsLast(toFC)
  BY <1>1 DEF In, ListIsLast
<1> QED
  BY <1>1, <1>2 DEF ReadInv, Phases, Settled, CountsBound, ReadsAreTrue, Clearing,
                    Verifying, Dry

LEMMA ReadStep == TypeOK /\ ReadInv /\ [Next]_vars => ReadInv'
<1> SUFFICES ASSUME TypeOK, ReadInv, [Next]_vars PROVE ReadInv'
  OBVIOUS
<1>1. CASE Select \/ VerifyRaised
  BY <1>1, ReadSelect
<1>2. CASE Program /\ UNCHANGED progVars
  BY <1>2, ReadProgram
<1>3. CASE Environment /\ UNCHANGED progVars
  BY <1>3, ReadEnvironment
<1>4. ASSUME UNCHANGED <<protocolVars, pc, outcome, verified, cleared>> PROVE ReadInv'
  <2>1. /\ toFC' = toFC /\ toGCS' = toGCS /\ store' = store /\ call' = call /\ type' = type
        /\ ret' = ret /\ items' = items /\ expected' = expected
    BY <1>4 DEF protocolVars, linkVars, fcVars, callVars
  <2> QED
    BY <1>4, <2>1 DEF ReadInv, Phases, Settled, CountsBound, ReadsAreTrue, Clearing,
                      Verifying, Answered
<1>5. CASE Arm
  BY <1>4, <1>5 DEF Arm
<1>6. CASE UNCHANGED vars
  BY <1>4, <1>6 DEF vars, protocolVars, progVars
<1>7. CASE Jetson
  BY <1>4, <1>7 DEF Jetson, JetsonSaves, JetsonRestarts, JetsonRestartsBridge,
     SlamRestarts, Remote
<1> QED
  BY <1>1, <1>2, <1>3, <1>5, <1>6, <1>7 DEF Next, Ended

(* A clear_mission that returned normally left nothing of its type but a   *)
(* home item, and nothing that was sent before refills the store: for      *)
(* every number of items and every capacity of the link, over a link that  *)
(* loses and duplicates messages.                                          *)
THEOREM ClearedIsEmpty == Spec => []ClearedMeansEmpty
<1>1. ReadInv => ClearedMeansEmpty
  BY DEF ReadInv, CountsBound, Phases, ClearedMeansEmpty, Home
<1> QED
  BY <1>1, ReadInit, ReadStep, TypeCorrect, PTL DEF Spec

(* verify_round_trip returned True for a type only if the flight           *)
(* controller stores it as the new zone has it, and the store stays so:    *)
(* over a link that loses and duplicates messages, where an accepting ACK  *)
(* proves nothing.                                                         *)
THEOREM VerifiedIsStored == Spec => []VerifiedMeansStored
<1>1. ReadInv => VerifiedMeansStored
  BY DEF ReadInv, ReadsAreTrue, Phases, VerifiedMeansStored
<1> QED
  BY <1>1, ReadInit, ReadStep, TypeCorrect, PTL DEF Spec

-----------------------------------------------------------------------------
(***************************************************************************)
(* Why a mismatch needs a failed clear.  A command that ends before its    *)
(* first upload has touched nothing; one that ends behind its uploads has  *)
(* stored everything; and one whose last clear_mission succeeded is at the *)
(* rally points, so the clear of the fence succeeded before it and the     *)
(* flight controller holds no fence at all.                                *)
(***************************************************************************)
Refused == outcome \notin {"none", "upload_failed"} \cup Uploaded

EndsInOrder ==
    /\ Early \/ Refused =>
         /\ toFC = << >> /\ toGCS = << >> /\ ~rx.active
         /\ store = [t \in MissionTypes |-> Items(OldZone, t)]
    /\ Early \/ pc = "end" => call = "idle"
    /\ Clearing => (type = "RALLY" => "FENCE" \in cleared)
    /\ outcome = "upload_failed" /\ ClearVerified => type = "RALLY"

(* Every step keeps EndsInOrder.                                           *)
LEMMA EndsStep == TypeOK /\ ReadInv /\ EndsInOrder /\ [Next]_vars => EndsInOrder'
<1> SUFFICES ASSUME TypeOK, ReadInv, EndsInOrder, [Next]_vars PROVE EndsInOrder'
  OBVIOUS
<1>o. outcome = "none" <=> pc # "end"
  BY DEF ReadInv, Phases
<1>e. ASSUME UNCHANGED <<protocolVars, cleared>>,
             \/ outcome' = outcome /\ pc' = pc
             \/ Early /\ Early' /\ outcome' = outcome
             \/ Early /\ pc' = "end" /\ outcome' \notin {"upload_failed"} \cup Uploaded
      PROVE  EndsInOrder'
  <2>1. /\ toFC' = toFC /\ toGCS' = toGCS /\ store' = store /\ rx' = rx /\ call' = call
        /\ type' = type /\ ret' = ret /\ items' = items
    BY <1>e DEF protocolVars, linkVars, fcVars, callVars
  <2>2. CASE pc' = pc /\ outcome' = outcome
    BY <1>e, <2>1, <2>2 DEF EndsInOrder, Early, Refused, Clearing, ClearVerified
  <2>3. CASE Early
    <3>1. outcome = "none" /\ ~Clearing'
      BY <1>o, <1>e, <2>3 DEF Early, Clearing
    <3> QED
      BY <1>e, <2>1, <2>3, <3>1 DEF EndsInOrder, Clearing
  <2> QED
    BY <1>e, <2>2, <2>3
<1>1. CASE Confirm \/ Connect \/ ActivateZoneOnJetson \/ ActivateReturned
  BY <1>1, <1>e DEF Confirm, Connect, ActivateZoneOnJetson, ActivateReturned, End, Early
<1>2. CASE CheckNotArmed
  <2>1. /\ UNCHANGED <<protocolVars, cleared>> /\ pc = "check"
        /\ \/ pc' \in {"plan", "activate"} /\ outcome' = outcome
           \/ pc' = "end" /\ outcome' = "armed"
    BY <1>2 DEF CheckNotArmed, End
  <2> QED
    BY <1>e, <2>1 DEF Early
(* The steps of _upload_zone_atomically that do not end it.                *)
<1>u. ASSUME pc \in {"plan", "upload", "verify"}, pc' \in {"upload", "verify"}, outcome' = outcome
      PROVE  EndsInOrder'
  BY <1>o, <1>u DEF EndsInOrder, Early, Refused, Clearing
<1>3. CASE Plan
  BY <1>3, <1>e, <1>u DEF Plan, End, Early
<1>4. CASE UploadReturned
  BY <1>4, <1>u DEF UploadReturned
<1>5. CASE UploadRaised \/ VerifyRaised
  BY <1>5, <1>o DEF UploadRaised, VerifyRaised, StartClear, EndsInOrder, Early, Refused, Clearing
<1>6. CASE VerifyReturned
  <2>1. \/ pc = "verify" /\ pc' = pc /\ outcome' = outcome
        \/ pc' = "end" /\ outcome' \in Uploaded /\ call' = "idle"
    BY <1>6 DEF VerifyReturned, End, protocolVars, callVars
  <2> QED
    BY <1>u, <2>1 DEF EndsInOrder, Early, Refused, Clearing
<1>7. CASE ClearReturned
  <2>1. /\ pc = "clear" /\ call = "idle" /\ Clearing /\ outcome = "none"
        /\ cleared' = IF ClearVerified THEN cleared \cup {type} ELSE cleared
    BY <1>7, <1>o DEF ClearReturned, Clearing
  <2>2. CASE ClearVerified /\ NextType(type) # "none"
    <3>1. pc' = pc /\ outcome' = outcome /\ type' = NextType(type)
      BY <1>7, <2>2 DEF ClearReturned, StartClear
    <3>2. type' = "RALLY" => "FENCE" \in cleared'
      BY <2>1, <2>2, <3>1 DEF NextType
    <3> QED
      BY <2>1, <3>1, <3>2 DEF EndsInOrder, Early, Refused
  <2>3. CASE ~(ClearVerified /\ NextType(type) # "none")
    <3>1. /\ pc' = "end" /\ outcome' = "upload_failed" /\ UNCHANGED protocolVars
      BY <1>7, <2>3 DEF ClearReturned, End
    <3>2. type' = type /\ ret' = ret /\ items' = items /\ call' = call
      BY <3>1 DEF protocolVars, callVars
    <3>3. NextType(type) = "none" => type = "RALLY"
      BY DEF NextType, TypeOK, ProtocolTypeOK, MissionTypes
    <3> QED
      BY <2>1, <2>3, <3>1, <3>2, <3>3 DEF EndsInOrder, Early, Refused, ClearVerified
  <2> QED
    BY <2>2, <2>3
(* A call runs, or a message moves, only between the first upload and the  *)
(* end, or after an upload that failed.                                    *)
<1>8. CASE Program /\ UNCHANGED progVars
  <2>1. /\ call # "idle" /\ type' = type /\ pc' = pc /\ outcome' = outcome /\ cleared' = cleared
    BY <1>8 DEF progVars, Program, UploadRecv, FinalAckRecv, CountRecv, ItemRecv,
                ClearAckRecv, CallTimeout
  <2> QED
    BY <1>o, <2>1 DEF EndsInOrder, Early, Refused, Clearing
<1>9. CASE Environment /\ UNCHANGED progVars
  <2>1. /\ pc' = pc /\ outcome' = outcome /\ cleared' = cleared
        /\ call' = call /\ type' = type /\ ret' = ret /\ items' = items
    BY <1>9 DEF progVars, Environment, LoseToFC, LoseToGCS, DuplicateToGCS, FcCount, FcItem,
           FcUnexpectedItem, FcRepeatRequest, FcAbandon, FcList, FcGet, FcClear, FcAck,
           callVars
  <2>2. toFC # << >> \/ toGCS # << >> \/ rx.active
    BY <1>9 DEF Environment, LoseToFC, LoseToGCS, DuplicateToGCS, FcCount, FcItem,
           FcUnexpectedItem, FcRepeatRequest, FcAbandon, FcList, FcGet, FcClear, FcAck
  <2> QED
    BY <2>1, <2>2 DEF EndsInOrder, Early, Refused, Clearing, ClearVerified
<1>10. CASE Arm
  BY <1>10, <1>e DEF Arm
<1>11. CASE Jetson
  BY <1>11, <1>e DEF Jetson, JetsonSaves, JetsonRestarts, JetsonRestartsBridge,
     SlamRestarts, Remote
<1>12. CASE UNCHANGED vars
  BY <1>12, <1>e DEF vars, protocolVars, progVars
<1> QED
  BY <1>1, <1>2, <1>3, <1>4, <1>5, <1>6, <1>7, <1>8, <1>9, <1>10, <1>11, <1>12
     DEF Next, Ended, Select

(* The item lists of two zones differ, and none is empty.                  *)
LEMMA ItemsDiffer ==
    ASSUME NEW y \in Zones, NEW z \in Zones, NEW t \in MissionTypes
    PROVE  /\ Items(y, t) = Items(z, t) => y = z
           /\ Len(Items(y, t)) > 0
<1>1. ItemCount[y][t] \in Nat /\ ItemCount[z][t] \in Nat
        /\ ItemCount[y][t] > 0 /\ ItemCount[z][t] > 0
  BY CountsPositive
<1>2. 1 \in 1 .. ItemCount[y][t] /\ 1 \in 1 .. ItemCount[z][t]
  BY <1>1
<1>3. Items(y, t)[1] = y /\ Items(z, t)[1] = z
  BY <1>2 DEF Items
<1> QED
  BY <1>1, <1>3 DEF Items

(* Over a link that loses messages but does not duplicate them, the        *)
(* command ends with the mission of one zone and the fence of another only *)
(* after a clear_mission raised as well, and says that the upload failed:  *)
(* for every number of items, every capacity of the link and every set of  *)
(* types that are stored in place.                                         *)
THEOREM MismatchNeedsFailedClear ==
    ASSUME ~LinkDuplicates
    PROVE  Spec => []MismatchOnlyAfterFailedClear
<1>1. Init => EndsInOrder
  BY TransferFacts DEF Init, ProtocolInit, EndsInOrder, Early, Refused, Clearing
<1>2. TypeOK /\ IInv /\ ReadInv /\ EndsInOrder => MismatchOnlyAfterFailedClear
  <2> SUFFICES ASSUME TypeOK, IInv, ReadInv, EndsInOrder, pc = "end", Mismatch
               PROVE  outcome = "upload_failed" /\ ~ClearVerified
    BY DEF MismatchOnlyAfterFailedClear
  <2>m. "MISSION" \in MissionTypes /\ "FENCE" \in MissionTypes /\ outcome # "none"
    BY DEF MissionTypes, ReadInv, Phases
  <2>1. PICK y \in Zones, z \in Zones : /\ y # z
                                        /\ store["MISSION"] = Items(y, "MISSION")
                                        /\ store["FENCE"] = Items(z, "FENCE")
    BY DEF Mismatch
  <2>2. ASSUME NEW w \in Zones, \A t \in MissionTypes : store[t] = Items(w, t)
        PROVE  FALSE
    BY <2>1, <2>2, <2>m, ItemsDiffer
  <2>3. outcome \notin Uploaded
    BY <2>2 DEF IInv, DoneInv, Done, StoredNew, Zones
  <2>4. ~Refused
    BY <2>2 DEF EndsInOrder, Zones
  <2>5. outcome = "upload_failed"
    BY <2>3, <2>4, <2>m DEF Refused
  <2>6. ASSUME ClearVerified PROVE FALSE
    <3>1. Clearing /\ "FENCE" \in cleared
      BY <2>5, <2>6 DEF EndsInOrder, Clearing
    <3>2. Len(store["FENCE"]) <= 0
      BY <3>1 DEF ReadInv, CountsBound, Home
    <3>3. Len(Items(z, "FENCE")) > 0 /\ Len(Items(z, "FENCE")) \in Nat
      BY <2>m, ItemsDiffer, ItemsType
    <3> QED
      BY <2>1, <3>2, <3>3
  <2> QED
    BY <2>5, <2>6
<1>3. Init => IInv
  BY InitInv
<1>4. TypeOK /\ IInv /\ [Next]_vars => IInv'
  BY StepInv
<1> QED
  BY <1>1, <1>2, <1>3, <1>4, EndsStep, ReadInit, ReadStep, TypeCorrect, PTL DEF Spec

-----------------------------------------------------------------------------
(***************************************************************************)
(* Why the command is a transaction.  There is at most one count in flight *)
(* or one transfer at the flight controller, also after an upload has      *)
(* failed, and it is about the first store that is not new.  A clear is    *)
(* sent after everything that could write an item, and only when the types *)
(* before it have been found empty; so no store is written after one was   *)
(* cleared, and the stores are cleared in order.                           *)
(***************************************************************************)
StoredOld(t) == store[t] = Items(OldZone, t)
After(t) ==
    IF t = "MISSION" THEN {"FENCE", "RALLY"}
    ELSE IF t = "FENCE" THEN {"RALLY"} ELSE {}

(* Nothing that carries an upload is behind a clear.                       *)
ClearIsLast(link) ==
    \A i, j \in 1 .. Len(link) :
        i < j /\ link[i].kind = "CLEAR" => ~Carries(link[j])

(* t is the type that is being replaced.                                   *)
Frontier(t) ==
    /\ \A u \in Before(t) : StoredNew(u)
    /\ \A u \in After(t) : StoredOld(u)
    /\ Len(store[t]) > Home(t)

InOrder ==
    /\ pc = "upload" /\ ret # "error" => Frontier(type)
    /\ HasCount(toFC) => ~rx.active
    /\ OneCount(toFC)
    /\ rx.active /\ (Clearing => ~Dry(toFC)) => Frontier(rx.type)
    /\ \A m \in In(toFC) : IsCount(m) => Frontier(m.type)
    /\ ClearIsLast(toFC)
    /\ \A m \in In(toFC) : m.kind = "CLEAR" => Before(m.type) \subseteq cleared
    /\ Clearing => Before(type) \subseteq cleared

(* A mission has more than its home item: zone_to_mission puts the home,   *)
(* the speed and the resume distance before the waypoints.                 *)
LongMissions == \A z \in Zones : ItemCount[z]["MISSION"] > 1

(* Taking the oldest message off a link, and putting one on it.            *)
LEMMA TailClear ==
    ASSUME NEW link \in Seq(Message), link # << >>, ClearIsLast(link)
    PROVE  /\ ClearIsLast(Tail(link))
           /\ Head(link).kind = "CLEAR" => Dry(Tail(link))
<1> DEFINE T == Tail(link)
<1>1. /\ Head(link) = link[1]
      /\ 1 \in 1 .. Len(link)
      /\ \A i \in 1 .. Len(T) : /\ i + 1 \in 1 .. Len(link) /\ T[i] = link[i + 1]
                                /\ i \in Nat /\ 1 < i + 1
  BY TailFacts
<1> HIDE DEF T
<1>2. ClearIsLast(T)
  <2> SUFFICES ASSUME NEW i \in 1 .. Len(T), NEW j \in 1 .. Len(T), i < j, T[i].kind = "CLEAR"
               PROVE  ~Carries(T[j])
    BY DEF ClearIsLast
  <2>1. i + 1 < j + 1
    BY <1>1
  <2> QED
    BY <1>1, <2>1 DEF ClearIsLast
<1>3. Head(link).kind = "CLEAR" => Dry(T)
  BY <1>1 DEF ClearIsLast, Dry, In
<1> QED
  BY <1>2, <1>3 DEF T

LEMMA SendClear ==
    ASSUME NEW link \in Seq(Message), NEW m \in Message, ClearIsLast(link)
    PROVE  /\ ~Carries(m) => ClearIsLast(Send(link, m))
           /\ (\A k \in In(link) : k.kind # "CLEAR") => ClearIsLast(Send(link, m))
<1> DEFINE S == Send(link, m)
<1>1. CASE S = link
  BY <1>1
<1>2. CASE /\ Len(S) = Len(link) + 1
           /\ \A i \in 1 .. Len(link) : S[i] = link[i]
           /\ S[Len(link) + 1] = m
  <2>1. \A i \in 1 .. Len(S) :
          \/ i = Len(S) /\ S[i] = m
          \/ i \in 1 .. Len(link) /\ S[i] = link[i]
    BY <1>2
  <2>2. \A i, j \in 1 .. Len(S) : i < j => i \in 1 .. Len(link) /\ S[i] = link[i]
    BY <1>2
  <2> HIDE DEF S
  <2>3. ~Carries(m) => ClearIsLast(S)
    BY <2>1, <2>2 DEF ClearIsLast
  <2>4. (\A k \in In(link) : k.kind # "CLEAR") => ClearIsLast(S)
    BY <2>2 DEF ClearIsLast, In
  <2> QED
    BY <2>3, <2>4 DEF S
<1> QED
  BY <1>1, <1>2, SendFacts

(* The item list of a zone does not count as empty.                        *)
LEMMA ItemsLong ==
    ASSUME LongMissions, NEW z \in Zones, NEW t \in MissionTypes
    PROVE  Len(Items(z, t)) > Home(t)
<1>1. ItemCount[z][t] \in Nat /\ ItemCount[z][t] > Home(t)
  BY CountsPositive DEF LongMissions, Home
<1> QED
  BY <1>1 DEF Items

(* A store that is overwritten from its start does not get shorter.        *)
LEMMA OverwriteLen ==
    ASSUME NEW s \in Seq(Zones), NEW b \in Seq(Zones), NEW k \in Nat, Len(s) > k
    PROVE  Len(Overwrite(s, b)) > k
<1>1. Len(s) \in Nat /\ Len(b) \in Nat
  OBVIOUS
<1>2. /\ SubSeq(s, Len(b) + 1, Len(s)) \in Seq(Zones)
      /\ Len(SubSeq(s, Len(b) + 1, Len(s))) =
           IF Len(b) + 1 <= Len(s) THEN Len(s) - Len(b) ELSE 0
  BY <1>1, SubSeqProperties
<1>3. Len(Overwrite(s, b)) = Len(b) + Len(SubSeq(s, Len(b) + 1, Len(s)))
  BY <1>2, ConcatProperties DEF Overwrite
<1> QED
  BY <1>1, <1>2, <1>3

(* The link and the flight controller.                                     *)
LEMMA OrderEnvironment ==
    ASSUME ~LinkDuplicates, LongMissions, TypeOK, IInv, ReadInv, InOrder, Environment,
           UNCHANGED progVars
    PROVE  InOrder'
<1> USE DEF InOrder
<1>t. /\ toFC \in Seq(Message) /\ toGCS \in Seq(Message)
      /\ store \in [MissionTypes -> Seq(Zones)] /\ type \in MissionTypes
  BY DEF TypeOK, ProtocolTypeOK
<1>r. /\ rx.type \in MissionTypes /\ rx.n \in Nat /\ rx.buf \in Seq(Zones)
      /\ rx.active \in BOOLEAN /\ Len(rx.buf) \in Nat
  BY TransferFacts DEF TypeOK, ProtocolTypeOK
<1>c. /\ pc' = pc /\ outcome' = outcome /\ cleared' = cleared
      /\ call' = call /\ type' = type /\ ret' = ret
  BY DEF progVars, Environment, LoseToFC, LoseToGCS, DuplicateToGCS, FcCount, FcItem,
         FcUnexpectedItem, FcRepeatRequest, FcAbandon, FcList, FcGet, FcClear, FcAck,
         callVars
<1>d. Clearing' <=> Clearing
  BY <1>c DEF Clearing
<1>f. /\ In(toFC') \subseteq In(toFC) /\ ClearIsLast(toFC') /\ OneCount(toFC')
      /\ HasCount(toFC') => HasCount(toFC)
  <2>1. toFC' = toFC \/ (toFC # << >> /\ toFC' = Tail(toFC))
    BY DEF Environment, LoseToFC, LoseToGCS, DuplicateToGCS, FcCount, FcItem,
           FcUnexpectedItem, FcRepeatRequest, FcAbandon, FcList, FcGet, FcClear, FcAck
  <2>2. CASE toFC # << >> /\ toFC' = Tail(toFC)
    BY <1>t, <2>2, TailIn, TailClear, TailScan
  <2> QED
    BY <2>1, <2>2
<1>q. ASSUME store' = store, rx' = rx \/ ~rx'.active
      PROVE  InOrder'
  <2>1. \A t : Frontier(t)' <=> Frontier(t)
    BY <1>q DEF Frontier, StoredNew, StoredOld
  <2>2. Dry(toFC) => Dry(toFC')
    BY <1>f DEF Dry
  <2> QED
    BY <1>c, <1>d, <1>f, <1>q, <2>1, <2>2
<1>1. CASE LoseToFC \/ LoseToGCS \/ DuplicateToGCS
  BY <1>1, <1>q DEF LoseToFC, LoseToGCS, DuplicateToGCS, fcVars
<1>2. CASE FcUnexpectedItem \/ FcRepeatRequest \/ FcList \/ FcGet \/ FcAck
  BY <1>2, <1>q DEF FcUnexpectedItem, FcRepeatRequest, FcList, FcGet, FcAck, fcVars
<1>3. CASE FcAbandon
  BY <1>3, <1>q, TransferFacts DEF FcAbandon
<1>4. CASE FcCount
  <2> DEFINE m == Head(toFC)
  <2>1. /\ m \in In(toFC) /\ IsCount(m) /\ ~HasCount(toFC') /\ store' = store
        /\ m.type \in MissionTypes /\ m.n \in Nat
    BY <1>4, <1>t, TailIn, TailScan, TailFacts, MessageFacts DEF FcCount, IsCount
  <2>2. Frontier(m.type)
    BY <2>1
  <2>3. ~rx'.active \/ (rx'.active /\ rx'.type = m.type)
    <3>1. rx' = Receiving(m.type, m.n, << >>) \/ rx' = NotReceiving
      BY <1>4 DEF FcCount
    <3> QED
      BY <3>1 DEF Receiving, NotReceiving
  <2>4. \A t : Frontier(t)' <=> Frontier(t)
    BY <2>1 DEF Frontier, StoredNew, StoredOld
  <2> HIDE DEF m
  <2> QED
    BY <1>c, <1>d, <1>f, <2>1, <2>2, <2>3, <2>4
<1>5. CASE FcItem
  <2> DEFINE t == rx.type
             z == Head(toFC).zone
             buf == Append(rx.buf, z)
             last == Len(buf) >= rx.n
  <2>1. /\ Head(toFC) \in In(toFC) /\ Head(toFC).kind = "ITEM" /\ rx.active
        /\ z \in Zones /\ z = NewZone
    BY <1>5, <1>t, TailIn, TailScan, TailFacts, MessageFacts DEF FcItem, IInv, OnlyNewZone, OfNewZone
  <2>2. ~Dry(toFC) /\ Frontier(t) /\ ~HasCount(toFC)
    BY <2>1 DEF Dry, Carries
  <2>3. /\ rx.n = ItemCount[NewZone][t] /\ Len(rx.buf) < rx.n
        /\ \A i \in 1 .. Len(rx.buf) : rx.buf[i] = NewZone
    BY <2>1 DEF IInv, OnlyNewZone
  <2>4. store' = [store EXCEPT ![t] = IF last THEN buf
                                      ELSE IF t \in InPlace THEN Overwrite(@, buf) ELSE @]
    BY <1>5 DEF FcItem
  <2>5. ~rx'.active \/ (rx'.active /\ rx'.type = t)
    <3>1. rx' = Receiving(t, rx.n, buf) \/ rx' = NotReceiving
      BY <1>5 DEF FcItem
    <3> QED
      BY <3>1 DEF Receiving, NotReceiving
  <2>6. last => Len(buf) > Home(t)
    <3>1. last => buf = Items(NewZone, t)
      BY <1>r, <2>1, <2>3, FullBuffer
    <3> QED
      BY <1>r, <3>1, ItemsLong DEF Zones
  <2>7. Len(Overwrite(store[t], buf)) > Home(t)
    <3>1. store[t] \in Seq(Zones) /\ buf \in Seq(Zones)
      BY <1>t, <1>r, <2>1
    <3>2. Home(t) \in Nat /\ Len(store[t]) > Home(t)
      BY <2>2 DEF Home, Frontier
    <3> HIDE DEF buf, t
    <3> QED
      BY <3>1, <3>2, OverwriteLen
  <2> HIDE DEF buf, last, z
  <2>8. Len(store'[t]) > Home(t)
    BY <1>t, <1>r, <2>2, <2>4, <2>6, <2>7 DEF Frontier
  <2>9. ASSUME NEW v, v = t PROVE Frontier(v)'
    <3>1. \A u \in MissionTypes \ {v} : store'[u] = store[u]
      BY <1>t, <2>4, <2>9
    <3>2. v \notin Before(v) /\ v \notin After(v) /\ Before(v) \subseteq MissionTypes
            /\ After(v) \subseteq MissionTypes
      BY <1>r, <2>9 DEF Before, After, MissionTypes
    <3>3. \A u \in Before(v) : StoredNew(u)'
      BY <2>2, <2>9, <3>1, <3>2 DEF Frontier, StoredNew
    <3>4. \A u \in After(v) : StoredOld(u)'
      BY <2>2, <2>9, <3>1, <3>2 DEF Frontier, StoredOld
    <3> QED
      BY <2>8, <2>9, <3>3, <3>4 DEF Frontier
  <2>10. pc = "upload" /\ ret # "error" => type = t
    BY <2>1 DEF IInv, UploadInv, Uploading, OneToken
  <2>11. (pc = "upload" /\ ret # "error" => Frontier(type))'
    BY <1>c, <2>9, <2>10
  <2>12. (rx.active => Frontier(rx.type))'
    BY <2>5, <2>9
  <2>13. \A m \in In(toFC') : ~IsCount(m)
    BY <1>f, <2>2 DEF HasCount, In
  <2> QED
    BY <1>c, <1>d, <1>f, <2>2, <2>11, <2>12, <2>13
<1>6. CASE FcClear
  <2>1. /\ Head(toFC) \in In(toFC) /\ Head(toFC).kind = "CLEAR" /\ Dry(toFC') /\ rx' = rx
    BY <1>6, <1>t, TailIn, TailClear DEF FcClear
  <2>2. Clearing /\ pc # "upload"
    BY <2>1 DEF ReadInv, Phases, Clearing, Verifying
  <2>3. ~HasCount(toFC') /\ \A m \in In(toFC') : ~IsCount(m)
    BY <2>1 DEF Dry, HasCount, Carries, IsCount, In
  <2> QED
    BY <1>c, <1>d, <1>f, <2>1, <2>2, <2>3
<1> QED
  BY <1>1, <1>2, <1>3, <1>4, <1>5, <1>6 DEF Environment

(* The receive loops of mission.py.                                        *)
LEMMA OrderProgram ==
    ASSUME TypeOK, ReadInv, InOrder, Program, UNCHANGED progVars
    PROVE  InOrder'
<1> USE DEF InOrder
<1>t. /\ toFC \in Seq(Message) /\ toGCS \in Seq(Message) /\ type \in MissionTypes
      /\ items \in Seq(Zones)
  BY DEF TypeOK, ProtocolTypeOK
<1>c. /\ pc' = pc /\ outcome' = outcome /\ cleared' = cleared
      /\ store' = store /\ rx' = rx /\ type' = type /\ call # "idle" /\ ret = "none"
  BY DEF progVars, Program, UploadRecv, FinalAckRecv, CountRecv, ItemRecv, ClearAckRecv,
         CallTimeout, fcVars, ReadInv, Phases
<1>d. (Clearing' <=> Clearing) /\ \A t : Frontier(t)' <=> Frontier(t)
  BY <1>c DEF Clearing, Frontier, StoredNew, StoredOld
<1>s. \/ toFC' = toFC
      \/ \E k \in Message : /\ toFC' = Send(toFC, k) /\ k.kind \notin {"COUNT", "CLEAR"}
                            /\ k.kind = "ITEM" => call = "upload"
  <2>1. CASE UploadRecv
    <3>1. \/ toFC' = toFC
          \/ \E i \in Nat : toFC' = Send(toFC, ItemMsg(type, i, NewZone))
      BY <2>1, <1>t, TailFacts, MessageFacts DEF UploadRecv
    <3>2. \A i \in Nat : /\ ItemMsg(type, i, NewZone) \in Message
                         /\ ItemMsg(type, i, NewZone).kind = "ITEM"
      BY <1>t, Constructors, SaidFacts DEF Zones
    <3> QED
      BY <2>1, <3>1, <3>2 DEF UploadRecv
  <2>2. CASE FinalAckRecv \/ CallTimeout
    BY <2>2 DEF FinalAckRecv, CallTimeout, linkVars
  <2>3. CASE CountRecv
    <3>1. Request(type, 0) \in Message /\ Request(type, 0).kind = "REQUEST"
      BY <1>t, Constructors, SaidFacts
    <3> QED
      BY <2>3, <3>1 DEF CountRecv
  <2>4. CASE ItemRecv
    <3>0. ProtocolTypeOK'
      BY ProgramType DEF TypeOK
    <3>a. items' \in Seq(Zones)
      BY <3>0 DEF ProtocolTypeOK
    <3>b. \A s \in Seq(Zones) : Len(s) \in Nat
      OBVIOUS
    <3>1. Len(items') \in Nat
      BY <3>a, <3>b
    <3>2. /\ \A n \in Nat : /\ Request(type, n) \in Message
                           /\ Request(type, n).kind = "REQUEST"
          /\ Ack(type, TRUE) \in Message /\ Ack(type, TRUE).kind = "ACK"
      BY <1>t, Constructors DEF Request, Ack
    <3>3. \/ toFC' = toFC \/ toFC' = Send(toFC, Ack(type, TRUE))
          \/ toFC' = Send(toFC, Request(type, Len(items')))
      BY <2>4 DEF ItemRecv
    <3> QED
      BY <3>1, <3>2, <3>3
  <2>5. CASE ClearAckRecv
    <3>1. ListReq(type) \in Message /\ ListReq(type).kind = "LIST"
      BY <1>t, Constructors, SaidFacts
    <3> QED
      BY <2>5, <3>1 DEF ClearAckRecv
  <2> QED
    BY <2>1, <2>2, <2>3, <2>4, <2>5 DEF Program
<1>1. CASE toFC' = toFC
  BY <1>1, <1>c, <1>d
<1>2. ASSUME NEW k \in Message, toFC' = Send(toFC, k), k.kind \notin {"COUNT", "CLEAR"},
             k.kind = "ITEM" => call = "upload"
      PROVE  InOrder'
  <2>1. In(toFC') \subseteq In(toFC) \cup {k}
    BY <1>t, <1>2, SendIn
  <2>2. OneCount(toFC') /\ (HasCount(toFC') => HasCount(toFC))
    BY <1>t, <1>2, SendScan DEF IsCount
  <2>3. k.kind = "ITEM" => ~Clearing /\ \A m \in In(toFC) : m.kind # "CLEAR"
    BY <1>2 DEF ReadInv, Phases
  <2>4. ClearIsLast(toFC')
    BY <1>t, <1>2, <2>3, SendClear DEF Carries
  <2>5. Clearing /\ Dry(toFC) => Dry(toFC')
    BY <1>2, <2>1, <2>3 DEF Dry, Carries
  <2> QED
    BY <1>2, <1>c, <1>d, <2>1, <2>2, <2>4, <2>5 DEF IsCount
<1> QED
  BY <1>1, <1>2, <1>s

(* The steps of select_zone.                                               *)
LEMMA OrderSelect ==
    ASSUME LongMissions, TypeOK, IInv, ReadInv, EndsInOrder, InOrder, Select \/ VerifyRaised
    PROVE  InOrder'
<1> USE DEF InOrder
<1>t. /\ toFC \in Seq(Message) /\ type \in MissionTypes /\ rx.type \in MissionTypes
      /\ "MISSION" \in MissionTypes
  BY TransferFacts DEF TypeOK, ProtocolTypeOK, MissionTypes
<1>o. outcome = "none" <=> pc # "end"
  BY DEF ReadInv, Phases
(* Steps that put nothing on the link.                                     *)
<1>e. ASSUME UNCHANGED protocolVars, cleared \subseteq cleared', pc' # "upload",
             Clearing' <=> Clearing
      PROVE  InOrder'
  <2>1. /\ toFC' = toFC /\ store' = store /\ rx' = rx /\ type' = type
    BY <1>e DEF protocolVars, linkVars, fcVars, callVars
  <2>2. \A t : Frontier(t)' <=> Frontier(t)
    BY <2>1 DEF Frontier, StoredNew, StoredOld
  <2> QED
    BY <1>e, <2>1, <2>2
<1>1. CASE Confirm
  BY <1>1, <1>e, <1>o DEF Confirm, End, Clearing
<1>2. CASE Connect
  BY <1>2, <1>e, <1>o DEF Connect, End, Clearing
<1>3. CASE CheckNotArmed
  <2>1. /\ UNCHANGED <<protocolVars, cleared>> /\ pc = "check"
        /\ \/ pc' \in {"plan", "activate"} /\ outcome' = outcome
           \/ pc' = "end" /\ outcome' = "armed"
    BY <1>3 DEF CheckNotArmed, End
  <2> QED
    BY <2>1, <1>e, <1>o DEF Clearing
<1>4. CASE ActivateZoneOnJetson \/ ActivateReturned
  BY <1>4, <1>e, <1>o DEF ActivateZoneOnJetson, ActivateReturned, End, Clearing
(* The start of an upload.                                                 *)
<1>u. ASSUME NEW t \in MissionTypes, StartUpload(t), pc \in {"plan", "upload"}, pc' = "upload",
             UNCHANGED <<outcome, cleared>>, Frontier(t), ~HasCount(toFC), ~rx.active
      PROVE  InOrder'
  <2> DEFINE k == Count(t, ItemCount[NewZone][t])
  <2>1. k \in Message /\ k.kind = "COUNT" /\ k.type = t
    BY CountsPositive, Constructors, SaidFacts DEF Zones
  <2> HIDE DEF k
  <2>2. /\ toFC' = Send(toFC, k) /\ store' = store /\ rx' = rx /\ type' = t
    BY <1>u DEF StartUpload, k, fcVars
  <2>3. ~Clearing /\ ~Clearing' /\ \A m \in In(toFC) : m.kind # "CLEAR" /\ ~IsCount(m)
    <3>1. ~Clearing /\ ~Clearing' /\ ~Verifying
      BY <1>u, <1>o DEF Clearing, Verifying
    <3> QED
      BY <1>u, <3>1 DEF ReadInv, Phases, HasCount, In
  <2>4. /\ In(toFC') \subseteq In(toFC) \cup {k} /\ OneCount(toFC') /\ ClearIsLast(toFC')
    BY <1>t, <1>u, <2>1, <2>2, <2>3, SendIn, SendScan, SendClear
  <2>5. \A v : Frontier(v)' <=> Frontier(v)
    BY <2>2 DEF Frontier, StoredNew, StoredOld
  <2> QED
    BY <1>u, <2>1, <2>2, <2>3, <2>4, <2>5
<1>5. CASE Plan
  <2>1. CASE StartUpload("MISSION") /\ pc' = "upload" /\ outcome' = outcome
    <3>1. /\ toFC = << >> /\ ~rx.active
          /\ store = [t \in MissionTypes |-> Items(OldZone, t)]
      BY <1>5 DEF Plan, EndsInOrder, Early
    <3>2. Frontier("MISSION")
      <4>1. \A u \in After("MISSION") : u \in MissionTypes
        BY DEF After, MissionTypes
      <4>2. Len(store["MISSION"]) > Home("MISSION")
        BY <1>t, <3>1, ItemsLong DEF Zones
      <4> QED
        BY <3>1, <4>1, <4>2 DEF Frontier, Before, StoredOld
    <3> QED
      BY <1>5, <1>t, <1>u, <2>1, <3>1, <3>2, EmptyScan DEF Plan
  <2> QED
    BY <1>5, <1>e, <1>o, <2>1 DEF Plan, End, Clearing
(* The start of a download that verifies the round trip.                   *)
<1>v. ASSUME NEW t \in MissionTypes, StartDownload(t), pc \in {"upload", "verify"},
             pc' = "verify", UNCHANGED <<outcome, cleared>>
      PROVE  InOrder'
  <2>1. /\ toFC' = Send(toFC, ListReq(t)) /\ store' = store /\ rx' = rx
    BY <1>v DEF StartDownload, fcVars
  <2>2. ListReq(t) \in Message /\ ListReq(t).kind = "LIST"
    BY Constructors, SaidFacts
  <2>3. /\ In(toFC') \subseteq In(toFC) \cup {ListReq(t)} /\ OneCount(toFC')
        /\ ClearIsLast(toFC') /\ (HasCount(toFC') => HasCount(toFC))
    BY <1>t, <2>1, <2>2, SendIn, SendScan, SendClear DEF IsCount, Carries
  <2>4. ~Clearing /\ ~Clearing'
    BY <1>v, <1>o DEF Clearing
  <2>5. \A w : Frontier(w)' <=> Frontier(w)
    BY <2>1 DEF Frontier, StoredNew, StoredOld
  <2> QED
    BY <1>v, <2>1, <2>2, <2>3, <2>4, <2>5 DEF IsCount
<1>6. CASE UploadReturned
  <2>1. pc = "upload" /\ ret = "ok" /\ UNCHANGED <<outcome, cleared>>
    BY <1>6 DEF UploadReturned
  <2>2. CASE NextType(type) # "none"
    <3> DEFINE n == NextType(type)
    <3>1. n \in MissionTypes /\ StartUpload(n) /\ pc' = pc
      BY <1>6, <1>t, <2>2, NextTypeFacts DEF UploadReturned
    <3>2. ~HasCount(toFC) /\ ~rx.active /\ StoredNew(type)
      BY <2>1 DEF IInv, UploadInv, Uploading, OneToken
    <3>3. Frontier(type)
      BY <2>1
    <3>4. n \in After(type) /\ After(n) \subseteq After(type) /\ Before(n) \subseteq Before(type) \cup {type}
      BY <1>t, <2>2 DEF NextType, Before, After, MissionTypes
    <3>5. StoredOld(n) /\ n \in MissionTypes
      BY <3>1, <3>3, <3>4 DEF Frontier
    <3> HIDE DEF n
    <3>6. Len(store[n]) > Home(n)
      BY <3>5, ItemsLong DEF StoredOld, Zones
    <3>7. Frontier(n)
      BY <3>2, <3>3, <3>4, <3>6 DEF Frontier
    <3> QED
      BY <1>u, <2>1, <3>1, <3>2, <3>7
  <2>3. CASE NextType(type) = "none"
    BY <1>6, <1>t, <1>v, <2>3 DEF UploadReturned
  <2> QED
    BY <2>2, <2>3
<1>7. CASE VerifyReturned
  <2>1. CASE NextType(type) # "none"
    BY <1>7, <1>t, <1>v, <2>1, NextTypeFacts DEF VerifyReturned
  <2>2. CASE NextType(type) = "none"
    BY <1>7, <1>e, <1>o, <2>2 DEF VerifyReturned, End, Clearing
  <2> QED
    BY <2>1, <2>2
(* The start of a clear.                                                   *)
<1>x. ASSUME NEW t \in MissionTypes, StartClear(t), pc \in {"upload", "verify", "clear"},
             pc' = "clear",
             outcome' = outcome, cleared \subseteq cleared', Before(t) \subseteq cleared'
      PROVE  InOrder'
  <2>1. /\ toFC' = Send(toFC, ClearAll(t)) /\ store' = store /\ rx' = rx /\ type' = t
    BY <1>x DEF StartClear, fcVars
  <2>2. ClearAll(t) \in Message /\ ClearAll(t).kind = "CLEAR" /\ ClearAll(t).type = t
    BY Constructors, SaidFacts DEF ClearAll
  <2>3. /\ In(toFC') \subseteq In(toFC) \cup {ClearAll(t)} /\ OneCount(toFC')
        /\ ClearIsLast(toFC') /\ (HasCount(toFC') => HasCount(toFC))
    BY <1>t, <2>1, <2>2, SendIn, SendScan, SendClear DEF IsCount, Carries
  <2>4. Dry(toFC) => Dry(toFC')
    BY <2>2, <2>3 DEF Dry, Carries
  <2>5. \A w : Frontier(w)' <=> Frontier(w)
    BY <2>1 DEF Frontier, StoredNew, StoredOld
  <2>6. Clearing'
    BY <1>x DEF Clearing
  <2> QED
    BY <1>x, <2>1, <2>2, <2>3, <2>4, <2>5, <2>6 DEF IsCount
<1>8. CASE UploadRaised \/ VerifyRaised
  BY <1>8, <1>t, <1>x DEF UploadRaised, VerifyRaised, Before
<1>9. CASE ClearReturned
  <2>1. /\ pc = "clear" /\ Clearing /\ cleared \subseteq cleared'
        /\ ClearVerified => type \in cleared'
    BY <1>9 DEF ClearReturned, Clearing
  <2>2. CASE ClearVerified /\ NextType(type) # "none"
    <3>1. /\ NextType(type) \in MissionTypes /\ StartClear(NextType(type)) /\ pc' = pc
          /\ outcome' = outcome
      BY <1>9, <1>t, <2>2, NextTypeFacts DEF ClearReturned
    <3>2. Before(NextType(type)) \subseteq cleared'
      BY <1>t, <2>1, <2>2, BeforeFacts
    <3> QED
      BY <1>x, <2>1, <3>1, <3>2
  <2>3. CASE ~(ClearVerified /\ NextType(type) # "none")
    BY <1>9, <1>e, <2>1, <2>3 DEF ClearReturned, End, Clearing
  <2> QED
    BY <2>2, <2>3
<1> QED
  BY <1>1, <1>2, <1>3, <1>4, <1>5, <1>6, <1>7, <1>8, <1>9 DEF Select

-----------------------------------------------------------------------------
(***************************************************************************)
(* The map of the SLAM node.  The remote command is under way, or has      *)
(* failed, only while the laptop waits for it or after it has given the    *)
(* selection up; so the map changes only while no store has been touched.  *)
(***************************************************************************)
MapInv ==
    /\ jetson.remote \in {"idle", "save"} =>
         jetson.config = OldZone /\ jetson.running = OldZone
    /\ jetson.remote \in {"restart", "bridge", "ok"} => jetson.config = NewZone
    /\ jetson.remote \in {"bridge", "ok"} => jetson.running = NewZone
    /\ jetson.remote = "failed" => jetson.config = NewZone \/ jetson.running = OldZone
    /\ jetson.remote \notin {"idle", "ok"} => pc = "activate" \/ outcome = "activate_failed"
    /\ jetson.remote # "idle" => ~opt.skip_slam
    /\ pc \in {"start", "connect", "check"} => jetson.remote = "idle"
    /\ pc = "activate" => ~opt.skip_slam
    /\ pc \in {"plan", "upload", "verify", "clear"} \/ outcome \in {"upload_failed"} \cup Uploaded
         => opt.skip_slam \/ jetson.remote = "ok"

(* Every step keeps MapInv.                                                *)
LEMMA MapStep == TypeOK /\ ReadInv /\ MapInv /\ [Next]_vars => MapInv'
<1> SUFFICES ASSUME TypeOK, ReadInv, MapInv, [Next]_vars PROVE MapInv'
  OBVIOUS
<1> USE DEF MapInv
<1>o. outcome = "none" <=> pc # "end"
  BY DEF ReadInv, Phases
<1>t. jetson \in JetsonState /\ opt \in Options
  BY DEF TypeOK
<1>b. opt.skip_slam \in BOOLEAN
  BY <1>t, OptionsAssumption
<1>1. CASE Confirm \/ Connect
  BY <1>1, <1>o DEF Confirm, Connect, End
<1>2. CASE CheckNotArmed
  BY <1>2, <1>o, <1>b DEF CheckNotArmed, End
<1>3. CASE ActivateZoneOnJetson
  BY <1>3, <1>o, <1>t DEF ActivateZoneOnJetson, JetsonState
<1>4. CASE ActivateReturned
  BY <1>4, <1>o DEF ActivateReturned, End
<1>5. CASE Plan
  BY <1>5, <1>o DEF Plan, End
<1>6. CASE UploadReturned \/ UploadRaised \/ VerifyRaised
  BY <1>6, <1>o DEF UploadReturned, UploadRaised, VerifyRaised
<1>7. CASE VerifyReturned
  BY <1>7, <1>o DEF VerifyReturned, End
<1>8. CASE ClearReturned
  BY <1>8, <1>o DEF ClearReturned, End
<1>9. CASE (Program \/ Environment) /\ UNCHANGED progVars
  BY <1>9 DEF progVars
<1>10. CASE UNCHANGED vars \/ Arm
  BY <1>10 DEF vars, progVars, Arm
<1>j. ASSUME Jetson PROVE pc' = pc /\ outcome' = outcome /\ opt' = opt
  BY <1>j DEF Jetson, JetsonSaves, JetsonRestarts, JetsonRestartsBridge, SlamRestarts, Remote
<1>11. CASE JetsonSaves
  BY <1>11, <1>j, <1>o, <1>t DEF JetsonSaves, Remote, JetsonState, Jetson
<1>12. CASE JetsonRestarts
  BY <1>12, <1>j, <1>o, <1>t DEF JetsonRestarts, JetsonState, Jetson
<1>13. CASE JetsonRestartsBridge
  <2>1. /\ jetson.remote = "bridge" /\ jetson'.remote \in {"failed", "ok"}
        /\ jetson'.config = jetson.config /\ jetson'.running = jetson.running
    BY <1>13, <1>t DEF JetsonRestartsBridge, Remote, JetsonState
  <2>2. pc' = pc /\ outcome' = outcome /\ opt' = opt
    BY <1>13, <1>j DEF Jetson
  <2> QED
    BY <1>o, <2>1, <2>2
<1>14. CASE SlamRestarts
  <2>1. /\ jetson.running # jetson.config /\ jetson'.remote = jetson.remote
        /\ jetson'.config = jetson.config /\ jetson'.running = jetson.config
        /\ jetson.config \in {OldZone, NewZone}
    BY <1>14, <1>t DEF SlamRestarts, JetsonState, Zones
  <2>2. pc' = pc /\ outcome' = outcome /\ opt' = opt
    BY <1>14, <1>j DEF Jetson
  <2> QED
    BY <1>o, <2>1, <2>2
<1> QED
  BY <1>1, <1>2, <1>3, <1>4, <1>5, <1>6, <1>7, <1>8, <1>9, <1>10, <1>11, <1>12, <1>13, <1>14
     DEF Next, Ended, Select, Jetson

-----------------------------------------------------------------------------
(* The refinement                                                          *)

(* What the transaction sees of a store with contents s.                   *)
Seen(s, t) ==
    IF s = Items(OldZone, t) THEN "old"
    ELSE IF s = Items(NewZone, t) THEN "new"
    ELSE IF Len(s) <= Home(t) THEN "empty" ELSE "partial"

LEMMA SeenFacts ==
    ASSUME LongMissions, NEW t \in MissionTypes, NEW s \in Seq(Zones)
    PROVE  /\ s = Items(OldZone, t) <=> Seen(s, t) = "old"
           /\ s = Items(NewZone, t) <=> Seen(s, t) = "new"
           /\ Len(s) <= Home(t) => Seen(s, t) = "empty"
           /\ Len(s) > Home(t) => Seen(s, t) # "empty"
           /\ Len(s) > Home(t) /\ s[1] = NewZone => Seen(s, t) \in {"partial", "new"}
<1>1. Items(OldZone, t) # Items(NewZone, t)
  BY ItemsDiffer, ZonesAssumption DEF Zones
<1>2. Len(Items(OldZone, t)) > Home(t) /\ Len(Items(NewZone, t)) > Home(t)
  BY ItemsLong DEF Zones
<1>3. Len(s) \in Nat /\ Home(t) \in Nat
  BY DEF Home
<1>4. Items(OldZone, t)[1] = OldZone
  <2>1. ItemCount[OldZone][t] \in Nat /\ ItemCount[OldZone][t] > 0
    BY CountsPositive DEF Zones
  <2>2. 1 \in 1 .. ItemCount[OldZone][t]
    BY <2>1
  <2> QED
    BY <2>2 DEF Items
<1> QED
  BY <1>1, <1>2, <1>3, <1>4, ZonesAssumption DEF Seen

(* The order of the transaction is the order of the uploads.               *)
LEMMA RankFacts ==
    ASSUME NEW t \in MissionTypes
    PROVE  Transaction!Earlier(t) = Before(t) /\ Transaction!Later(t) = After(t)
<1>1. /\ UploadOrder["MISSION"] = 1 /\ UploadOrder["FENCE"] = 2 /\ UploadOrder["RALLY"] = 3
  BY DEF UploadOrder, MissionTypes
<1>2. t = "MISSION" \/ t = "FENCE" \/ t = "RALLY"
  BY DEF MissionTypes
<1>3. Transaction!Earlier(t) = {u \in MissionTypes : UploadOrder[u] < UploadOrder[t]}
  BY DEF Transaction!Earlier
<1>4. Transaction!Later(t) = {u \in MissionTypes : UploadOrder[u] > UploadOrder[t]}
  BY DEF Transaction!Later
<1>5. {u \in MissionTypes : UploadOrder[u] < UploadOrder[t]} = Before(t)
  BY <1>1, <1>2 DEF MissionTypes, Before
<1>6. {u \in MissionTypes : UploadOrder[u] > UploadOrder[t]} = After(t)
  BY <1>1, <1>2 DEF MissionTypes, After
<1> QED
  BY <1>3, <1>4, <1>5, <1>6

(* Every step keeps the order.                                             *)
LEMMA OrderStep ==
    ASSUME ~LinkDuplicates, LongMissions
    PROVE  TypeOK /\ IInv /\ ReadInv /\ EndsInOrder /\ InOrder /\ [Next]_vars => InOrder'
<1> SUFFICES ASSUME TypeOK, IInv, ReadInv, EndsInOrder, InOrder, [Next]_vars PROVE InOrder'
  OBVIOUS
<1>1. CASE Select \/ VerifyRaised
  BY <1>1, OrderSelect
<1>2. CASE Program /\ UNCHANGED progVars
  BY <1>2, OrderProgram
<1>3. CASE Environment /\ UNCHANGED progVars
  BY <1>3, OrderEnvironment
<1>4. ASSUME UNCHANGED <<protocolVars, pc, outcome, cleared>> PROVE InOrder'
  <2>1. /\ toFC' = toFC /\ store' = store /\ rx' = rx /\ type' = type /\ ret' = ret
    BY <1>4 DEF protocolVars, linkVars, fcVars, callVars
  <2>2. (Clearing' <=> Clearing) /\ \A t : Frontier(t)' <=> Frontier(t)
    BY <1>4, <2>1 DEF Clearing, Frontier, StoredNew, StoredOld
  <2> QED
    BY <1>4, <2>1, <2>2 DEF InOrder
<1>5. CASE Arm
  BY <1>4, <1>5 DEF Arm
<1>6. CASE UNCHANGED vars
  BY <1>4, <1>6 DEF vars, protocolVars, progVars
<1>7. CASE Jetson
  BY <1>4, <1>7 DEF Jetson, JetsonSaves, JetsonRestarts, JetsonRestartsBridge,
     SlamRestarts, Remote
<1> QED
  BY <1>1, <1>2, <1>3, <1>5, <1>6, <1>7 DEF Next, Ended

View(s) == [t \in MissionTypes |-> Seen(s[t], t)]

(* Every step of the program, of the link, of the flight controller and of *)
(* the Jetson is a step of the transaction, or is not seen by it.          *)
LEMMA TransactionStep ==
    ASSUME ~LinkDuplicates, LongMissions
    PROVE  /\ TypeOK /\ TypeOK' /\ IInv /\ ReadInv /\ ReadInv' /\ EndsInOrder /\ InOrder
           /\ InOrder' /\ MapInv /\ [Next]_vars
           => [Transaction!Next]_(Transaction!vars)
<1> SUFFICES ASSUME TypeOK, TypeOK', IInv, ReadInv, ReadInv', EndsInOrder, InOrder, InOrder',
                    MapInv, [Next]_vars
             PROVE  Transaction!Next \/ UNCHANGED Transaction!vars
  OBVIOUS
<1> DEFINE h == [t \in MissionTypes |-> Held(t)]
<1>h. h = View(store) /\ h' = View(store')
  BY DEF View, Held, Seen, Home
<1>t. /\ store \in [MissionTypes -> Seq(Zones)] /\ store' \in [MissionTypes -> Seq(Zones)]
      /\ toFC \in Seq(Message)
  BY DEF TypeOK, ProtocolTypeOK
<1>v. \A t \in MissionTypes : h[t] = Seen(store[t], t) /\ h'[t] = Seen(store'[t], t)
  BY <1>h DEF View
<1>o. (outcome = "none" <=> pc # "end") /\ (outcome' = "none" <=> pc' # "end")
  BY DEF ReadInv, Phases
(* The end of a command that touched nothing.                              *)
<1>a. ASSUME Early \/ Refused PROVE Transaction!All("old")
  <2>1. \A t \in MissionTypes : h[t] = "old"
    BY <1>a, <1>t, <1>v, SeenFacts DEF EndsInOrder
  <2> QED
    BY <2>1 DEF Transaction!All
(* A step that changes none of what the transaction sees.                  *)
<1>s. ASSUME store' = store, jetson'.running = jetson.running, opt' = opt, Stage' = Stage
      PROVE  UNCHANGED Transaction!vars
  <2>1. h' = h
    BY <1>h, <1>s
  <2>2. Slam' = Slam
    BY <1>s DEF Slam
  <2> QED
    BY <1>s, <2>1, <2>2 DEF Transaction!vars
<1>1. CASE Program /\ UNCHANGED progVars
  <2>1. store' = store
    BY <1>1 DEF Program, UploadRecv, FinalAckRecv, CountRecv, ItemRecv, ClearAckRecv,
                CallTimeout, fcVars
  <2> QED
    BY <1>1, <1>s, <2>1 DEF progVars, Stage
<1>2. CASE UNCHANGED vars \/ Arm
  BY <1>2, <1>s DEF vars, Arm, protocolVars, fcVars, progVars, Stage
(* The steps of select_zone.                                               *)
<1>f. ASSUME Early, store' = store, jetson' = jetson, opt' = opt,
             \/ outcome' = outcome /\ pc' \notin {"clear", "end"}
             \/ pc' = "end" /\ outcome' \notin {"none", "upload_failed"} \cup Uploaded
      PROVE  Transaction!Next \/ UNCHANGED Transaction!vars
  <2>1. outcome = "none" /\ Stage = "open"
    BY <1>f, <1>o DEF Early, Stage
  <2>2. CASE outcome' = outcome /\ pc' \notin {"clear", "end"}
    BY <1>f, <1>s, <2>1, <2>2 DEF Stage
  <2>3. CASE pc' = "end" /\ outcome' \notin {"none", "upload_failed"} \cup Uploaded
    <3>1. Stage' = "refused"
      BY <2>3 DEF Stage
    <3>2. Slam' = Slam /\ h' = h
      BY <1>f, <1>h DEF Slam
    <3>3. Transaction!Refuse
      BY <1>a, <1>f, <2>1, <3>1, <3>2 DEF Transaction!Refuse, Transaction!Finish
    <3> QED
      BY <3>3 DEF Transaction!Next
  <2> QED
    BY <1>f, <2>2, <2>3
<1>3. CASE Confirm \/ Connect
  BY <1>3, <1>f, <1>o DEF Confirm, Connect, End, Early, protocolVars, fcVars
<1>4. CASE CheckNotArmed
  <2>1. /\ UNCHANGED <<protocolVars, jetson, opt>> /\ pc = "check"
        /\ \/ pc' \in {"plan", "activate"} /\ outcome' = outcome
           \/ pc' = "end" /\ outcome' = "armed"
    BY <1>4 DEF CheckNotArmed, End
  <2> QED
    BY <1>f, <2>1 DEF Early, protocolVars, fcVars
<1>5. CASE ActivateReturned
  BY <1>5, <1>f DEF ActivateReturned, End, Early, protocolVars, fcVars
<1>6. CASE ActivateZoneOnJetson
  <2>1. jetson'.running = jetson.running
    BY <1>6 DEF ActivateZoneOnJetson, TypeOK, JetsonState
  <2> QED
    BY <1>6, <1>s, <2>1 DEF ActivateZoneOnJetson, protocolVars, fcVars, Stage
<1>7. CASE Plan
  BY <1>7, <1>f DEF Plan, End, Early, StartUpload, protocolVars, fcVars
<1>8. CASE UploadReturned
  <2>1. /\ store' = store /\ jetson' = jetson /\ opt' = opt /\ outcome' = outcome
        /\ pc = "upload" /\ pc' \in {"upload", "verify"}
    BY <1>8 DEF UploadReturned, StartUpload, StartDownload, fcVars
  <2> QED
    BY <1>s, <2>1 DEF Stage
<1>9. CASE UploadRaised \/ VerifyRaised
  <2>1. /\ store' = store /\ jetson' = jetson /\ opt' = opt /\ outcome' = outcome
        /\ pc \in {"upload", "verify"} /\ pc' = "clear"
    BY <1>9 DEF UploadRaised, VerifyRaised, StartClear, fcVars
  <2>2. Stage = "open" /\ Stage' = "undoing"
    BY <1>o, <2>1 DEF Stage
  <2>3. Slam' = Slam /\ h' = h
    BY <1>h, <2>1 DEF Slam
  <2>4. Transaction!Undo
    BY <2>1, <2>2, <2>3 DEF Transaction!Undo, Transaction!Finish
  <2> QED
    BY <2>4 DEF Transaction!Next
<1>10. CASE VerifyReturned
  <2>1. pc = "verify" /\ jetson' = jetson /\ opt' = opt /\ store' = store /\ outcome = "none"
    BY <1>10, <1>o DEF VerifyReturned, StartDownload, protocolVars, fcVars
  <2>2. CASE pc' = pc /\ outcome' = outcome
    BY <1>s, <2>1, <2>2 DEF Stage
  <2>3. CASE pc' = "end" /\ outcome' \in Uploaded
    <3>1. Stage = "open" /\ Stage' \in {"committed", "unreported"}
      BY <2>1, <2>3 DEF Stage, Uploaded
    <3>2. Slam' = Slam /\ h' = h
      BY <1>h, <2>1 DEF Slam
    <3>3. \A t \in MissionTypes : h[t] = "new"
      <4>1. \A t \in MissionTypes : store[t] = Items(NewZone, t)
        BY <2>1 DEF IInv, DoneInv, Done, StoredNew
      <4> QED
        BY <1>t, <1>v, <4>1, SeenFacts
    <3>4. opt.skip_slam \/ Slam = "new"
      BY <2>1, ZonesAssumption DEF MapInv, Slam
    <3>5. Transaction!Commit
      BY <2>1, <3>1, <3>2, <3>3, <3>4 DEF Transaction!Commit, Transaction!All, Transaction!Finish
    <3> QED
      BY <3>5 DEF Transaction!Next
  <2> QED
    BY <1>10, <2>2, <2>3 DEF VerifyReturned, End
<1>11. CASE ClearReturned
  <2>1. pc = "clear" /\ jetson' = jetson /\ opt' = opt /\ store' = store /\ outcome = "none"
    BY <1>11, <1>o DEF ClearReturned, StartClear, protocolVars, fcVars
  <2>2. CASE pc' = pc /\ outcome' = outcome
    BY <1>s, <2>1, <2>2 DEF Stage
  <2>3. CASE pc' = "end" /\ outcome' = "upload_failed"
    <3>1. Stage = "undoing" /\ Stage' = "failed"
      BY <2>1, <2>3 DEF Stage
    <3>2. Slam' = Slam /\ h' = h
      BY <1>h, <2>1 DEF Slam
    <3>3. Transaction!Fail
      BY <2>1, <3>1, <3>2 DEF Transaction!Fail, Transaction!Finish
    <3> QED
      BY <3>3 DEF Transaction!Next
  <2> QED
    BY <1>11, <2>2, <2>3 DEF ClearReturned, End
(* The map of the SLAM node.                                               *)
<1>j. ASSUME jetson'.running \in {"none", NewZone}, jetson'.running # OldZone,
             jetson.remote \notin {"idle", "ok"}, store' = store, opt' = opt,
             pc' = pc, outcome' = outcome
      PROVE  Transaction!Next
  <2>1. pc = "activate" \/ outcome = "activate_failed"
    BY <1>j DEF MapInv
  <2>2. Stage \in {"open", "refused"} /\ Stage' = Stage
    BY <1>j, <1>o, <2>1 DEF Stage
  <2>3. Transaction!All("old")
    BY <1>a, <2>1 DEF Early, Refused
  <2>4. ~opt.skip_slam
    BY <1>j DEF MapInv
  <2>5. Slam' \in {"off", "new"} /\ h' = h
    BY <1>h, <1>j DEF Slam
  <2>6. Transaction!Activate
    BY <1>j, <2>2, <2>3, <2>4, <2>5 DEF Transaction!Activate
  <2> QED
    BY <2>6 DEF Transaction!Next
<1>12. CASE JetsonSaves \/ JetsonRestartsBridge
  <2>1. jetson'.running = jetson.running
    BY <1>12 DEF JetsonSaves, JetsonRestartsBridge, Remote, TypeOK, JetsonState
  <2> QED
    BY <1>12, <1>s, <2>1 DEF JetsonSaves, JetsonRestartsBridge, Remote, protocolVars, fcVars, Stage
<1>13. CASE JetsonRestarts
  <2>1. jetson.remote = "restart" /\ jetson.config = NewZone
    BY <1>13 DEF JetsonRestarts, MapInv
  <2>2. jetson'.running \in {"none", NewZone}
    BY <1>13, <2>1 DEF JetsonRestarts, TypeOK, JetsonState
  <2>3. jetson'.running # OldZone
    BY <2>2, ZonesAssumption DEF Zones
  <2> QED
    BY <1>13, <1>j, <2>1, <2>2, <2>3 DEF JetsonRestarts, protocolVars, fcVars
<1>14. CASE SlamRestarts
  <2>1. jetson.running # jetson.config /\ jetson.config \in {OldZone, NewZone}
    BY <1>14 DEF SlamRestarts, TypeOK, JetsonState, Zones
  <2>2. jetson.remote \notin {"idle", "ok"} /\ jetson.config = NewZone
    BY <2>1 DEF MapInv, TypeOK, JetsonState
  <2>3. jetson'.running = NewZone
    BY <1>14, <2>2 DEF SlamRestarts, TypeOK, JetsonState
  <2> QED
    BY <1>14, <1>j, <2>2, <2>3, ZonesAssumption DEF SlamRestarts, protocolVars, fcVars
(* The link and the flight controller.                                     *)
<1>p. ASSUME Environment /\ UNCHANGED progVars
      PROVE  /\ jetson' = jetson /\ opt' = opt /\ Stage' = Stage /\ Slam' = Slam
             /\ Clearing' <=> Clearing
  BY <1>p DEF progVars, Stage, Slam, Clearing
<1>e. ASSUME Environment /\ UNCHANGED progVars, store' = store
      PROVE  UNCHANGED Transaction!vars
  BY <1>e, <1>p, <1>s
<1>15. CASE FcItem /\ Environment /\ UNCHANGED progVars
  <2> DEFINE t == rx.type
             buf == Append(rx.buf, Head(toFC).zone)
             last == Len(buf) >= rx.n
  <2>r. /\ t \in MissionTypes /\ rx.n \in Nat /\ rx.buf \in Seq(Zones) /\ Len(rx.buf) \in Nat
    BY TransferFacts DEF TypeOK, ProtocolTypeOK
  <2>1. /\ Head(toFC) \in In(toFC) /\ Head(toFC).kind = "ITEM" /\ rx.active
        /\ Head(toFC).zone = NewZone /\ toFC # << >>
    BY <1>15, <1>t, TailIn, TailScan DEF FcItem, IInv, OnlyNewZone, OfNewZone
  <2>2. Frontier(t) /\ Len(store[t]) > Home(t)
    BY <2>1 DEF InOrder, Dry, Carries, Frontier
  <2>3. /\ rx.n = ItemCount[NewZone][t] /\ Len(rx.buf) < rx.n
        /\ \A i \in 1 .. Len(rx.buf) : rx.buf[i] = NewZone
    BY <2>1 DEF IInv, OnlyNewZone
  <2>4. store' = [store EXCEPT ![t] = IF last THEN buf
                                      ELSE IF t \in InPlace THEN Overwrite(@, buf) ELSE @]
    BY <1>15 DEF FcItem
  <2>5. Stage \in {"open", "undoing", "failed"}
    <3>1. outcome \notin Uploaded /\ ~Refused
      BY <2>1 DEF IInv, DoneInv, Done, EndsInOrder
    <3> QED
      BY <3>1 DEF Stage, Refused
  <2>6. buf \in Seq(Zones) /\ Len(buf) \in Nat /\ Len(buf) > 0 /\ buf[1] = NewZone
    <3>1. Len(rx.buf) = 0 \/ Len(rx.buf) > 0
      BY <2>r
    <3> QED
      BY <2>r, <2>1, <2>3, <3>1 DEF Zones
  <2>7. CASE ~last /\ t \notin InPlace
    <3>1. store' = store
      BY <1>t, <2>4, <2>7
    <3> QED
      BY <1>15, <1>e, <3>1
  <2>8. CASE last \/ t \in InPlace
    <3>1. last => buf = Items(NewZone, t)
      BY <2>r, <2>1, <2>3, FullBuffer
    <3> HIDE DEF t, buf, last
    <3>2. \A u \in MissionTypes : u # t => store'[u] = store[u]
      BY <1>t, <2>4
    <3>3. Seen(store'[t], t) \in {"partial", "new"}
      <4>1. CASE last
        <5>1. store'[t] = Items(NewZone, t)
          BY <1>t, <2>r, <2>4, <3>1, <4>1
        <5> QED
          BY <1>t, <2>r, <5>1, SeenFacts
      <4>2. CASE ~last
        <5>1. store'[t] = Overwrite(store[t], buf) /\ store[t] \in Seq(Zones)
          BY <1>t, <2>r, <2>4, <2>8, <4>2
        <5>2. SubSeq(store[t], Len(buf) + 1, Len(store[t])) \in Seq(Zones)
          BY <5>1, <2>6, SubSeqProperties
        <5>3. Overwrite(store[t], buf)[1] = NewZone
          BY <2>6, <5>2, ConcatProperties DEF Overwrite
        <5>4. Len(store'[t]) > Home(t)
          <6>1. Home(t) \in Nat
            BY DEF Home
          <6> QED
            BY <2>2, <5>1, <2>6, <6>1, OverwriteLen
        <5> QED
          BY <1>t, <2>r, <5>1, <5>3, <5>4, SeenFacts
      <4> QED
        BY <4>1, <4>2
    <3>4. h' = [h EXCEPT ![t] = Seen(store'[t], t)]
      <4>1. h \in [MissionTypes -> {"old", "new", "empty", "partial"}]
              /\ h' \in [MissionTypes -> {"old", "new", "empty", "partial"}]
        BY <1>h DEF View, Seen
      <4>2. \A u \in MissionTypes : h'[u] = IF u = t THEN Seen(store'[t], t) ELSE h[u]
        BY <1>v, <3>2
      <4> HIDE DEF h
      <4> QED
        BY <4>1, <4>2
    <3>5. /\ \A u \in Transaction!Earlier(t) : h[u] = "new"
          /\ \A u \in Transaction!Later(t) : h[u] = "old"
      <4>1. /\ Transaction!Earlier(t) = Before(t) /\ Transaction!Later(t) = After(t)
            /\ Before(t) \subseteq MissionTypes /\ After(t) \subseteq MissionTypes
        BY <2>r, RankFacts DEF Before, After, MissionTypes
      <4> QED
        BY <1>t, <1>v, <2>2, <4>1, SeenFacts DEF Frontier, StoredNew, StoredOld
    <3>6. h[t] # "empty"
      BY <1>t, <1>v, <2>r, <2>2, SeenFacts
    <3>7. ASSUME NEW u \in MissionTypes, u = t PROVE Transaction!Upload(u)
      BY <1>15, <1>p, <2>5, <3>3, <3>4, <3>5, <3>6, <3>7 DEF Transaction!Upload
    <3> QED
      BY <2>r, <3>7 DEF Transaction!Next
  <2> QED
    BY <2>7, <2>8
<1>16. CASE FcClear /\ Environment /\ UNCHANGED progVars
  <2> DEFINE t == Head(toFC).type
  <2>1. /\ Head(toFC) \in In(toFC) /\ Head(toFC).kind = "CLEAR" /\ t \in MissionTypes
    BY <1>16, <1>t, TailIn, TailFacts, MessageFacts DEF FcClear
  <2>2. CASE store' = store
    BY <1>16, <1>e, <2>2
  <2>3. CASE \E home \in IF t = "MISSION" THEN {0, 1} ELSE {0} :
                /\ home <= Len(store[t])
                /\ store' = [store EXCEPT ![t] = SubSeq(@, 1, home)]
    <3>1. Clearing /\ Before(t) \subseteq cleared
      BY <2>1 DEF ReadInv, Phases, Clearing, Verifying, InOrder
    <3>2. Stage \in {"undoing", "failed"}
      BY <1>o, <3>1 DEF Clearing, Stage
    <3> HIDE DEF t
    <3>3. /\ Len(store'[t]) <= Home(t)
          /\ \A u \in MissionTypes : u # t => store'[u] = store[u]
      <4>1. PICK home \in IF t = "MISSION" THEN {0, 1} ELSE {0} :
                /\ home <= Len(store[t])
                /\ store' = [store EXCEPT ![t] = SubSeq(@, 1, home)]
        BY <2>3
      <4>2. store[t] \in Seq(Zones) /\ Len(store[t]) \in Nat
        BY <1>t, <2>1
      <4>3. Len(SubSeq(store[t], 1, home)) = home
        BY <4>1, <4>2, SubSeqProperties
      <4> QED
        BY <1>t, <2>1, <4>1, <4>3 DEF Home
    <3>4. h' = [h EXCEPT ![t] = "empty"]
      <4>1. h \in [MissionTypes -> {"old", "new", "empty", "partial"}]
              /\ h' \in [MissionTypes -> {"old", "new", "empty", "partial"}]
        BY <1>h DEF View, Seen
      <4>2. Seen(store'[t], t) = "empty"
        BY <1>t, <2>1, <3>3, SeenFacts
      <4>3. \A u \in MissionTypes : h'[u] = IF u = t THEN "empty" ELSE h[u]
        BY <1>v, <3>3, <4>2
      <4> HIDE DEF h
      <4> QED
        BY <4>1, <4>3
    <3>5. \A u \in Transaction!Earlier(t) : h[u] = "empty"
      <4>1. Transaction!Earlier(t) = Before(t) /\ Before(t) \subseteq MissionTypes
        BY <2>1, RankFacts DEF Before, MissionTypes
      <4>2. \A u \in Before(t) : Len(store[u]) <= Home(u)
        BY <3>1 DEF ReadInv, CountsBound
      <4> QED
        BY <1>t, <1>v, <4>1, <4>2, SeenFacts
    <3>6. ASSUME NEW u \in MissionTypes, u = t PROVE Transaction!Discard(u)
      BY <1>16, <1>p, <3>2, <3>4, <3>5, <3>6 DEF Transaction!Discard
    <3> QED
      BY <2>1, <3>6 DEF Transaction!Next
  <2> QED
    BY <1>16, <2>2, <2>3 DEF FcClear
<1>17. CASE Environment /\ UNCHANGED progVars
  <2>1. CASE FcItem
    BY <1>15, <1>17, <2>1
  <2>2. CASE FcClear
    BY <1>16, <1>17, <2>2
  <2>3. CASE ~FcItem /\ ~FcClear
    <3>1. store' = store
      BY <1>17, <2>3 DEF Environment, LoseToFC, LoseToGCS, DuplicateToGCS, FcCount,
         FcUnexpectedItem, FcRepeatRequest, FcAbandon, FcList, FcGet, FcAck, fcVars
    <3> QED
      BY <1>17, <1>e, <3>1
  <2> QED
    BY <2>1, <2>2, <2>3
<1> QED
  BY <1>1, <1>2, <1>3, <1>4, <1>5, <1>6, <1>7, <1>8, <1>9, <1>10, <1>11, <1>12, <1>13,
     <1>14, <1>17
     DEF Next, Ended, Select, Jetson

(* "mower zone select" implements the transaction, for every number of     *)
(* items, every capacity of a link that loses but does not duplicate       *)
(* messages, and every set of types that are stored in place: a mission    *)
(* only has to be longer than its home item, which is what distinguishes   *)
(* it from a cleared one.                                                  *)
THEOREM SelectIsTransaction ==
    ASSUME ~LinkDuplicates, LongMissions
    PROVE  Spec => ImplementsTransaction
<1>1. Init => Transaction!Init
  <2> SUFFICES ASSUME Init PROVE Transaction!Init
    OBVIOUS
  <2>1. \A t \in MissionTypes : Held(t) = "old"
    BY DEF Init, ProtocolInit, Held
  <2>2. Slam = "old" /\ Stage = "open"
    BY DEF Init, Slam, Stage
  <2>3. opt.skip_slam \in BOOLEAN
    BY OptionsAssumption DEF Init
  <2> QED
    BY <2>1, <2>2, <2>3 DEF Transaction!Init
<1>2. Init => IInv /\ ReadInv /\ EndsInOrder /\ InOrder /\ MapInv
  <2> SUFFICES ASSUME Init PROVE EndsInOrder /\ InOrder /\ MapInv
    BY InitInv, ReadInit
  <2>1. EndsInOrder
    BY TransferFacts DEF Init, ProtocolInit, EndsInOrder, Early, Refused, Clearing
  <2>2. toFC = << >> /\ ~rx.active /\ pc = "start" /\ outcome = "none"
    BY TransferFacts DEF Init, ProtocolInit
  <2>3. In(toFC) = {} /\ ClearIsLast(toFC) /\ OneCount(toFC)
    BY <2>2, EmptyScan DEF In, ClearIsLast
  <2>4. InOrder
    BY <2>2, <2>3 DEF InOrder, Clearing
  <2>5. MapInv
    BY DEF Init, MapInv
  <2> QED
    BY <2>1, <2>4, <2>5
<1>3. /\ TypeOK /\ IInv /\ ReadInv /\ EndsInOrder /\ InOrder /\ MapInv /\ [Next]_vars
      => InOrder'
  BY OrderStep
<1>4. TypeOK /\ IInv /\ [Next]_vars => IInv'
  BY StepInv
<1>5. /\ TypeOK /\ TypeOK' /\ IInv /\ ReadInv /\ ReadInv' /\ EndsInOrder /\ InOrder
      /\ InOrder' /\ MapInv /\ [Next]_vars
      => [Transaction!Next]_(Transaction!vars)
  BY TransactionStep
<1> QED
  BY <1>1, <1>2, <1>3, <1>4, <1>5, TypeCorrect, ReadStep, EndsStep, MapStep, PTL
     DEF Spec, ImplementsTransaction, Transaction!Spec

=============================================================================
