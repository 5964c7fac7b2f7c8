--------------------------- MODULE MissionProtocol ---------------------------
(***************************************************************************)
(* The MAVLink mission protocol between the laptop program and the flight  *)
(* controller: upload_mission, download_mission and clear_mission of       *)
(* src/mower_rover/mavlink/mission.py, run over a link that loses          *)
(* messages and, when LinkDuplicates holds, delivers some twice.           *)
(*                                                                         *)
(* The laptop side is translated from the source.  The flight controller   *)
(* (ArduPilot) and the link are external: they are modelled from what the  *)
(* source sends to them and expects of them.                               *)
(*                                                                         *)
(* A mission item is abstracted to the zone it was generated from; its     *)
(* sequence number is its position.  A wall-clock deadline is abstracted   *)
(* to an action that may fire whenever the program is inside the loop that *)
(* the deadline bounds.                                                    *)
(***************************************************************************)
EXTENDS Naturals, Sequences, FiniteSets

CONSTANTS
    OldZone,         \* the zone the flight controller holds at the start
    NewZone,         \* the zone the operator selects
    ItemCount,       \* ItemCount[z][t]: number of items of type t of zone z
    InPlace,         \* the types whose storage is overwritten item by item
    LinkCapacity,    \* messages a direction of the link can hold
    LinkDuplicates   \* TRUE iff the link may deliver a message twice

MissionTypes == {"MISSION", "FENCE", "RALLY"}
Zones == {OldZone, NewZone}

ASSUME ZonesAssumption == OldZone # NewZone /\ "none" \notin Zones
ASSUME ItemCountAssumption ==
    ItemCount \in [Zones -> [MissionTypes -> Nat \ {0}]]
ASSUME LinkAssumption ==
    /\ InPlace \subseteq MissionTypes
    /\ LinkCapacity \in Nat \ {0}
    /\ LinkDuplicates \in BOOLEAN

(* The items of a zone, as zone_to_mission/_fence/_rally number them.      *)
Items(z, t) == [i \in 1 .. ItemCount[z][t] |-> z]

VARIABLES
    toFC,      \* messages in flight to the flight controller, oldest first
    toGCS,     \* messages in flight to the laptop, oldest first
    store,     \* store[t]: the items the flight controller holds
    rx,        \* the upload the flight controller is receiving
    call,      \* the receive loop the program is in
    type,      \* mission_type of the call in progress
    sent,      \* items_sent of upload_mission (sequence numbers from 0)
    expected,  \* item_count of download_mission
    items,     \* items of download_mission received so far
    ret        \* how the call returned: "ok", "error", or "none" before

linkVars == <<toFC, toGCS>>
fcVars   == <<store, rx>>
callVars == <<call, type, sent, expected, items, ret>>

Calls == {"idle", "upload", "final_ack", "count", "item", "clear"}

(***************************************************************************)
(* Messages.  "ok" of an ACK says whether its type is MAV_MISSION_ACCEPTED *)
(***************************************************************************)
Count(t, n)     == [kind |-> "COUNT", type |-> t, n |-> n]
Request(t, i)   == [kind |-> "REQUEST", type |-> t, seq |-> i]
ItemMsg(t, i, z) == [kind |-> "ITEM", type |-> t, seq |-> i, zone |-> z]
Ack(t, ok)      == [kind |-> "ACK", type |-> t, ok |-> ok]
ListReq(t)      == [kind |-> "LIST", type |-> t]
ClearAll(t)     == [kind |-> "CLEAR", type |-> t]

Message ==
    [kind : {"COUNT"}, type : MissionTypes, n : Nat]
        \cup [kind : {"REQUEST"}, type : MissionTypes, seq : Nat]
        \cup [kind : {"ITEM"}, type : MissionTypes, seq : Nat, zone : Zones]
        \cup [kind : {"ACK"}, type : MissionTypes, ok : BOOLEAN]
        \cup [kind : {"LIST"}, type : MissionTypes]
        \cup [kind : {"CLEAR"}, type : MissionTypes]

(* A message put on a full link is lost.                                   *)
Send(link, m) == IF Len(link) < LinkCapacity THEN Append(link, m) ELSE link

(* What the flight controller knows of an upload: the count it was told    *)
(* and the items so far.                                                   *)
Transfer == [active : BOOLEAN, type : MissionTypes, n : Nat, buf : Seq(Zones)]
Receiving(t, n, b) == [active |-> TRUE, type |-> t, n |-> n, buf |-> b]
NotReceiving == [active |-> FALSE, type |-> "MISSION", n |-> 0, buf |-> << >>]

-----------------------------------------------------------------------------
(* The link                                                                *)

LoseToFC ==
    /\ toFC # << >>
    /\ toFC' = Tail(toFC)
    /\ UNCHANGED <<toGCS, fcVars, callVars>>

LoseToGCS ==
    /\ toGCS # << >>
    /\ toGCS' = Tail(toGCS)
    /\ UNCHANGED <<toFC, fcVars, callVars>>

DuplicateToGCS ==
    /\ LinkDuplicates
    /\ toGCS # << >>
    /\ Len(toGCS) < LinkCapacity
    /\ toGCS' = <<Head(toGCS)>> \o toGCS
    /\ UNCHANGED <<toFC, fcVars, callVars>>

-----------------------------------------------------------------------------
(* The flight controller                                                   *)

(* MISSION_COUNT starts a transfer, or is refused (no space, no MAVLink2). *)
FcCount ==
    /\ toFC # << >>
    /\ Head(toFC).kind = "COUNT"
    /\ LET m == Head(toFC) IN
        \/ /\ rx' = Receiving(m.type, m.n, << >>)
           /\ toGCS' = Send(toGCS, Request(m.type, 0))
        \/ /\ rx' = NotReceiving
           /\ toGCS' = Send(toGCS, Ack(m.type, FALSE))
    /\ toFC' = Tail(toFC)
    /\ UNCHANGED <<store, callVars>>

(* s overwritten from its start by b.                                      *)
Overwrite(s, b) == b \o SubSeq(s, Len(b) + 1, Len(s))

(* The requested item: stored at once for an InPlace type, at the end of   *)
(* the transfer for the others.  The last one completes the transfer.      *)
FcItem ==
    /\ toFC # << >>
    /\ Head(toFC).kind = "ITEM"
    /\ rx.active
    /\ Head(toFC).type = rx.type
    /\ Head(toFC).seq = Len(rx.buf)
    /\ LET buf == Append(rx.buf, Head(toFC).zone)
           last == Len(buf) >= rx.n
       IN /\ rx' = IF last THEN NotReceiving ELSE Receiving(rx.type, rx.n, buf)
          /\ store' = [store EXCEPT ![rx.type] =
                          IF last THEN buf
                          ELSE IF rx.type \in InPlace THEN Overwrite(@, buf)
                          ELSE @]
          /\ toGCS' = Send(toGCS, IF last THEN Ack(rx.type, TRUE)
                                          ELSE Request(rx.type, Len(buf)))
    /\ toFC' = Tail(toFC)
    /\ UNCHANGED callVars

(* An item nobody asked for (an answer to a repeated request) is refused.  *)
FcUnexpectedItem ==
    /\ toFC # << >>
    /\ Head(toFC).kind = "ITEM"
    /\ ~(rx.active /\ Head(toFC).type = rx.type /\ Head(toFC).seq = Len(rx.buf))
    /\ toGCS' = Send(toGCS, Ack(Head(toFC).type, FALSE))
    /\ toFC' = Tail(toFC)
    /\ UNCHANGED <<fcVars, callVars>>

(* The request timer of the transfer.                                      *)
FcRepeatRequest ==
    /\ rx.active
    /\ toGCS' = Send(toGCS, Request(rx.type, Len(rx.buf)))
    /\ UNCHANGED <<toFC, fcVars, callVars>>

(* The flight controller gives the transfer up.                            *)
FcAbandon ==
    /\ rx.active
    /\ rx' = NotReceiving
    /\ toGCS' = Send(toGCS, Ack(rx.type, FALSE))
    /\ UNCHANGED <<toFC, store, callVars>>

FcList ==
    /\ toFC # << >>
    /\ Head(toFC).kind = "LIST"
    /\ LET t == Head(toFC).type IN
        toGCS' = Send(toGCS, Count(t, Len(store[t])))
    /\ toFC' = Tail(toFC)
    /\ UNCHANGED <<fcVars, callVars>>

FcGet ==
    /\ toFC # << >>
    /\ Head(toFC).kind = "REQUEST"
    /\ LET m == Head(toFC) IN
        toGCS' = IF m.seq < Len(store[m.type])
                 THEN Send(toGCS, ItemMsg(m.type, m.seq, store[m.type][m.seq + 1]))
                 ELSE Send(toGCS, Ack(m.type, FALSE))
    /\ toFC' = Tail(toFC)
    /\ UNCHANGED <<fcVars, callVars>>

(* MISSION_CLEAR_ALL: done (a mission may keep its home item) or refused.  *)
FcClear ==
    /\ toFC # << >>
    /\ Head(toFC).kind = "CLEAR"
    /\ LET t == Head(toFC).type IN
        \/ \E home \in IF t = "MISSION" THEN {0, 1} ELSE {0} :
             /\ home <= Len(store[t])
             /\ store' = [store EXCEPT ![t] = SubSeq(@, 1, home)]
             /\ toGCS' = Send(toGCS, Ack(t, TRUE))
        \/ /\ toGCS' = Send(toGCS, Ack(t, FALSE))
           /\ UNCHANGED store
    /\ toFC' = Tail(toFC)
    /\ UNCHANGED <<rx, callVars>>

(* MISSION_ACK of the downloader ends a download: nothing to do.           *)
FcAck ==
    /\ toFC # << >>
    /\ Head(toFC).kind = "ACK"
    /\ toFC' = Tail(toFC)
    /\ UNCHANGED <<toGCS, fcVars, callVars>>

Environment ==
    \/ LoseToFC \/ LoseToGCS \/ DuplicateToGCS
    \/ FcCount \/ FcItem \/ FcUnexpectedItem \/ FcRepeatRequest \/ FcAbandon
    \/ FcList \/ FcGet \/ FcClear \/ FcAck

-----------------------------------------------------------------------------
(* upload_mission                                                          *)

Return(r) == call' = "idle" /\ ret' = r

StartUpload(t) ==
    /\ toFC' = Send(toFC, Count(t, ItemCount[NewZone][t]))
    /\ call' = "upload"
    /\ type' = t
    /\ sent' = {}
    /\ ret' = "none"
    /\ UNCHANGED <<toGCS, fcVars, expected, items>>

(* One turn of the request loop: recv_match drops what is neither a        *)
(* request nor an ACK; neither has its mission_type looked at.             *)
UploadRecv ==
    /\ call = "upload"
    /\ toGCS # << >>
    /\ toGCS' = Tail(toGCS)
    /\ LET m == Head(toGCS)
           total == ItemCount[NewZone][type]
       IN \/ /\ m.kind = "ACK"
             /\ Return(IF m.ok THEN "ok" ELSE "error")
             /\ UNCHANGED <<toFC, sent>>
          \/ /\ m.kind = "REQUEST"
             /\ IF m.seq >= total
                THEN Return("error") /\ UNCHANGED <<toFC, sent>>
                ELSE /\ toFC' = Send(toFC, ItemMsg(type, m.seq, NewZone))
                     /\ sent' = sent \cup {m.seq}
                     /\ call' = IF Cardinality(sent') < total
                                THEN "upload" ELSE "final_ack"
                     /\ UNCHANGED ret
          \/ /\ m.kind \notin {"ACK", "REQUEST"}
             /\ UNCHANGED <<toFC, sent, call, ret>>
    /\ UNCHANGED <<fcVars, type, expected, items>>

(* Mutant of FinalAckRecv: the final ACK's type is not looked at.          *)
FinalAckRecvAnyAck ==
    /\ call = "final_ack"
    /\ toGCS # << >>
    /\ toGCS' = Tail(toGCS)
    /\ IF Head(toGCS).kind = "ACK" THEN Return("ok") ELSE UNCHANGED <<call, ret>>
    /\ UNCHANGED <<toFC, fcVars, type, sent, expected, items>>

(* Every item has gone out once: only an ACK is read from here on.         *)
FinalAckRecv ==
    /\ call = "final_ack"
    /\ toGCS # << >>
    /\ toGCS' = Tail(toGCS)
    /\ IF Head(toGCS).kind = "ACK"
       THEN Return(IF Head(toGCS).ok THEN "ok" ELSE "error")
       ELSE UNCHANGED <<call, ret>>
    /\ UNCHANGED <<toFC, fcVars, type, sent, expected, items>>

(* download_mission                                                        *)

StartDownload(t) ==
    /\ toFC' = Send(toFC, ListReq(t))
    /\ call' = "count"
    /\ type' = t
    /\ ret' = "none"
    /\ items' = << >>
    /\ UNCHANGED <<toGCS, fcVars, sent, expected>>

CountRecv ==
    /\ call = "count"
    /\ toGCS # << >>
    /\ toGCS' = Tail(toGCS)
    /\ LET m == Head(toGCS) IN
        IF m.kind = "COUNT" /\ m.type = type
        THEN /\ expected' = m.n
             /\ IF m.n = 0
                THEN Return("ok") /\ UNCHANGED toFC
                ELSE /\ call' = "item"
                     /\ toFC' = Send(toFC, Request(type, 0))
                     /\ UNCHANGED ret
        ELSE UNCHANGED <<toFC, expected, call, ret>>
    /\ UNCHANGED <<fcVars, type, sent, items>>

ItemRecv ==
    /\ call = "item"
    /\ toGCS # << >>
    /\ toGCS' = Tail(toGCS)
    /\ LET m == Head(toGCS) IN
        IF m.kind = "ITEM" /\ m.type = type /\ m.seq = Len(items)
        THEN /\ items' = Append(items, m.zone)
             /\ IF Len(items') = expected
                THEN Return("ok") /\ toFC' = Send(toFC, Ack(type, TRUE))
                ELSE /\ toFC' = Send(toFC, Request(type, Len(items')))
                     /\ UNCHANGED <<call, ret>>
        ELSE UNCHANGED <<toFC, items, call, ret>>
    /\ UNCHANGED <<fcVars, type, sent, expected>>

(* clear_mission, up to its ACK; its verification is a download.           *)

StartClear(t) ==
    /\ toFC' = Send(toFC, ClearAll(t))
    /\ call' = "clear"
    /\ type' = t
    /\ ret' = "none"
    /\ UNCHANGED <<toGCS, fcVars, sent, expected, items>>

ClearAckRecv ==
    /\ call = "clear"
    /\ toGCS # << >>
    /\ LET m == Head(toGCS) IN
        \/ /\ m.kind = "ACK" /\ m.type = type /\ m.ok
           /\ toGCS' = Tail(toGCS)
           /\ toFC' = Send(toFC, ListReq(type))
           /\ call' = "count"
           /\ items' = << >>
           /\ UNCHANGED ret
        \/ /\ m.kind = "ACK" /\ m.type = type /\ ~m.ok
           /\ toGCS' = Tail(toGCS)
           /\ Return("error")
           /\ UNCHANGED <<toFC, items>>
        \/ /\ ~(m.kind = "ACK" /\ m.type = type)
           /\ toGCS' = Tail(toGCS)
           /\ UNCHANGED <<toFC, items, call, ret>>
    /\ UNCHANGED <<fcVars, type, sent, expected>>

(* Mutant of CallTimeout: the final-ACK loop has no deadline.              *)
CallTimeoutNotFinalAck ==
    /\ call \notin {"idle", "final_ack"}
    /\ Return("error")
    /\ UNCHANGED <<linkVars, fcVars, type, sent, expected, items>>

(* The deadline of whichever loop the program is in.                       *)
CallTimeout ==
    /\ call # "idle"
    /\ Return("error")
    /\ UNCHANGED <<linkVars, fcVars, type, sent, expected, items>>

Program ==
    UploadRecv \/ FinalAckRecv \/ CountRecv \/ ItemRecv \/ ClearAckRecv
        \/ CallTimeout

ProtocolInit ==
    /\ toFC = << >>
    /\ toGCS = << >>
    /\ store = [t \in MissionTypes |-> Items(OldZone, t)]
    /\ rx = NotReceiving
    /\ call = "idle"
    /\ type = "MISSION"
    /\ sent = {}
    /\ expected = 0
    /\ items = << >>
    /\ ret = "none"

ProtocolTypeOK ==
    /\ toFC \in Seq(Message)
    /\ toGCS \in Seq(Message)
    /\ store \in [MissionTypes -> Seq(Zones)]
    /\ rx \in Transfer
    /\ call \in Calls
    /\ type \in MissionTypes
    /\ sent \subseteq Nat
    /\ expected \in Nat
    /\ items \in Seq(Zones)
    /\ ret \in {"none", "ok", "error"}
=============================================================================
