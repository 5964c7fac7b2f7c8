--------------------------- MODULE ZoneTransaction ---------------------------
(***************************************************************************)
(* What "mower zone select" promises, whatever happens on the links: the   *)
(* change of zone is a transaction on the three stores of the flight       *)
(* controller and on the map of the SLAM node.  The map is switched first; *)
(* the stores are then replaced one after the other; and the command       *)
(* commits when all is new -- with an error when it cannot record that --, *)
(* refuses when it has touched no store, or undoes, whenever it has begun, *)
(* by emptying the stores in the same order.  Messages, transfers and      *)
(* time-outs are not seen here; ZoneSelect implements this.                *)
(***************************************************************************)
EXTENDS Naturals

CONSTANTS Types, Rank   \* Rank[t]: the position of t in the order

VARIABLES
    held,    \* held[t]: "old", "new", "partial" or "empty"
    slam,    \* the map of the SLAM node: "old", "off" (not running), "new"
    skip,    \* the map is left alone (--skip-slam)
    stage    \* "open", "undoing", or the end: "committed", "unreported",
             \* "refused", "failed"

vars == <<held, slam, skip, stage>>

All(s) == \A t \in Types : held[t] = s
Earlier(t) == {u \in Types : Rank[u] < Rank[t]}
Later(t) == {u \in Types : Rank[u] > Rank[t]}

Init ==
    /\ held = [t \in Types |-> "old"]
    /\ slam = "old" /\ skip \in BOOLEAN
    /\ stage = "open"

(* The remote command goes on when the laptop has given up on it.          *)
Activate ==
    /\ ~skip /\ stage \in {"open", "refused"} /\ All("old")
    /\ slam' \in {"off", "new"}
    /\ UNCHANGED <<held, skip, stage>>

(* A store is touched when all before it are new and all behind it old; an *)
(* item that is still under way may arrive after the command has failed.   *)
Upload(t) ==
    /\ stage \in {"open", "undoing", "failed"}
    /\ \A u \in Earlier(t) : held[u] = "new"
    /\ \A u \in Later(t) : held[u] = "old"
    /\ held[t] # "empty"
    /\ held' \in {[held EXCEPT ![t] = s] : s \in {"partial", "new"}}
    /\ UNCHANGED <<slam, skip, stage>>

(* Emptied in order, so what is left is never a store without those behind *)
(* it having been left as well.                                            *)
Discard(t) ==
    /\ stage \in {"undoing", "failed"}
    /\ \A u \in Earlier(t) : held[u] = "empty"
    /\ held' = [held EXCEPT ![t] = "empty"]
    /\ UNCHANGED <<slam, skip, stage>>

Finish(from, to) == stage = from /\ stage' = to /\ UNCHANGED <<held, slam, skip>>

Commit ==
    /\ All("new") /\ (skip \/ slam = "new")
    /\ Finish("open", "committed") \/ Finish("open", "unreported")
Refuse == All("old") /\ Finish("open", "refused")
Undo   == Finish("open", "undoing")
Fail   == Finish("undoing", "failed")

Next ==
    \/ Activate
    \/ \E t \in Types : Upload(t) \/ Discard(t)
    \/ Commit \/ Refuse \/ Undo \/ Fail

Spec == Init /\ [][Next]_vars
=============================================================================
