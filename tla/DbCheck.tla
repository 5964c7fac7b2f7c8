------------------------------- MODULE DbCheck -------------------------------
(***************************************************************************)
(* The vslam-db-check step of the bringup (cli/bringup.py, _run_db_check): *)
(* the map databases on the Jetson are examined over SSH one command at a  *)
(* time, and moved to a quarantine name.  JetsonClient.run hands the       *)
(* command to ssh as separate arguments and ssh joins them with spaces, so *)
(* an argument that has spaces in it does not arrive as one.               *)
(***************************************************************************)
EXTENDS SequencesExt

CONSTANTS
    Default,   \* /var/lib/mower/rtabmap.db
    ZoneDbs,   \* the databases below /var/lib/mower/zones
    MaxFaults  \* bound: commands that are lost

Dbs == {Default} \cup ZoneDbs
Kinds == {"absent", "healthy", "damaged", "empty", "huge"}

VARIABLES
    kind,       \* what is found under the name of each database
    configured, \* database_path of /etc/mower/vslam.yaml
    pc,         \* the command that is issued next
    db,         \* the database that is examined
    todo,       \* databases find has listed that are not examined yet
    listed,     \* find was issued
    hit,        \* databases a command about which was lost
    faults

vars == <<kind, configured, pc, db, todo, listed, hit, faults>>

Init ==
    /\ kind \in [Dbs -> Kinds] /\ configured \in Dbs
    /\ pc = "resolve" /\ db = Default /\ todo = {} /\ listed = FALSE
    /\ hit = {} /\ faults = 0

(* build_ssh_argv, ssh and the shell of the Jetson: of a command, given as *)
(* the sequence of its arguments and each of these as its words, every     *)
(* word arrives as an argument of its own.                                 *)
Arrives(argv) == [i \in DOMAIN FlattenSeq(argv) |-> <<FlattenSeq(argv)[i]>>]

(* The argument of a command after its n-th.                               *)
After(argv, n) == Arrives(argv)[n + 1]

(* SshError, or the exit code 255 of ssh.                                  *)
Lost(about) == faults < MaxFaults /\ faults' = faults + 1 /\ hit' = hit \cup about
NotLost == UNCHANGED <<hit, faults>>

Goto(l) == pc' = l /\ UNCHANGED <<db, todo, listed, kind, configured>>

(* The call of _check_single_db returns.                                   *)
Return == IF listed THEN Goto("next") ELSE Goto("find")

-----------------------------------------------------------------------------
(* _resolve_active_db_path: python3 -c runs the argument behind it, and    *)
(* what is left of the script is not the script.  The default is returned. *)
ReadPath == <<"import", "yaml;", "print(database_path)">>
Resolved ==
    IF After(<<<<"python3">>, <<"-c">>, ReadPath>>, 2) = ReadPath THEN configured
    ELSE Default

Resolve ==
    /\ pc = "resolve" /\ pc' = "exists"
    /\ \/ db' = Resolved /\ NotLost
       \/ db' = Default /\ Lost({})
    /\ UNCHANGED <<kind, configured, todo, listed>>

(* test -f: what cannot be seen counts as absent.                          *)
Exists ==
    /\ pc = "exists"
    /\ \/ NotLost /\ IF kind[db] = "absent" THEN Return ELSE Goto("stat")
       \/ Lost({db}) /\ Return

(* stat -c %s: empty, too large and unreadable are quarantined.            *)
Stat ==
    /\ pc = "stat"
    /\ \/ NotLost /\ IF kind[db] \in {"empty", "huge"} THEN Goto("mv") ELSE Goto("pragma")
       \/ Lost({db}) /\ Goto("mv")

(* sqlite3 runs the argument behind the name of the file; any answer other *)
(* than the "ok" of the integrity check is quarantined.                    *)
IntegrityCheck == <<"PRAGMA", "integrity_check;">>
AnswersOk ==
    /\ After(<<<<"sqlite3">>, <<db>>, IntegrityCheck>>, 2) = IntegrityCheck
    /\ kind[db] = "healthy"

Pragma ==
    /\ pc = "pragma"
    /\ \/ NotLost /\ IF AnswersOk THEN Return ELSE Goto("mv")
       \/ Lost({db}) /\ Goto("mv")

(* _quarantine_db: bash -c runs the argument behind it; a lost command may *)
(* still have been run.                                                    *)
Move == <<"mv", db, "corrupt">>
Quarantine ==
    /\ pc = "mv"
    /\ pc' = IF listed THEN "next" ELSE "find"
    /\ \/ /\ NotLost \/ Lost({db})
          /\ kind' = IF After(<<<<"bash">>, <<"-c">>, Move>>, 2) = Move
                     THEN [kind EXCEPT ![db] = "absent"] ELSE kind
       \/ Lost({db}) /\ UNCHANGED kind
    /\ UNCHANGED <<configured, db, todo, listed>>

(* The zone databases, without the one already checked; a lost find is     *)
(* passed over.                                                            *)
Find ==
    /\ pc = "find"
    /\ \/ /\ NotLost
          /\ todo' = {d \in ZoneDbs : kind[d] # "absent"} \ {db}
       \/ Lost(ZoneDbs \ {db}) /\ UNCHANGED todo
    /\ listed' = TRUE /\ pc' = "next"
    /\ UNCHANGED <<kind, configured, db>>

NextDb ==
    /\ pc = "next"
    /\ \/ \E d \in todo : db' = d /\ todo' = todo \ {d} /\ pc' = "exists"
       \/ todo = {} /\ pc' = "done" /\ UNCHANGED <<db, todo>>
    /\ UNCHANGED <<kind, configured, listed, hit, faults>>

Done == pc = "done" /\ UNCHANGED vars

Next ==
    \/ Resolve \/ Exists \/ Stat \/ Pragma \/ Quarantine \/ Find \/ NextDb \/ Done

Spec == Init /\ [][Next]_vars

-----------------------------------------------------------------------------
(* "A corrupt RTAB-Map DB is detected and quarantined automatically":      *)
(* after the step, a database that cannot be used is left in place only if *)
(* a command about it, or the one that lists the zones, was lost.  The     *)
(* default database counts where it is in use.                             *)
UnusableIsMoved ==
    pc = "done" =>
        \A d \in ZoneDbs \cup {configured} :
            kind[d] \in {"absent", "healthy"} \/ d \in hit
=============================================================================
