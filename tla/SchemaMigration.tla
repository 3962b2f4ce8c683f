--------------------------- MODULE SchemaMigration ---------------------------
(***************************************************************************)
(* open_db (db.py) on a database an older version may have left: the       *)
(* schema script, the columns added one by one, and the rebuild of         *)
(* proc_sample, run by every process that opens the file (daemon, archive  *)
(* thread, sync-once, sync-archive, report), and write_snapshot after it.  *)
(*                                                                         *)
(* With isolation_level "DEFERRED" the sqlite3 module opens a transaction  *)
(* before an INSERT only.  Every DDL statement before the rebuild's INSERT *)
(* commits by itself, `with conn:` or not; the INSERT and the statements   *)
(* after it commit together.  A statement that would fail does not change  *)
(* the file, and its exception leaves open_db.                             *)
(*                                                                         *)
(* gpu_sample only gains columns and is left out: the same statements, and *)
(* no row moves.                                                           *)
(***************************************************************************)
EXTENDS Naturals, FiniteSets

CONSTANTS
    Procs,   \* connections, one per process or thread
    OldRows, \* rows of proc_sample the older version left
    NewRows, \* rows written by this one
    MaxOpens \* bound: calls of open_db

ASSUME MigrationAssumption == OldRows \cap NewRows = {} /\ MaxOpens \in Nat

(* The columns of proc_sample younger than its first version, in the order *)
(* in which open_db ensures them (gpu_index goes with process_name); and   *)
(* those the rebuild copies.                                               *)
Columns == {"run_id", "process_name", "process_type", "owner_user"}
Copied  == Columns \ {"owner_user"}
Rows    == OldRows \cup NewRows
Tables  == {"proc_sample", "proc_sample_legacy"}

Missing == [cols |-> {}, notNull |-> FALSE, rows |-> {}, exists |-> FALSE]
Table(cols, notNull, rows) ==
    [cols |-> cols, notNull |-> notNull, rows |-> rows, exists |-> TRUE]

(* What earlier versions left: 1.0.0, 1.0.x, 1.1, and 1.2 before owners.   *)
Released ==
    {Missing, Table({}, TRUE, OldRows), Table({"run_id"}, TRUE, OldRows),
     Table({"run_id", "process_name"}, TRUE, OldRows),
     Table(Copied, FALSE, OldRows)}

VARIABLES
    tables,    \* the two tables as the file holds them
    index,     \* the table idx_proc_sample_uuid_ts is on, or "none"
    committed, \* history: rows whose transaction has committed
    was, is,   \* history: the columns a row was written with / has values in
    conn,      \* conn[p]: where p is, the column it ensures, what it has read
    opens,     \* calls of open_db
    clean,     \* history: no two open_db overlapped, none was cut off
    broken     \* history: an opened connection could not write its row

vars == <<tables, index, committed, was, is, conn, opens, clean, broken>>
content == <<committed, was, is>>

Closed == [pc |-> "closed", col |-> "run_id", read |-> Missing]
Opening(p) == conn[p].pc \notin {"closed", "open"}

Init ==
    /\ \E t \in Released :
        /\ tables = [n \in Tables |-> IF n = "proc_sample" THEN t ELSE Missing]
        /\ index = IF t.exists THEN "proc_sample" ELSE "none"
        /\ committed = t.rows
        /\ was = [r \in Rows |-> t.cols]
    /\ is = was
    /\ conn = [p \in Procs |-> Closed]
    /\ opens = 0 /\ clean = TRUE /\ broken = FALSE

Main   == tables["proc_sample"]
Legacy == tables["proc_sample_legacy"]

At(p, pc)   == conn[p].pc = pc
Goto(p, pc) == conn' = [conn EXCEPT ![p].pc = pc]
Raise(p)    == conn' = [conn EXCEPT ![p] = Closed]

Quiet == UNCHANGED <<content, opens, clean, broken>>

-----------------------------------------------------------------------------
Open(p) ==
    /\ At(p, "closed") /\ opens < MaxOpens
    /\ opens' = opens + 1
    /\ Goto(p, "schemaTable")
    /\ clean' = (clean /\ \A q \in Procs : ~Opening(q))
    /\ UNCHANGED <<tables, index, content, broken>>

(* The process is killed, or a statement waits five seconds for a lock.    *)
Die(p) ==
    /\ ~At(p, "closed")
    /\ Raise(p)
    /\ clean' = (clean /\ ~Opening(p))
    /\ UNCHANGED <<tables, index, content, opens, broken>>

(* CREATE TABLE IF NOT EXISTS proc_sample                                  *)
SchemaTable(p) ==
    /\ At(p, "schemaTable") /\ Goto(p, "schemaIndex")
    /\ tables' = IF Main.exists THEN tables
                 ELSE [tables EXCEPT !["proc_sample"] = Table(Columns, FALSE, {})]
    /\ UNCHANGED index /\ Quiet

(* CREATE INDEX IF NOT EXISTS ... ON proc_sample                           *)
SchemaIndex(p) ==
    /\ At(p, "schemaIndex")
    /\ IF Main.exists
       THEN /\ Goto(p, "look")
            /\ index' = IF index = "none" THEN "proc_sample" ELSE index
       ELSE Raise(p) /\ UNCHANGED index
    /\ UNCHANGED tables /\ Quiet

(* mutant: nobody sees to the column the rebuilt table lacks               *)
EnsuredButOwner(p) ==
    conn' = [conn EXCEPT ![p] =
        CASE @.col = "run_id"       -> [@ EXCEPT !.pc = "read"]
          [] @.col = "process_name" -> [@ EXCEPT !.pc = "look", !.col = "process_type"]
          [] OTHER                  -> [@ EXCEPT !.pc = "open"]]

(* After run_id comes the rebuild, after owner_user nothing.               *)
Ensured(p) ==
    conn' = [conn EXCEPT ![p] =
        CASE @.col = "run_id"       -> [@ EXCEPT !.pc = "read"]
          [] @.col = "process_name" -> [@ EXCEPT !.pc = "look", !.col = "process_type"]
          [] @.col = "process_type" -> [@ EXCEPT !.pc = "look", !.col = "owner_user"]
          [] @.col = "owner_user"   -> [@ EXCEPT !.pc = "open"]]

(* PRAGMA table_info, empty for a table that is not there                  *)
Look(p) ==
    /\ At(p, "look")
    /\ IF conn[p].col \in Main.cols THEN Ensured(p) ELSE Goto(p, "add")
    /\ UNCHANGED <<tables, index>> /\ Quiet

(* ALTER TABLE proc_sample ADD COLUMN                                      *)
Add(p) ==
    /\ At(p, "add")
    /\ IF Main.exists /\ conn[p].col \notin Main.cols
       THEN /\ Ensured(p)
            /\ tables' = [tables EXCEPT !["proc_sample"].cols = @ \cup {conn[p].col}]
       ELSE Raise(p) /\ UNCHANGED tables
    /\ UNCHANGED index /\ Quiet

-----------------------------------------------------------------------------
(* _rebuild_proc_sample_if_needed                                          *)

(* mutant: it does not look at what is there                               *)
RebuildAlways(t) == t.exists

RebuildDue(t) == t.exists /\ (t.notNull \/ "process_type" \notin t.cols)

ReadColumns(p) ==
    /\ At(p, "read")
    /\ conn' = [conn EXCEPT ![p] =
                  IF RebuildDue(Main) THEN [@ EXCEPT !.pc = "dropIndex", !.read = Main]
                  ELSE [@ EXCEPT !.pc = "look", !.col = "process_name"]]
    /\ UNCHANGED <<tables, index>> /\ Quiet

DropIndex(p) ==
    /\ At(p, "dropIndex") /\ Goto(p, "rename")
    /\ index' = "none"
    /\ UNCHANGED tables /\ Quiet

(* mutant: a proc_sample_legacy that is in the way is dropped              *)
RenameOver(p) ==
    /\ At(p, "rename")
    /\ IF Main.exists
       THEN /\ Goto(p, "create")
            /\ tables' = [n \in Tables |-> IF n = "proc_sample" THEN Missing ELSE Main]
            /\ index' = IF index = "none" THEN "none" ELSE "proc_sample_legacy"
       ELSE Raise(p) /\ UNCHANGED <<tables, index>>
    /\ Quiet

(* ALTER TABLE proc_sample RENAME TO proc_sample_legacy                    *)
Rename(p) ==
    /\ At(p, "rename")
    /\ IF Main.exists /\ ~Legacy.exists
       THEN /\ Goto(p, "create")
            /\ tables' = [n \in Tables |-> IF n = "proc_sample" THEN Missing ELSE Main]
            /\ index' = IF index = "none" THEN "none" ELSE "proc_sample_legacy"
       ELSE Raise(p) /\ UNCHANGED <<tables, index>>
    /\ Quiet

(* CREATE TABLE proc_sample, without the column that came later            *)
Create(p) ==
    /\ At(p, "create")
    /\ IF Main.exists
       THEN Raise(p) /\ UNCHANGED tables
       ELSE /\ Goto(p, "copy")
            /\ tables' = [tables EXCEPT !["proc_sample"] = Table(Copied, FALSE, {})]
    /\ UNCHANGED index /\ Quiet

Copyable(p) ==
    /\ Main.exists /\ Legacy.exists
    /\ Copied \subseteq Main.cols
    /\ conn[p].read.cols \cap Copied \subseteq Legacy.cols
    /\ index # "proc_sample"

(* INSERT ... SELECT with NULL for the columns that were not there when p  *)
(* read them, DROP TABLE proc_sample_legacy (and an index on it), CREATE   *)
(* INDEX: one transaction.                                                 *)
Copy(p) ==
    /\ At(p, "copy")
    /\ IF Copyable(p)
       THEN /\ conn' = [conn EXCEPT ![p].pc = "look", ![p].col = "process_name"]
            /\ tables' = [tables EXCEPT !["proc_sample"].rows = @ \cup Legacy.rows,
                                        !["proc_sample_legacy"] = Missing]
            /\ index' = "proc_sample"
            /\ is' = [r \in Rows |-> IF r \in Legacy.rows
                                     THEN is[r] \cap conn[p].read.cols \cap Copied
                                     ELSE is[r]]
       ELSE Raise(p) /\ UNCHANGED <<tables, index, is>>
    /\ UNCHANGED <<committed, was, opens, clean, broken>>

-----------------------------------------------------------------------------
(* write_snapshot's rows of proc_sample.                                   *)
Write(p, r) ==
    /\ At(p, "open") /\ r \in NewRows \ committed
    /\ IF Main.exists /\ Columns \subseteq Main.cols
       THEN /\ tables' = [tables EXCEPT !["proc_sample"].rows = @ \cup {r}]
            /\ committed' = committed \cup {r}
            /\ was' = [was EXCEPT ![r] = Columns]
            /\ is' = [is EXCEPT ![r] = Columns]
            /\ UNCHANGED broken
       ELSE broken' = TRUE /\ UNCHANGED <<tables, content>>
    /\ UNCHANGED <<index, conn, opens, clean>>

Close(p) ==
    /\ At(p, "open")
    /\ Raise(p)
    /\ UNCHANGED <<tables, index>> /\ Quiet

Next == \E p \in Procs :
    \/ Open(p) \/ Die(p) \/ SchemaTable(p) \/ SchemaIndex(p) \/ Look(p) \/ Add(p)
    \/ ReadColumns(p) \/ DropIndex(p) \/ Rename(p) \/ Create(p) \/ Copy(p)
    \/ \E r \in NewRows : Write(p, r)
    \/ Close(p)

Spec == Init /\ [][Next]_vars

-----------------------------------------------------------------------------
TableType == [cols : SUBSET Columns, notNull : BOOLEAN, rows : SUBSET Rows,
              exists : BOOLEAN]

Pcs == {"closed", "schemaTable", "schemaIndex", "look", "add", "read", "dropIndex",
        "rename", "create", "copy", "open"}

ConnType == [pc : Pcs, col : Columns, read : TableType]

(* The values each variable takes.                                         *)
TypeOK ==
    /\ tables \in [Tables -> TableType]
    /\ index \in Tables \cup {"none"}
    /\ committed \subseteq Rows
    /\ was \in [Rows -> SUBSET Columns] /\ is \in [Rows -> SUBSET Columns]
    /\ conn \in [Procs -> ConnType]
    /\ opens \in Nat /\ clean \in BOOLEAN /\ broken \in BOOLEAN

(* Whoever migrates at the same time and wherever it is cut off, every     *)
(* committed row is still in the file, in one of the two tables: DROP      *)
(* TABLE proc_sample_legacy never takes an uncopied row with it            *)
(* (db.py:154-176).                                                        *)
NothingDestroyed == committed \subseteq Main.rows \cup Legacy.rows

(* The rows that proc_sample shows, with the values they were written with.*)
Intact == \A r \in committed : r \in Main.rows /\ was[r] = is[r]

(* While calls of open_db neither overlap nor are cut off, a database of   *)
(* any version comes out of each of them with every row in place and every *)
(* value in it, a second time as well as the first (db.py:109-112).        *)
UpgradeKeepsRows ==
    clean /\ (\A p \in Procs : ~Opening(p)) => Intact

(* Under the same conditions a connection that open_db has returned can    *)
(* write, whatever the others do to the schema meanwhile.                  *)
OpenedWrites == clean => ~broken

(* What open_db promises of every database, crashes before it included:    *)
(* once it has returned, legacy rows keep their values (db.py:109-112).    *)
LegacyRowsKept == (\E p \in Procs : At(p, "open")) => Intact
=============================================================================
