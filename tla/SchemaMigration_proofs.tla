------------------------ MODULE SchemaMigration_proofs ------------------------
(***************************************************************************)
(* What holds of open_db for any number of connections, rows and calls.    *)
(***************************************************************************)
EXTENDS SchemaMigration, TLAPS

(* A table that is not there has no rows, and rows hold no values in       *)
(* columns that are not rows of any table yet.                             *)
NoGhostRows == \A n \in Tables : ~tables[n].exists => tables[n].rows = {}

FileInv == TypeOK /\ NoGhostRows /\ NothingDestroyed

LEMMA TableFacts ==
    /\ Missing \in TableType /\ ~Missing.exists /\ Missing.rows = {}
    /\ Missing.cols = {} /\ ~Missing.notNull
    /\ \A c \in SUBSET Columns, b \in BOOLEAN, r \in SUBSET Rows :
         /\ Table(c, b, r) \in TableType
         /\ Table(c, b, r).exists /\ Table(c, b, r).rows = r
         /\ Table(c, b, r).cols = c /\ Table(c, b, r).notNull = b
BY DEF Missing, Table, TableType

LEMMA ReleasedFacts ==
    ASSUME NEW t \in Released
    PROVE  /\ t \in TableType /\ t.rows \in {{}, OldRows}
           /\ ~t.exists => t.rows = {}
<1>1. /\ {} \in SUBSET Columns /\ {"run_id"} \in SUBSET Columns
      /\ {"run_id", "process_name"} \in SUBSET Columns /\ Copied \in SUBSET Columns
      /\ OldRows \in SUBSET Rows
  BY DEF Columns, Copied, Rows
<1>2. CASE t = Missing
  BY <1>2, TableFacts
<1>3. CASE t = Table({}, TRUE, OldRows)
  BY <1>1, <1>3 DEF Table, TableType
<1>4. CASE t = Table({"run_id"}, TRUE, OldRows)
  BY <1>1, <1>4 DEF Table, TableType
<1>5. CASE t = Table({"run_id", "process_name"}, TRUE, OldRows)
  BY <1>1, <1>5 DEF Table, TableType
<1>6. CASE t = Table(Copied, FALSE, OldRows)
  BY <1>1, <1>6 DEF Table, TableType
<1> QED BY <1>2, <1>3, <1>4, <1>5, <1>6 DEF Released

(* What each statement does to the two tables.                             *)
LEMMA Effect ==
    ASSUME TypeOK, NEW p \in Procs
    PROVE  /\ Open(p) \/ Die(p) \/ SchemaIndex(p) \/ Look(p) \/ ReadColumns(p)
                \/ DropIndex(p) \/ Close(p) => UNCHANGED tables
           /\ SchemaTable(p) =>
                \/ UNCHANGED tables
                \/ /\ ~Main.exists /\ Main' = Table(Columns, FALSE, {})
                   /\ Legacy' = Legacy
           /\ Add(p) =>
                \/ UNCHANGED tables
                \/ /\ Main.exists /\ conn[p].col \notin Main.cols
                   /\ Main' = [Main EXCEPT !.cols = @ \cup {conn[p].col}]
                   /\ Legacy' = Legacy
           /\ Rename(p) =>
                \/ UNCHANGED tables
                \/ Main.exists /\ ~Legacy.exists /\ Main' = Missing /\ Legacy' = Main
           /\ Create(p) =>
                \/ UNCHANGED tables
                \/ ~Main.exists /\ Main' = Table(Copied, FALSE, {}) /\ Legacy' = Legacy
           /\ Copy(p) =>
                \/ UNCHANGED tables
                \/ /\ Main' = [Main EXCEPT !.rows = @ \cup Legacy.rows]
                   /\ Main.exists /\ Legacy.exists /\ Legacy' = Missing
           /\ \A r \in NewRows : Write(p, r) =>
                \/ UNCHANGED tables
                \/ /\ Main' = [Main EXCEPT !.rows = @ \cup {r}]
                   /\ Main.exists /\ Legacy' = Legacy
<1> USE DEF TypeOK, Main, Legacy, Tables
<1>1. Open(p) \/ Die(p) \/ SchemaIndex(p) \/ Look(p) \/ ReadColumns(p)
        \/ DropIndex(p) \/ Close(p) => UNCHANGED tables
  BY DEF Open, Die, SchemaIndex, Look, ReadColumns, DropIndex, Close
<1>2. SchemaTable(p) =>
        \/ UNCHANGED tables
        \/ ~Main.exists /\ Main' = Table(Columns, FALSE, {}) /\ Legacy' = Legacy
  BY DEF SchemaTable
<1>3. Add(p) =>
        \/ UNCHANGED tables
        \/ /\ Main.exists /\ conn[p].col \notin Main.cols
           /\ Main' = [Main EXCEPT !.cols = @ \cup {conn[p].col}]
           /\ Legacy' = Legacy
  BY DEF Add
<1>4. Rename(p) =>
        \/ UNCHANGED tables
        \/ Main.exists /\ ~Legacy.exists /\ Main' = Missing /\ Legacy' = Main
  BY DEF Rename
<1>5. Create(p) =>
        \/ UNCHANGED tables
        \/ ~Main.exists /\ Main' = Table(Copied, FALSE, {}) /\ Legacy' = Legacy
  BY DEF Create
<1>6. Copy(p) =>
        \/ UNCHANGED tables
        \/ /\ Main' = [Main EXCEPT !.rows = @ \cup Legacy.rows]
           /\ Main.exists /\ Legacy.exists /\ Legacy' = Missing
  BY DEF Copy, Copyable
<1>7. \A r \in NewRows : Write(p, r) =>
        \/ UNCHANGED tables
        \/ /\ Main' = [Main EXCEPT !.rows = @ \cup {r}]
           /\ Main.exists /\ Legacy' = Legacy
  BY DEF Write
<1> QED BY <1>1, <1>2, <1>3, <1>4, <1>5, <1>6, <1>7

(* How a connection goes on.                                               *)
LEMMA ConnEffect ==
    ASSUME NEW p \in Procs, conn \in [Procs -> ConnType]
    PROVE  /\ \A pc \in Pcs : Goto(p, pc) =>
                /\ conn' \in [Procs -> ConnType]
                /\ conn'[p].pc = pc /\ conn'[p].col = conn[p].col
                /\ conn'[p].read = conn[p].read
                /\ \A q \in Procs : q # p => conn'[q] = conn[q]
           /\ Raise(p) =>
                /\ conn' \in [Procs -> ConnType]
                /\ conn'[p].pc = "closed" /\ conn'[p].col = "run_id"
                /\ \A q \in Procs : q # p => conn'[q] = conn[q]
           /\ Ensured(p) =>
                /\ conn' \in [Procs -> ConnType]
                /\ \/ conn[p].col = "run_id" /\ conn'[p].pc = "read"
                      /\ conn'[p].col = "run_id"
                   \/ conn[p].col = "process_name" /\ conn'[p].pc = "look"
                      /\ conn'[p].col = "process_type"
                   \/ conn[p].col = "process_type" /\ conn'[p].pc = "look"
                      /\ conn'[p].col = "owner_user"
                   \/ conn[p].col = "owner_user" /\ conn'[p].pc = "open"
                /\ \A q \in Procs : q # p => conn'[q] = conn[q]
<1>1. conn[p] \in ConnType
  BY DEF ConnType
<1>2. ASSUME NEW pc \in Pcs, Goto(p, pc)
      PROVE  /\ conn' \in [Procs -> ConnType]
             /\ conn'[p].pc = pc /\ conn'[p].col = conn[p].col
             /\ conn'[p].read = conn[p].read
             /\ \A q \in Procs : q # p => conn'[q] = conn[q]
  BY <1>2 DEF Goto, ConnType
<1>3. ASSUME Raise(p)
      PROVE  /\ conn' \in [Procs -> ConnType]
             /\ conn'[p].pc = "closed" /\ conn'[p].col = "run_id"
             /\ \A q \in Procs : q # p => conn'[q] = conn[q]
  <2>1. Closed \in ConnType /\ Closed.pc = "closed" /\ Closed.col = "run_id"
    BY TableFacts DEF Closed, ConnType, Pcs, Columns
  <2> QED BY <1>3, <2>1 DEF Raise
<1>4. ASSUME Ensured(p)
      PROVE  /\ conn' \in [Procs -> ConnType]
             /\ \/ conn[p].col = "run_id" /\ conn'[p].pc = "read"
                   /\ conn'[p].col = "run_id"
                \/ conn[p].col = "process_name" /\ conn'[p].pc = "look"
                   /\ conn'[p].col = "process_type"
                \/ conn[p].col = "process_type" /\ conn'[p].pc = "look"
                   /\ conn'[p].col = "owner_user"
                \/ conn[p].col = "owner_user" /\ conn'[p].pc = "open"
             /\ \A q \in Procs : q # p => conn'[q] = conn[q]
  <2>0. conn[p].col \in Columns
    BY <1>1 DEF ConnType
  <2>1. CASE conn[p].col = "run_id"
    <3>1. conn' = [conn EXCEPT ![p] = [conn[p] EXCEPT !.pc = "read"]]
      BY <1>4, <2>1 DEF Ensured
    <3>2. [conn[p] EXCEPT !.pc = "read"] \in ConnType
      BY <1>1 DEF ConnType, Pcs
    <3> QED BY <1>1, <2>1, <3>1, <3>2 DEF ConnType
  <2>2. CASE conn[p].col = "process_name"
    <3>1. conn' = [conn EXCEPT ![p] = [conn[p] EXCEPT !.pc = "look", !.col = "process_type"]]
      BY <1>4, <2>2 DEF Ensured
    <3>2. [conn[p] EXCEPT !.pc = "look", !.col = "process_type"] \in ConnType
      BY <1>1 DEF ConnType, Pcs, Columns
    <3> QED BY <1>1, <2>2, <3>1, <3>2 DEF ConnType
  <2>3. CASE conn[p].col = "process_type"
    <3>1. conn' = [conn EXCEPT ![p] = [conn[p] EXCEPT !.pc = "look", !.col = "owner_user"]]
      BY <1>4, <2>3 DEF Ensured
    <3>2. [conn[p] EXCEPT !.pc = "look", !.col = "owner_user"] \in ConnType
      BY <1>1 DEF ConnType, Pcs, Columns
    <3> QED BY <1>1, <2>3, <3>1, <3>2 DEF ConnType
  <2>4. CASE conn[p].col = "owner_user"
    <3>1. conn' = [conn EXCEPT ![p] = [conn[p] EXCEPT !.pc = "open"]]
      BY <1>4, <2>4 DEF Ensured
    <3>2. [conn[p] EXCEPT !.pc = "open"] \in ConnType
      BY <1>1 DEF ConnType, Pcs
    <3> QED BY <1>1, <2>4, <3>1, <3>2 DEF ConnType
  <2> QED BY <2>0, <2>1, <2>2, <2>3, <2>4 DEF Columns
<1> QED BY <1>2, <1>3, <1>4

LEMMA ReadEffect ==
    ASSUME NEW p \in Procs, TypeOK, ReadColumns(p)
    PROVE  /\ conn[p].pc = "read" /\ conn' \in [Procs -> ConnType]
           /\ \/ RebuildDue(Main) /\ conn'[p].pc = "dropIndex" /\ conn'[p].read = Main
                /\ conn'[p].col = conn[p].col
              \/ ~RebuildDue(Main) /\ conn'[p].pc = "look"
                /\ conn'[p].col = "process_name"
           /\ \A q \in Procs : q # p => conn'[q] = conn[q]
<1>1. conn[p] \in ConnType /\ Main \in TableType /\ conn \in [Procs -> ConnType]
  BY DEF TypeOK, Main, Tables
<1>2. CASE RebuildDue(Main)
  <2>1. conn' = [conn EXCEPT ![p] = [conn[p] EXCEPT !.pc = "dropIndex", !.read = Main]]
    BY <1>2 DEF ReadColumns
  <2>2. [conn[p] EXCEPT !.pc = "dropIndex", !.read = Main] \in ConnType
    BY <1>1 DEF ConnType, Pcs
  <2> QED BY <1>1, <1>2, <2>1, <2>2 DEF ReadColumns, ConnType, At
<1>3. CASE ~RebuildDue(Main)
  <2>1. conn' = [conn EXCEPT ![p] = [conn[p] EXCEPT !.pc = "look", !.col = "process_name"]]
    BY <1>3 DEF ReadColumns
  <2>2. [conn[p] EXCEPT !.pc = "look", !.col = "process_name"] \in ConnType
    BY <1>1 DEF ConnType, Pcs, Columns
  <2> QED BY <1>1, <1>3, <2>1, <2>2 DEF ReadColumns, ConnType, At
<1> QED BY <1>2, <1>3

LEMMA CopyConn ==
    ASSUME NEW p \in Procs, TypeOK, Copy(p)
    PROVE  /\ conn[p].pc = "copy" /\ conn' \in [Procs -> ConnType]
           /\ \/ Copyable(p) /\ conn'[p].pc = "look" /\ conn'[p].col = "process_name"
              \/ ~Copyable(p) /\ conn'[p].pc = "closed"
           /\ \A q \in Procs : q # p => conn'[q] = conn[q]
<1>1. conn[p] \in ConnType /\ conn \in [Procs -> ConnType]
  BY DEF TypeOK
<1>2. CASE Copyable(p)
  <2>1. conn' = [conn EXCEPT ![p].pc = "look", ![p].col = "process_name"]
    BY <1>2 DEF Copy
  <2>2. conn'[p] = [conn[p] EXCEPT !.pc = "look", !.col = "process_name"]
    BY <1>1, <2>1 DEF ConnType
  <2>3. [conn[p] EXCEPT !.pc = "look", !.col = "process_name"] \in ConnType
    BY <1>1 DEF ConnType, Pcs, Columns
  <2>4. conn'[p].pc = "look" /\ conn'[p].col = "process_name"
    BY <1>1, <2>2 DEF ConnType
  <2>5. \A q \in Procs : q # p => conn'[q] = conn[q]
    BY <1>1, <2>1
  <2>6. conn' \in [Procs -> ConnType]
    BY <1>1, <2>1, <2>2, <2>3, <2>5
  <2> QED BY <1>2, <2>4, <2>5, <2>6 DEF Copy, At
<1>3. CASE ~Copyable(p)
  BY <1>1, <1>3, ConnEffect DEF Copy, At
<1> QED BY <1>2, <1>3

LEMMA TypeInit == Init => TypeOK /\ NoGhostRows /\ NothingDestroyed
<1> SUFFICES ASSUME Init PROVE TypeOK /\ NoGhostRows /\ NothingDestroyed
    OBVIOUS
<1>1. PICK t \in Released :
        /\ tables = [n \in Tables |-> IF n = "proc_sample" THEN t ELSE Missing]
        /\ index = IF t.exists THEN "proc_sample" ELSE "none"
        /\ committed = t.rows
        /\ was = [r \in Rows |-> t.cols]
  BY DEF Init
<1>2. t \in TableType /\ t.cols \in SUBSET Columns /\ t.rows \in SUBSET Rows
  BY ReleasedFacts DEF TableType
<1>3. Closed \in ConnType
  BY TableFacts DEF Closed, ConnType, Pcs, Columns
<1>4. tables \in [Tables -> TableType] /\ Main = t /\ Legacy = Missing
  BY <1>1, <1>2, TableFacts DEF Main, Legacy, Tables
<1>5. is = was /\ conn = [p \in Procs |-> Closed] /\ opens = 0 /\ clean = TRUE
      /\ broken = FALSE
  BY DEF Init
<1>6. TypeOK
  BY <1>1, <1>2, <1>3, <1>4, <1>5 DEF TypeOK, Tables
<1>7. NoGhostRows
  BY <1>4, ReleasedFacts, TableFacts DEF NoGhostRows, Tables, Main, Legacy
<1>8. NothingDestroyed
  BY <1>1, <1>4 DEF NothingDestroyed
<1> QED BY <1>6, <1>7, <1>8

LEMMA TablesStep ==
    ASSUME TypeOK, NEW p \in Procs,
           \/ SchemaTable(p) \/ Add(p) \/ Rename(p) \/ Create(p) \/ Copy(p)
           \/ \E r \in NewRows : Write(p, r)
    PROVE  tables' \in [Tables -> TableType]
<1> USE DEF TypeOK, Main, Legacy
<1>0. /\ Columns \in SUBSET Columns /\ Copied \in SUBSET Columns
      /\ {} \in SUBSET Rows /\ FALSE \in BOOLEAN
      /\ Missing \in TableType
  BY TableFacts DEF Copied
<1>1. CASE SchemaTable(p)
  <2>1. Table(Columns, FALSE, {}) \in TableType
    BY <1>0 DEF Table, TableType
  <2> QED BY <1>1, <2>1 DEF SchemaTable
<1>2. CASE Add(p)
  <2>1. conn[p].col \in Columns
    BY DEF ConnType
  <2> QED BY <1>2, <2>1 DEF Add, TableType
<1>3. CASE Rename(p)
  BY <1>0, <1>3 DEF Rename, Tables
<1>4. CASE Create(p)
  <2>1. Table(Copied, FALSE, {}) \in TableType
    BY <1>0 DEF Table, TableType
  <2> QED BY <1>4, <2>1 DEF Create
<1>5. CASE Copy(p)
  <2>1. CASE Copyable(p)
    <3>1. tables' = [tables EXCEPT !["proc_sample"].rows = @ \cup Legacy.rows,
                                   !["proc_sample_legacy"] = Missing]
      BY <1>5, <2>1 DEF Copy
    <3>2. Main \in TableType /\ Legacy \in TableType
      BY DEF Tables
    <3>3. [Main EXCEPT !.rows = @ \cup Legacy.rows] \in TableType
      BY <3>2 DEF TableType
    <3>4. tables' = [tables EXCEPT !["proc_sample"] = [Main EXCEPT !.rows = @ \cup Legacy.rows],
                                   !["proc_sample_legacy"] = Missing]
      BY <3>1 DEF Tables
    <3> QED BY <1>0, <3>3, <3>4 DEF Tables
  <2>2. CASE ~Copyable(p)
    BY <1>5, <2>2 DEF Copy
  <2> QED BY <2>1, <2>2
<1>6. CASE \E r \in NewRows : Write(p, r)
  BY <1>6 DEF Write, TableType, Rows
<1> QED BY <1>1, <1>2, <1>3, <1>4, <1>5, <1>6

LEMMA TypeStep == TypeOK /\ [Next]_vars => TypeOK'
<1> SUFFICES ASSUME TypeOK, [Next]_vars PROVE TypeOK'
    OBVIOUS
<1> USE DEF TypeOK
<1>0. {"closed", "schemaTable", "schemaIndex", "look", "add", "read", "dropIndex",
       "rename", "create", "copy", "open"} = Pcs
  BY DEF Pcs
<1>1. CASE UNCHANGED vars
  BY <1>1 DEF vars, content
<1>2. ASSUME NEW p \in Procs, Open(p) \/ Die(p) \/ Close(p) PROVE TypeOK'
  <2>1. conn' \in [Procs -> ConnType]
    BY <1>0, <1>2, ConnEffect DEF Open, Die, Close
  <2>2. UNCHANGED <<tables, index, committed, was, is, broken>>
    BY <1>2 DEF Open, Die, Close, Quiet, content
  <2>3. clean' \in BOOLEAN
    <3>1. clean' = clean \/ clean' = (clean /\ \A q \in Procs : ~Opening(q))
            \/ clean' = (clean /\ ~Opening(p))
      BY <1>2, Zenon DEF Open, Die, Close, Quiet
    <3> QED BY <3>1, Zenon
  <2>4. opens' \in Nat
    BY <1>2 DEF Open, Die, Close, Quiet
  <2> QED BY <2>1, <2>2, <2>3, <2>4
<1>3. ASSUME NEW p \in Procs, SchemaTable(p) PROVE TypeOK'
  BY <1>0, <1>3, ConnEffect, TablesStep DEF SchemaTable, Quiet, content
<1>4. ASSUME NEW p \in Procs, SchemaIndex(p) PROVE TypeOK'
  BY <1>0, <1>4, ConnEffect DEF SchemaIndex, Quiet, content, Tables
<1>5. ASSUME NEW p \in Procs, Look(p) PROVE TypeOK'
  BY <1>0, <1>5, ConnEffect DEF Look, Quiet, content
<1>6. ASSUME NEW p \in Procs, Add(p) PROVE TypeOK'
  <2>1. conn' \in [Procs -> ConnType]
    BY <1>6, ConnEffect DEF Add
  <2> QED BY <1>6, <2>1, TablesStep DEF Add, Quiet, content
<1>7. ASSUME NEW p \in Procs, ReadColumns(p) PROVE TypeOK'
  BY <1>7, ReadEffect DEF ReadColumns, Quiet, content
<1>8. ASSUME NEW p \in Procs, DropIndex(p) PROVE TypeOK'
  BY <1>0, <1>8, ConnEffect DEF DropIndex, Quiet, content
<1>9. ASSUME NEW p \in Procs, Rename(p) PROVE TypeOK'
  BY <1>0, <1>9, ConnEffect, TablesStep DEF Rename, Quiet, content, Tables
<1>10. ASSUME NEW p \in Procs, Create(p) PROVE TypeOK'
  BY <1>0, <1>10, ConnEffect, TablesStep DEF Create, Quiet, content
<1>11. ASSUME NEW p \in Procs, Copy(p) PROVE TypeOK'
  <2>1. is' \in [Rows -> SUBSET Columns]
    BY <1>11 DEF Copy
  <2>2. index' \in Tables \cup {"none"}
    BY <1>11 DEF Copy, Tables
  <2> QED BY <1>11, <2>1, <2>2, CopyConn, TablesStep DEF Copy
<1>12. ASSUME NEW p \in Procs, NEW r \in NewRows, Write(p, r) PROVE TypeOK'
  <2>1. tables' \in [Tables -> TableType]
    BY <1>12, TablesStep
  <2>2. committed' \subseteq Rows /\ was' \in [Rows -> SUBSET Columns]
        /\ is' \in [Rows -> SUBSET Columns] /\ broken' \in BOOLEAN
    <3>1. CASE UNCHANGED content /\ broken' = TRUE
      BY <3>1 DEF content
    <3>2. CASE /\ committed' = committed \cup {r} /\ UNCHANGED broken
               /\ was' = [was EXCEPT ![r] = Columns] /\ is' = [is EXCEPT ![r] = Columns]
      <4>1. r \in Rows /\ Columns \in SUBSET Columns
        BY DEF Rows
      <4>2. committed' \subseteq Rows /\ broken' \in BOOLEAN
        BY <3>2, <4>1
      <4>3. was' \in [Rows -> SUBSET Columns]
        BY <3>2, <4>1
      <4>4. is' \in [Rows -> SUBSET Columns]
        BY <3>2, <4>1
      <4> QED BY <4>2, <4>3, <4>4
    <3> QED BY <1>12, <3>1, <3>2 DEF Write
  <2> QED BY <1>12, <2>1, <2>2 DEF Write
<1> QED BY <1>1, <1>2, <1>3, <1>4, <1>5, <1>6, <1>7, <1>8, <1>9, <1>10, <1>11, <1>12
        DEF Next

LEMMA FileStep == FileInv /\ [Next]_vars => FileInv'
<1> SUFFICES ASSUME FileInv, [Next]_vars PROVE (NoGhostRows /\ NothingDestroyed)'
    BY TypeStep DEF FileInv
<1>0. /\ Main \in TableType /\ Legacy \in TableType
      /\ ~Main.exists => Main.rows = {}
      /\ ~Legacy.exists => Legacy.rows = {}
      /\ committed \subseteq Main.rows \cup Legacy.rows
  BY DEF FileInv, TypeOK, NoGhostRows, NothingDestroyed, Tables, Main, Legacy
<1>g. ASSUME ~Main'.exists => Main'.rows = {}, ~Legacy'.exists => Legacy'.rows = {}
      PROVE  NoGhostRows'
  BY <1>g DEF NoGhostRows, Tables, Main, Legacy
<1>u. ASSUME UNCHANGED tables, committed' = committed
      PROVE  (NoGhostRows /\ NothingDestroyed)'
  BY <1>u DEF FileInv, NoGhostRows, NothingDestroyed, Main, Legacy
<1>t. /\ Table(Columns, FALSE, {}).exists /\ Table(Columns, FALSE, {}).rows = {}
      /\ Table(Copied, FALSE, {}).exists /\ Table(Copied, FALSE, {}).rows = {}
      /\ ~Missing.exists /\ Missing.rows = {}
  BY DEF Table, Missing
<1> USE DEF FileInv
<1>1. CASE UNCHANGED vars
  BY <1>1, <1>u DEF vars, content
<1>2. ASSUME NEW p \in Procs, Open(p) \/ Die(p) \/ SchemaIndex(p) \/ Look(p)
             \/ ReadColumns(p) \/ DropIndex(p) \/ Close(p)
      PROVE  (NoGhostRows /\ NothingDestroyed)'
  BY <1>2, <1>u, Effect
     DEF Open, Die, SchemaIndex, Look, ReadColumns, DropIndex, Close, Quiet, content
<1>3. ASSUME NEW p \in Procs, SchemaTable(p) PROVE (NoGhostRows /\ NothingDestroyed)'
  <2>1. committed' = committed
    BY <1>3 DEF SchemaTable, Quiet, content
  <2> QED BY <1>0, <1>3, <1>g, <1>t, <1>u, <2>1, Effect DEF NothingDestroyed
<1>4. ASSUME NEW p \in Procs, Add(p) PROVE (NoGhostRows /\ NothingDestroyed)'
  <2>1. committed' = committed
    BY <1>4 DEF Add, Quiet, content
  <2> QED BY <1>0, <1>4, <1>g, <1>u, <2>1, Effect DEF NothingDestroyed, TableType
<1>5. ASSUME NEW p \in Procs, Rename(p) PROVE (NoGhostRows /\ NothingDestroyed)'
  <2>1. committed' = committed
    BY <1>5 DEF Rename, Quiet, content
  <2> QED BY <1>0, <1>5, <1>g, <1>t, <1>u, <2>1, Effect DEF NothingDestroyed
<1>6. ASSUME NEW p \in Procs, Create(p) PROVE (NoGhostRows /\ NothingDestroyed)'
  <2>1. committed' = committed
    BY <1>6 DEF Create, Quiet, content
  <2> QED BY <1>0, <1>6, <1>g, <1>t, <1>u, <2>1, Effect DEF NothingDestroyed
<1>7. ASSUME NEW p \in Procs, Copy(p) PROVE (NoGhostRows /\ NothingDestroyed)'
  <2>1. committed' = committed
    BY <1>7 DEF Copy
  <2> QED BY <1>0, <1>7, <1>g, <1>t, <1>u, <2>1, Effect DEF NothingDestroyed, TableType
<1>8. ASSUME NEW p \in Procs, NEW r \in NewRows, Write(p, r)
      PROVE  (NoGhostRows /\ NothingDestroyed)'
  <2>1. CASE Main.exists /\ Columns \subseteq Main.cols
    <3>1. committed' = committed \cup {r}
      BY <1>8, <2>1 DEF Write
    <3>2. Main' = [Main EXCEPT !.rows = @ \cup {r}] /\ Legacy' = Legacy
      BY <1>8, <2>1 DEF Write, Main, Legacy, TypeOK, Tables
    <3> QED BY <1>0, <1>g, <2>1, <3>1, <3>2 DEF NothingDestroyed, TableType
  <2>2. CASE ~(Main.exists /\ Columns \subseteq Main.cols)
    BY <1>8, <1>u, <2>2 DEF Write, content
  <2> QED BY <2>1, <2>2
<1> QED BY <1>1, <1>2, <1>3, <1>4, <1>5, <1>6, <1>7, <1>8 DEF Next

(* Every variable keeps its type.                                          *)
THEOREM MigrationTypes == Spec => []TypeOK
BY TypeInit, TypeStep, PTL DEF Spec

(* Whoever migrates at the same time and wherever it is cut off, every     *)
(* committed row stays in one of the two tables (db.py:154-176).           *)
THEOREM RowsStayInTheFile == Spec => []NothingDestroyed
<1>1. FileInv => NothingDestroyed
  BY DEF FileInv
<1>2. Init => FileInv
  BY TypeInit DEF FileInv
<1> QED BY <1>1, <1>2, FileStep, PTL DEF Spec

-----------------------------------------------------------------------------
(* While calls of open_db neither overlap nor are cut off: where the rows  *)
(* are, and what the one call in progress has seen to, statement by        *)
(* statement.                                                              *)
Alone == \A p, q \in Procs : Opening(p) /\ Opening(q) => p = q

Rebuilding(p) == conn[p].pc \in {"create", "copy"}

RowsIn(t) == \A r \in committed : r \in t.rows /\ was[r] = is[r] /\ is[r] \subseteq t.cols

Due == Main.notNull \/ "process_type" \notin Main.cols

InPlace ==
    /\ ~Legacy.exists /\ RowsIn(Main)
    /\ Due => "owner_user" \notin Main.cols

Settled == Main.exists /\ Columns \subseteq Main.cols /\ ~Main.notNull

Earlier(c) == CASE c = "run_id"       -> {}
                [] c = "process_name" -> {"run_id"}
                [] c = "process_type" -> {"run_id", "process_name"}
                [] c = "owner_user"   -> Copied

Before(p) == conn[p].pc \in {"closed", "schemaTable", "schemaIndex", "read"} =>
                conn[p].col = "run_id"

Ensuring(p) ==
    conn[p].pc \in {"look", "add"} =>
        /\ Main.exists /\ Earlier(conn[p].col) \subseteq Main.cols
        /\ conn[p].col # "run_id" => ~Due
        /\ conn[p].pc = "add" => conn[p].col \notin Main.cols

Deciding(p) ==
    /\ conn[p].pc = "schemaIndex" => Main.exists
    /\ conn[p].pc = "read" => Main.exists /\ "run_id" \in Main.cols
    /\ conn[p].pc \in {"dropIndex", "rename"} =>
         Main.exists /\ Due /\ conn[p].read = Main
    /\ conn[p].pc = "rename" => index = "none"

Moving(p) ==
    /\ Rebuilding(p) =>
         /\ Legacy.exists /\ conn[p].read = Legacy /\ RowsIn(Legacy)
         /\ "owner_user" \notin Legacy.cols /\ index = "none"
    /\ conn[p].pc = "create" => ~Main.exists
    /\ conn[p].pc = "copy" => Main = Table(Copied, FALSE, {})

Phase(p) == /\ Before(p) /\ Ensuring(p) /\ Deciding(p) /\ Moving(p)
            /\ conn[p].pc = "open" => Settled

CleanInv ==
    clean => /\ Alone /\ ~broken
             /\ (\A p \in Procs : ~Rebuilding(p)) => InPlace
             /\ \A p \in Procs : Phase(p)

LEMMA CleanFacts ==
    ASSUME CleanInv, clean, NEW p \in Procs
    PROVE  /\ Phase(p) /\ ~broken
           /\ Opening(p) => \A q \in Procs : q # p => ~Opening(q) /\ ~Rebuilding(q)
           /\ Opening(p) /\ ~Rebuilding(p) => InPlace
<1>1. Alone /\ ~broken /\ (\A q \in Procs : Phase(q))
      /\ ((\A q \in Procs : ~Rebuilding(q)) => InPlace)
  BY DEF CleanInv
<1>2. \A q \in Procs : Rebuilding(q) => Opening(q)
  BY DEF Rebuilding, Opening
<1> QED BY <1>1, <1>2 DEF Alone

(* A step of the one call in progress: what it has to establish.           *)
LEMMA CleanStep ==
    ASSUME CleanInv, clean, NEW p \in Procs, Opening(p), broken' = broken,
           \A q \in Procs : q # p => conn'[q] = conn[q],
           Settled => Settled', Phase(p)', ~Rebuilding(p)' => InPlace'
    PROVE  CleanInv'
<1>1. \A q \in Procs : q # p => ~Opening(q) /\ Phase(q)
  BY CleanFacts
<1>2. ASSUME NEW q \in Procs, q # p PROVE ~Opening(q)' /\ ~Rebuilding(q)' /\ Phase(q)'
  <2>1. conn'[q] = conn[q] /\ conn[q].pc \in {"closed", "open"}
    BY <1>1, <1>2 DEF Opening
  <2>2. conn[q].pc = "closed" => conn[q].col = "run_id"
    BY <1>1, <1>2 DEF Phase, Before
  <2>3. conn[q].pc = "open" => Settled
    BY <1>1, <1>2 DEF Phase
  <2>4. ~Opening(q)' /\ ~Rebuilding(q)'
    BY <2>1 DEF Opening, Rebuilding
  <2>5. Before(q)' /\ Ensuring(q)' /\ Deciding(q)' /\ Moving(q)'
    BY <2>1, <2>2 DEF Before, Ensuring, Deciding, Moving, Rebuilding
  <2>6. (conn[q].pc = "open" => Settled)'
    BY <2>1, <2>3
  <2> QED BY <2>4, <2>5, <2>6 DEF Phase
<1>3. Alone'
  BY <1>2 DEF Alone
<1>4. ~broken'
  BY CleanFacts
<1>5. (\A q \in Procs : ~Rebuilding(q))' => InPlace'
  OBVIOUS
<1>6. \A q \in Procs : Phase(q)'
  BY <1>2
<1> QED BY <1>3, <1>4, <1>5, <1>6 DEF CleanInv

(* A step that leaves the tables, and the index unless it is named.        *)
LEMMA SameTables ==
    ASSUME UNCHANGED tables, UNCHANGED content
    PROVE  /\ Settled' = Settled /\ InPlace' = InPlace /\ Due' = Due
           /\ Main' = Main /\ Legacy' = Legacy
<1>1. Main' = Main /\ Legacy' = Legacy
  BY DEF Main, Legacy
<1>2. committed' = committed /\ was' = was /\ is' = is
  BY DEF content
<1> QED BY <1>1, <1>2 DEF Settled, InPlace, Due, RowsIn

LEMMA SamePhase ==
    ASSUME UNCHANGED tables, UNCHANGED content, index' = index, NEW q \in Procs,
           conn'[q] = conn[q], Phase(q)
    PROVE  Phase(q)'
<1>1. /\ Settled' = Settled /\ Due' = Due /\ Main' = Main /\ Legacy' = Legacy
  BY SameTables
<1>2. Before(q)'
  BY DEF Phase, Before
<1>3. Ensuring(q)'
  BY <1>1 DEF Phase, Ensuring
<1>4. Deciding(q)'
  BY <1>1 DEF Phase, Deciding
<1>5. Moving(q)'
  <2>1. Rebuilding(q)' = Rebuilding(q)
    BY DEF Rebuilding
  <2>2. RowsIn(Legacy)' = RowsIn(Legacy)
    BY <1>1 DEF RowsIn, content
  <2> QED BY <1>1, <2>1, <2>2 DEF Phase, Moving
<1>6. (conn[q].pc = "open" => Settled)'
  BY <1>1 DEF Phase
<1> QED BY <1>2, <1>3, <1>4, <1>5, <1>6 DEF Phase

LEMMA CleanOpen ==
    ASSUME TypeOK, CleanInv, NEW p \in Procs, Open(p), clean'
    PROVE  CleanInv'
<1>1. clean /\ (\A q \in Procs : ~Opening(q)) /\ broken' = broken /\ At(p, "closed")
  BY Zenon DEF Open
<1>2. UNCHANGED tables /\ UNCHANGED content /\ UNCHANGED index
  BY DEF Open
<1>3. /\ conn'[p].pc = "schemaTable" /\ conn'[p].col = conn[p].col
      /\ \A q \in Procs : q # p => conn'[q] = conn[q]
  BY ConnEffect DEF Open, TypeOK, Pcs
<1>4. \A q \in Procs : ~Rebuilding(q) /\ ~Rebuilding(q)'
  BY <1>1, <1>3 DEF Rebuilding, Opening
<1>5. InPlace /\ ~broken /\ \A q \in Procs : Phase(q)
  BY <1>1, <1>4 DEF CleanInv
<1>6. Phase(p)'
  BY <1>1, <1>3, <1>5 DEF Phase, Before, Ensuring, Deciding, Moving, Rebuilding, At
<1>7. ASSUME NEW q \in Procs, q # p PROVE Phase(q)' /\ ~Opening(q)'
  BY <1>1, <1>2, <1>3, <1>5, <1>7, SamePhase DEF Opening
<1>8. Alone'
  BY <1>7 DEF Alone
<1> QED BY <1>1, <1>2, <1>5, <1>6, <1>7, <1>8, SameTables DEF CleanInv

(* A connection that is not opening goes.                                  *)
LEMMA CleanLeave ==
    ASSUME TypeOK, CleanInv, NEW p \in Procs, Die(p) \/ Close(p), clean'
    PROVE  CleanInv'
<1>1. clean /\ ~Opening(p) /\ broken' = broken
  <2>1. CASE Die(p)
    BY <2>1, Zenon DEF Die
  <2>2. CASE Close(p)
    BY <2>2 DEF Close, Quiet, At, Opening
  <2> QED BY <2>1, <2>2
<1>2. UNCHANGED tables /\ UNCHANGED content /\ UNCHANGED index /\ Raise(p)
  BY DEF Die, Close, Quiet
<1>3. /\ conn'[p].pc = "closed" /\ conn'[p].col = "run_id"
      /\ \A q \in Procs : q # p => conn'[q] = conn[q]
  BY <1>2, ConnEffect DEF TypeOK
<1>4. ~Rebuilding(p) /\ ~Rebuilding(p)' /\ ~Opening(p)'
  BY <1>1, <1>3 DEF Rebuilding, Opening
<1>5. Alone /\ ~broken /\ ((\A q \in Procs : ~Rebuilding(q)) => InPlace)
      /\ \A q \in Procs : Phase(q)
  BY <1>1 DEF CleanInv
<1>6. Phase(p)'
  BY <1>3 DEF Phase, Before, Ensuring, Deciding, Moving, Rebuilding
<1>7. ASSUME NEW q \in Procs, q # p
      PROVE  Phase(q)' /\ Opening(q)' = Opening(q) /\ Rebuilding(q)' = Rebuilding(q)
  <2>1. conn'[q] = conn[q] /\ Phase(q)
    BY <1>3, <1>5, <1>7
  <2>2. Phase(q)'
    BY <1>2, <2>1, SamePhase
  <2> QED BY <2>1, <2>2 DEF Opening, Rebuilding
<1>8. Alone'
  BY <1>4, <1>5, <1>7 DEF Alone
<1>9. (\A q \in Procs : ~Rebuilding(q))' => InPlace'
  BY <1>2, <1>4, <1>5, <1>7, SameTables
<1> QED BY <1>1, <1>5, <1>6, <1>7, <1>8, <1>9 DEF CleanInv

LEMMA CleanSchema ==
    ASSUME TypeOK, NoGhostRows, CleanInv, clean, NEW p \in Procs,
           SchemaTable(p) \/ SchemaIndex(p)
    PROVE  CleanInv'
<1>1. conn[p].pc \in {"schemaTable", "schemaIndex"} /\ UNCHANGED content
      /\ broken' = broken
  BY DEF SchemaTable, SchemaIndex, Quiet, At
<1>2. Opening(p) /\ Phase(p) /\ InPlace /\ conn[p].col = "run_id"
  BY <1>1, CleanFacts DEF Opening, Rebuilding, Phase, Before
<1>3. CASE SchemaTable(p)
  <2>1. /\ conn'[p].pc = "schemaIndex" /\ conn'[p].col = "run_id"
        /\ \A q \in Procs : q # p => conn'[q] = conn[q]
    BY <1>2, <1>3, ConnEffect DEF SchemaTable, TypeOK, Pcs
  <2>2. CASE Main.exists
    <3>0. UNCHANGED tables
      BY <1>3, <2>2 DEF SchemaTable
    <3>1. Phase(p)' /\ InPlace' /\ (Settled => Settled')
      BY <1>1, <1>2, <2>1, <2>2, <3>0, SameTables
         DEF Phase, Before, Ensuring, Deciding, Moving, Rebuilding
    <3> QED BY <1>1, <1>2, <2>1, <3>1, CleanStep
  <2>3. CASE ~Main.exists
    <3>0. Main' = Table(Columns, FALSE, {}) /\ Legacy' = Legacy
      BY <1>3, <2>3 DEF SchemaTable, Main, Legacy, TypeOK, Tables
    <3>1. Main.rows = {}
      BY <2>3 DEF NoGhostRows, Main, Tables
    <3>2. committed' = {}
      BY <1>1, <1>2, <3>1 DEF InPlace, RowsIn, content
    <3>3. InPlace' /\ Main'.exists /\ (Settled => Settled')
      BY <1>2, <2>3, <3>0, <3>2 DEF InPlace, RowsIn, Settled, Due, Table, Columns
    <3>4. Phase(p)'
      BY <2>1, <3>3 DEF Phase, Before, Ensuring, Deciding, Moving, Rebuilding
    <3> QED BY <1>1, <1>2, <2>1, <3>3, <3>4, CleanStep
  <2> QED BY <2>2, <2>3
<1>4. CASE SchemaIndex(p)
  <2>0. conn[p].pc = "schemaIndex"
    BY <1>4 DEF SchemaIndex, At
  <2>1. Main.exists
    BY <1>2, <2>0 DEF Phase, Deciding
  <2>2. /\ conn'[p].pc = "look" /\ conn'[p].col = "run_id"
        /\ \A q \in Procs : q # p => conn'[q] = conn[q]
    BY <1>2, <1>4, <2>1, ConnEffect DEF SchemaIndex, TypeOK, Pcs
  <2>3. UNCHANGED tables
    BY <1>4 DEF SchemaIndex
  <2>4. Phase(p)' /\ InPlace' /\ (Settled => Settled')
    BY <1>1, <1>2, <2>1, <2>2, <2>3, SameTables
       DEF Phase, Before, Ensuring, Earlier, Deciding, Moving, Rebuilding
  <2> QED BY <1>1, <1>2, <2>2, <2>4, CleanStep
<1> QED BY <1>3, <1>4

LEMMA CleanEnsure ==
    ASSUME TypeOK, CleanInv, clean, NEW p \in Procs, Look(p) \/ Add(p)
    PROVE  CleanInv'
<1> DEFINE c == conn[p].col
<1>1. conn[p].pc \in {"look", "add"} /\ UNCHANGED content /\ broken' = broken
  BY DEF Look, Add, Quiet, At
<1>2. Opening(p) /\ Phase(p) /\ InPlace /\ c \in Columns
  BY <1>1, CleanFacts DEF Opening, Rebuilding, TypeOK, ConnType
<1>3. /\ Main.exists /\ Earlier(c) \subseteq Main.cols
      /\ c # "run_id" => ~Due
      /\ conn[p].pc = "add" => c \notin Main.cols
  BY <1>1, <1>2 DEF Phase, Ensuring
<1>4. Main \in TableType
  BY DEF TypeOK, Main, Tables
<1>5. ASSUME Ensured(p), Main'.exists, Legacy' = Legacy, Main'.notNull = Main.notNull,
             Main'.cols = Main.cols \cup {c}, Main'.rows = Main.rows
      PROVE  CleanInv'
  <2>1. \A q \in Procs : q # p => conn'[q] = conn[q]
    BY <1>5, ConnEffect DEF TypeOK
  <2>2. /\ committed' = committed /\ was' = was /\ is' = is
    BY <1>1 DEF content
  <2>3. Due' => Due
    BY <1>5 DEF Due
  <2>4. InPlace'
    <3>1. ~Legacy'.exists /\ RowsIn(Main)'
      BY <1>2, <1>5, <2>2 DEF InPlace, RowsIn
    <3>2. Due' => "owner_user" \notin Main'.cols
      BY <1>2, <1>3, <1>5, <2>3 DEF InPlace
    <3> QED BY <3>1, <3>2 DEF InPlace
  <2>5. Settled => Settled'
    BY <1>5 DEF Settled
  <2>6. Phase(p)'
    <3>1. CASE c = "run_id"
      <4>1. conn'[p].pc = "read" /\ conn'[p].col = "run_id"
        BY <1>5, <3>1, ConnEffect DEF TypeOK
      <4> QED BY <1>5, <3>1, <4>1 DEF Phase, Before, Ensuring, Deciding, Moving, Rebuilding
    <3>2. CASE c = "process_name"
      <4>1. conn'[p].pc = "look" /\ conn'[p].col = "process_type"
        BY <1>5, <3>2, ConnEffect DEF TypeOK
      <4> QED BY <1>3, <1>5, <2>3, <3>2, <4>1
              DEF Phase, Before, Ensuring, Earlier, Deciding, Moving, Rebuilding
    <3>3. CASE c = "process_type"
      <4>1. conn'[p].pc = "look" /\ conn'[p].col = "owner_user"
        BY <1>5, <3>3, ConnEffect DEF TypeOK
      <4> QED BY <1>3, <1>5, <2>3, <3>3, <4>1
              DEF Phase, Before, Ensuring, Earlier, Deciding, Moving, Rebuilding, Copied, Columns
    <3>4. CASE c = "owner_user"
      <4>1. conn'[p].pc = "open"
        BY <1>5, <3>4, ConnEffect DEF TypeOK
      <4>2. Settled'
        BY <1>3, <1>5, <2>3, <3>4 DEF Settled, Earlier, Due, Copied
      <4> QED BY <4>1, <4>2 DEF Phase, Before, Ensuring, Deciding, Moving, Rebuilding
    <3> QED BY <1>2, <3>1, <3>2, <3>3, <3>4 DEF Columns
  <2> QED BY <1>1, <1>2, <2>1, <2>4, <2>5, <2>6, CleanStep
<1>6. CASE Look(p) /\ c \in Main.cols
  <2>1. Ensured(p) /\ UNCHANGED tables
    BY <1>6 DEF Look
  <2>2. Main' = Main /\ Legacy' = Legacy
    BY <1>1, <2>1, SameTables
  <2>3. Main.cols = Main.cols \cup {c}
    BY <1>6
  <2> QED BY <1>3, <1>5, <2>1, <2>2, <2>3
<1>7. CASE Look(p) /\ c \notin Main.cols
  <2>1. /\ conn'[p].pc = "add" /\ conn'[p].col = c
        /\ \A q \in Procs : q # p => conn'[q] = conn[q]
    BY <1>7, ConnEffect DEF Look, TypeOK, Pcs
  <2>2. UNCHANGED tables
    BY <1>7 DEF Look
  <2>3. Phase(p)' /\ InPlace' /\ (Settled => Settled')
    BY <1>1, <1>2, <1>3, <1>7, <2>1, <2>2, SameTables
       DEF Phase, Before, Ensuring, Deciding, Moving, Rebuilding
  <2> QED BY <1>1, <1>2, <2>1, <2>3, CleanStep
<1>8. CASE Add(p)
  <2>1. c \notin Main.cols
    BY <1>3, <1>8 DEF Add, At
  <2>2. Ensured(p) /\ tables' = [tables EXCEPT !["proc_sample"].cols = @ \cup {c}]
    BY <1>3, <1>8, <2>1 DEF Add
  <2>3. Main' = [Main EXCEPT !.cols = @ \cup {c}] /\ Legacy' = Legacy
    BY <2>2 DEF Main, Legacy, TypeOK, Tables
  <2> QED BY <1>3, <1>4, <1>5, <2>2, <2>3 DEF TableType
<1> QED BY <1>6, <1>7, <1>8

LEMMA CleanDecide ==
    ASSUME TypeOK, CleanInv, clean, NEW p \in Procs, ReadColumns(p) \/ DropIndex(p)
    PROVE  CleanInv'
<1>1. /\ conn[p].pc \in {"read", "dropIndex"} /\ UNCHANGED content
      /\ broken' = broken /\ UNCHANGED tables
  BY DEF ReadColumns, DropIndex, Quiet, At
<1>2. Opening(p) /\ Phase(p) /\ InPlace
  BY <1>1, CleanFacts DEF Opening, Rebuilding
<1>3. InPlace' /\ (Settled => Settled') /\ Main' = Main /\ Due' = Due
  BY <1>1, <1>2, SameTables
<1>4. CASE ReadColumns(p)
  <2>1. Main.exists /\ "run_id" \in Main.cols /\ conn[p].col = "run_id"
    BY <1>2, <1>4, ReadEffect DEF Phase, Deciding, Before
  <2>2. \A q \in Procs : q # p => conn'[q] = conn[q]
    BY <1>4, ReadEffect
  <2>3. CASE Due
    <3>1. conn'[p].pc = "dropIndex" /\ conn'[p].read = Main
      BY <1>4, <2>1, <2>3, ReadEffect DEF RebuildDue, Due
    <3>2. Phase(p)'
      BY <1>3, <2>1, <2>3, <3>1 DEF Phase, Before, Ensuring, Deciding, Moving, Rebuilding
    <3> QED BY <1>1, <1>2, <1>3, <2>2, <3>2, CleanStep
  <2>4. CASE ~Due
    <3>1. conn'[p].pc = "look" /\ conn'[p].col = "process_name"
      BY <1>4, <2>1, <2>4, ReadEffect DEF RebuildDue, Due
    <3>2. Phase(p)'
      BY <1>3, <2>1, <2>4, <3>1
         DEF Phase, Before, Ensuring, Earlier, Deciding, Moving, Rebuilding
    <3> QED BY <1>1, <1>2, <1>3, <2>2, <3>2, CleanStep
  <2> QED BY <2>3, <2>4
<1>5. CASE DropIndex(p)
  <2>1. /\ conn'[p].pc = "rename" /\ conn'[p].read = conn[p].read /\ index' = "none"
        /\ \A q \in Procs : q # p => conn'[q] = conn[q]
    BY <1>5, ConnEffect DEF DropIndex, TypeOK, Pcs
  <2>2. Main.exists /\ Due /\ conn[p].read = Main
    BY <1>2, <1>5 DEF Phase, Deciding, DropIndex, At
  <2>3. Phase(p)'
    BY <1>3, <2>1, <2>2 DEF Phase, Before, Ensuring, Deciding, Moving, Rebuilding
  <2> QED BY <1>1, <1>2, <1>3, <2>1, <2>3, CleanStep
<1> QED BY <1>4, <1>5

LEMMA CleanRename ==
    ASSUME TypeOK, CleanInv, clean, NEW p \in Procs, Rename(p)
    PROVE  CleanInv'
<1>1. conn[p].pc = "rename" /\ UNCHANGED content /\ broken' = broken
  BY DEF Rename, Quiet, At
<1>2. Opening(p) /\ Phase(p) /\ InPlace
  BY <1>1, CleanFacts DEF Opening, Rebuilding
<1>3. Main.exists /\ Due /\ conn[p].read = Main /\ index = "none"
  BY <1>1, <1>2 DEF Phase, Deciding
<1>4. ~Legacy.exists /\ RowsIn(Main) /\ "owner_user" \notin Main.cols
  BY <1>2, <1>3 DEF InPlace
<1>5. Main' = Missing /\ Legacy' = Main /\ index' = "none" /\ Goto(p, "create")
  BY <1>3, <1>4 DEF Rename, Main, Legacy, TypeOK, Tables
<1>6. /\ conn'[p].pc = "create" /\ conn'[p].read = Main
      /\ \A q \in Procs : q # p => conn'[q] = conn[q]
  BY <1>3, <1>5, ConnEffect DEF TypeOK, Pcs
<1>7. RowsIn(Legacy)'
  BY <1>1, <1>4, <1>5 DEF RowsIn, content
<1>8. Phase(p)'
  BY <1>3, <1>4, <1>5, <1>6, <1>7, TableFacts
     DEF Phase, Before, Ensuring, Deciding, Moving, Rebuilding
<1>9. Rebuilding(p)' /\ ~Settled
  BY <1>3, <1>6 DEF Rebuilding, Settled, Due, Columns
<1> QED BY <1>1, <1>2, <1>6, <1>8, <1>9, CleanStep

LEMMA CleanCreate ==
    ASSUME TypeOK, CleanInv, clean, NEW p \in Procs, Create(p)
    PROVE  CleanInv'
<1>1. conn[p].pc = "create" /\ UNCHANGED content /\ broken' = broken /\ index' = index
  BY DEF Create, Quiet, At
<1>2. Opening(p) /\ Phase(p) /\ Rebuilding(p)
  BY <1>1, CleanFacts DEF Opening, Rebuilding
<1>3. /\ ~Main.exists /\ Legacy.exists /\ conn[p].read = Legacy /\ RowsIn(Legacy)
      /\ "owner_user" \notin Legacy.cols /\ index = "none"
  BY <1>1, <1>2 DEF Phase, Moving
<1>4. Main' = Table(Copied, FALSE, {}) /\ Legacy' = Legacy /\ Goto(p, "copy")
  BY <1>3 DEF Create, Main, Legacy, TypeOK, Tables
<1>5. /\ conn'[p].pc = "copy" /\ conn'[p].read = Legacy
      /\ \A q \in Procs : q # p => conn'[q] = conn[q]
  BY <1>3, <1>4, ConnEffect DEF TypeOK, Pcs
<1>6. RowsIn(Legacy)'
  BY <1>1, <1>3, <1>4 DEF RowsIn, content
<1>7. Phase(p)'
  BY <1>1, <1>3, <1>4, <1>5, <1>6 DEF Phase, Before, Ensuring, Deciding, Moving, Rebuilding
<1>8. Rebuilding(p)' /\ ~Settled
  BY <1>3, <1>5 DEF Rebuilding, Settled
<1> QED BY <1>1, <1>2, <1>5, <1>7, <1>8, CleanStep

LEMMA CleanCopy ==
    ASSUME TypeOK, CleanInv, clean, NEW p \in Procs, Copy(p)
    PROVE  CleanInv'
<1>1. conn[p].pc = "copy" /\ UNCHANGED <<committed, was>> /\ broken' = broken
  BY DEF Copy, At
<1>2. Opening(p) /\ Phase(p) /\ Rebuilding(p)
  BY <1>1, CleanFacts DEF Opening, Rebuilding
<1>3. /\ Legacy.exists /\ conn[p].read = Legacy /\ RowsIn(Legacy)
      /\ "owner_user" \notin Legacy.cols /\ index = "none"
      /\ Main = Table(Copied, FALSE, {})
  BY <1>1, <1>2 DEF Phase, Moving
<1>4. Main.exists /\ Main.cols = Copied /\ Main.rows = {} /\ ~Main.notNull
  BY <1>3 DEF Table
<1>5. Copyable(p)
  BY <1>3, <1>4 DEF Copyable
<1>6. /\ \A q \in Procs : q # p => conn'[q] = conn[q]
      /\ conn'[p].pc = "look" /\ conn'[p].col = "process_name"
  BY <1>5, CopyConn
<1>7. tables' = [tables EXCEPT !["proc_sample"].rows = @ \cup Legacy.rows,
                               !["proc_sample_legacy"] = Missing]
      /\ is' = [r \in Rows |-> IF r \in Legacy.rows
                               THEN is[r] \cap conn[p].read.cols \cap Copied ELSE is[r]]
  BY <1>5 DEF Copy
<1>8. Main' = [Main EXCEPT !.rows = @ \cup Legacy.rows] /\ Legacy' = Missing
  BY <1>7 DEF Main, Legacy, TypeOK, Tables
<1>9. /\ Main'.exists /\ Main'.cols = Copied /\ ~Main'.notNull /\ Main'.rows = Legacy.rows
      /\ ~Legacy'.exists
  BY <1>3, <1>4, <1>8, TableFacts DEF Table
<1>10. Legacy.cols \subseteq Copied
  <2>1. Legacy \in TableType
    BY DEF TypeOK, Legacy, Tables
  <2> QED BY <1>3, <2>1 DEF TableType, Copied
<1>11. ASSUME NEW r \in committed
       PROVE  r \in Main'.rows /\ was'[r] = is'[r] /\ is'[r] \subseteq Main'.cols
  <2>1. r \in Rows /\ r \in Legacy.rows /\ was[r] = is[r] /\ is[r] \subseteq Legacy.cols
    BY <1>3 DEF RowsIn, TypeOK
  <2>2. is'[r] = is[r] \cap Legacy.cols \cap Copied
    BY <1>3, <1>7, <2>1
  <2>3. is'[r] = is[r]
    BY <1>10, <2>1, <2>2
  <2> QED BY <1>1, <1>9, <1>10, <2>1, <2>3
<1>12. InPlace'
  <2>1. RowsIn(Main)'
    BY <1>1, <1>11 DEF RowsIn
  <2> QED BY <1>9, <2>1 DEF InPlace, Due, Copied, Columns
<1>13. Phase(p)'
  BY <1>6, <1>9
     DEF Phase, Before, Ensuring, Earlier, Deciding, Moving, Rebuilding, Due, Copied, Columns
<1>14. ~Settled
  BY <1>4 DEF Settled, Copied, Columns
<1> QED BY <1>1, <1>2, <1>6, <1>12, <1>13, <1>14, CleanStep

LEMMA CleanWrite ==
    ASSUME TypeOK, CleanInv, clean, NEW p \in Procs, NEW r \in NewRows, Write(p, r)
    PROVE  CleanInv'
<1>1. Settled
  BY CleanFacts DEF Write, At, Phase
<1>2. Main.exists /\ Columns \subseteq Main.cols
  BY <1>1 DEF Settled
<1>3. /\ tables' = [tables EXCEPT !["proc_sample"].rows = @ \cup {r}]
      /\ committed' = committed \cup {r}
      /\ was' = [was EXCEPT ![r] = Columns] /\ is' = [is EXCEPT ![r] = Columns]
      /\ broken' = broken /\ index' = index /\ conn' = conn
  BY <1>2 DEF Write
<1>4. Main' = [Main EXCEPT !.rows = @ \cup {r}] /\ Legacy' = Legacy
  BY <1>3 DEF Main, Legacy, TypeOK, Tables
<1>5. /\ Main'.exists = Main.exists /\ Main'.cols = Main.cols
      /\ Main'.notNull = Main.notNull /\ Main'.rows = Main.rows \cup {r}
  <2>1. Main \in TableType
    BY DEF TypeOK, Main, Tables
  <2> QED BY <1>4, <2>1 DEF TableType
<1>6. ~Due /\ Due' = Due /\ Settled'
  BY <1>1, <1>5 DEF Settled, Due, Columns
<1>7. ASSUME NEW q \in Procs PROVE ~Rebuilding(q) /\ Phase(q)
  <2>1. Phase(q)
    BY CleanFacts
  <2>2. conn[q].pc # "create"
    BY <1>2, <2>1 DEF Phase, Moving
  <2>3. conn[q].pc # "copy"
    BY <1>2, <2>1 DEF Phase, Moving, Table, Copied, Columns
  <2> QED BY <2>1, <2>2, <2>3 DEF Rebuilding
<1>8. InPlace
  BY <1>7 DEF CleanInv
<1>9. ASSUME NEW s \in committed'
      PROVE  s \in Main'.rows /\ was'[s] = is'[s] /\ is'[s] \subseteq Main'.cols
  <2>1. CASE s = r
    BY <1>2, <1>3, <1>5, <2>1 DEF TypeOK, Rows
  <2>2. CASE s # r
    <3>1. s \in Main.rows /\ was[s] = is[s] /\ is[s] \subseteq Main.cols /\ s \in Rows
      BY <1>3, <1>8, <1>9, <2>2 DEF InPlace, RowsIn, TypeOK
    <3>2. was'[s] = was[s] /\ is'[s] = is[s]
      BY <1>3, <2>2, <3>1 DEF TypeOK
    <3> QED BY <1>5, <3>1, <3>2
  <2> QED BY <2>1, <2>2
<1>10. InPlace'
  <2>1. RowsIn(Main)'
    BY <1>9 DEF RowsIn
  <2> QED BY <1>4, <1>6, <1>8, <2>1 DEF InPlace
<1>11. ASSUME NEW q \in Procs PROVE Phase(q)'
  <2>1. conn'[q] = conn[q] /\ ~Rebuilding(q)' /\ Phase(q) /\ ~Rebuilding(q)
    BY <1>3, <1>7 DEF Rebuilding
  <2>2. Before(q)' /\ Ensuring(q)'
    BY <1>5, <1>6, <2>1 DEF Phase, Before, Ensuring
  <2>3. Deciding(q)'
    BY <1>5, <1>6, <2>1 DEF Phase, Deciding
  <2>4. Moving(q)'
    BY <2>1 DEF Moving, Rebuilding
  <2> QED BY <1>6, <2>2, <2>3, <2>4 DEF Phase
<1>12. Alone' /\ ~broken'
  <2>1. Alone /\ ~broken
    BY DEF CleanInv
  <2> QED BY <1>3, <2>1 DEF Alone, Opening
<1> QED BY <1>10, <1>11, <1>12 DEF CleanInv

LEMMA CleanInit == Init => CleanInv
<1> SUFFICES ASSUME Init PROVE CleanInv
    OBVIOUS
<1>1. PICK t \in Released :
        /\ tables = [n \in Tables |-> IF n = "proc_sample" THEN t ELSE Missing]
        /\ committed = t.rows
        /\ was = [r \in Rows |-> t.cols]
  BY DEF Init
<1>2. Main = t /\ Legacy = Missing /\ is = was /\ broken = FALSE
  BY <1>1 DEF Main, Legacy, Tables, Init
<1>3. \A p \in Procs : conn[p].pc = "closed" /\ conn[p].col = "run_id"
  BY DEF Init, Closed
<1>4. Alone /\ \A p \in Procs : Phase(p)
  BY <1>3 DEF Alone, Opening, Phase, Before, Ensuring, Deciding, Moving, Rebuilding
<1>5. RowsIn(t)
  BY <1>1, <1>2, ReleasedFacts DEF RowsIn, TableType
<1>6. "owner_user" \notin t.cols
  BY DEF Released, Missing, Table, Copied
<1> QED BY <1>2, <1>4, <1>5, <1>6, TableFacts DEF CleanInv, InPlace

UpgradeInv == FileInv /\ CleanInv

LEMMA UpgradeStep == UpgradeInv /\ [Next]_vars => UpgradeInv'
<1> SUFFICES ASSUME UpgradeInv, [Next]_vars PROVE CleanInv'
    BY FileStep DEF UpgradeInv
<1>1. TypeOK /\ NoGhostRows /\ CleanInv
  BY DEF UpgradeInv, FileInv
<1>2. CASE ~clean'
  BY <1>2 DEF CleanInv
<1>3. CASE clean' /\ UNCHANGED vars
  <2>1. \A q \in Procs : Phase(q) => Phase(q)'
    BY <1>3, SamePhase DEF vars, content
  <2>2. InPlace' = InPlace
    BY <1>3, SameTables DEF vars, content
  <2>3. clean /\ clean' /\ Alone' = Alone /\ broken' = broken
    BY <1>3 DEF vars, Alone, Opening
  <2>4. (\A q \in Procs : ~Rebuilding(q))' = (\A q \in Procs : ~Rebuilding(q))
    BY <1>3 DEF vars, Rebuilding
  <2> QED BY <1>1, <2>1, <2>2, <2>3, <2>4 DEF CleanInv
<1>4. ASSUME clean', NEW p \in Procs, Open(p) \/ Die(p) \/ Close(p) PROVE CleanInv'
  BY <1>1, <1>4, CleanOpen, CleanLeave
<1>5. ASSUME clean', NEW p \in Procs,
             \/ SchemaTable(p) \/ SchemaIndex(p) \/ Look(p) \/ Add(p) \/ ReadColumns(p)
             \/ DropIndex(p) \/ Rename(p) \/ Create(p) \/ Copy(p)
             \/ \E r \in NewRows : Write(p, r)
      PROVE  CleanInv'
  <2>1. clean
    BY <1>5 DEF SchemaTable, SchemaIndex, Look, Add, ReadColumns, DropIndex, Rename,
                Create, Copy, Write, Quiet
  <2> QED BY <1>1, <1>5, <2>1, CleanSchema, CleanEnsure, CleanDecide, CleanRename,
             CleanCreate, CleanCopy, CleanWrite
<1> QED BY <1>2, <1>3, <1>4, <1>5 DEF Next

(* A database of any version comes out of open_db with every row in place  *)
(* and every value in it, as often as it is opened, as long as calls       *)
(* neither overlap nor are cut off.                                        *)
THEOREM UpgradesAreLossless == Spec => []UpgradeKeepsRows
<1>1. Init => UpgradeInv
  BY TypeInit, CleanInit DEF UpgradeInv, FileInv
<1>2. UpgradeInv => UpgradeKeepsRows
  <2> SUFFICES ASSUME UpgradeInv, clean, \A p \in Procs : ~Opening(p) PROVE Intact
      BY DEF UpgradeKeepsRows
  <2>1. \A p \in Procs : ~Rebuilding(p)
    BY DEF Opening, Rebuilding
  <2> QED BY <2>1 DEF UpgradeInv, CleanInv, InPlace, RowsIn, Intact
<1> QED BY <1>1, <1>2, UpgradeStep, PTL DEF Spec

(* Under the same conditions every connection that open_db has returned    *)
(* can write, a rebuild by another call included.                          *)
THEOREM OpenConnectionsWrite == Spec => []OpenedWrites
<1>1. Init => UpgradeInv
  BY TypeInit, CleanInit DEF UpgradeInv, FileInv
<1>2. UpgradeInv => OpenedWrites
  BY DEF UpgradeInv, CleanInv, OpenedWrites
<1> QED BY <1>1, <1>2, UpgradeStep, PTL DEF Spec

=============================================================================
