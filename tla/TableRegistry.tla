--------------------------- MODULE TableRegistry ---------------------------
(***************************************************************************)
(* What CLogParser remembers of the tables it watches: the two maps        *)
(* _id_2_table and _table_2_id, and of each watched CTable what its last   *)
(* tune() and update() left in it.  The operators are the parts of         *)
(* dispatch_events() and of CTable that change this state.                 *)
(*                                                                         *)
(* The content of a row is abstracted to the position of the event it was  *)
(* decoded from, and the column layout of a table to the number of the     *)
(* definition (ver) the TABLE_MAP event described.                         *)
(***************************************************************************)
EXTENDS Positions, Naturals

CONSTANTS
    Watched,      \* the tables given to watch()
    NameOf        \* table -> its name, without its database

VARIABLES
    id_2_table,   \* _id_2_table: a function from some table ids to Watched
    table_2_id,   \* _table_2_id: a function from some table names to ids
    tables        \* the CTable objects

registryVars == <<id_2_table, table_2_id, tables>>

\* f with x mapped to v, whether x was in its domain or not (map[x] = v).
Put(f, x, v) == [y \in DOMAIN f \union {x} |-> IF y = x THEN v ELSE f[y]]

RegistryInit ==
    /\ id_2_table = << >>
    /\ table_2_id = << >>
    /\ tables = [t \in Watched |->
                   [tuned |-> FALSE, id |-> 0, ver |-> 0,
                    rows |-> NoPos, newRows |-> NoPos]]

-----------------------------------------------------------------------------
(* TABLE_MAP *)

\* The name is registered with another id than e's.
IdChanged(e) ==
    /\ NameOf[e.table] \in DOMAIN table_2_id
    /\ table_2_id[NameOf[e.table]] # e.id

\* set_tuned(false) when the id has changed.
Renewed(tbl, e) ==
    IF IdChanged(e) THEN [tbl EXCEPT !.tuned = FALSE] ELSE tbl

\* CTable::tune: a table that is tuned keeps the layout it has.
Tune(tbl, e) ==
    IF tbl.tuned THEN tbl
    ELSE [tbl EXCEPT !.tuned = TRUE, !.id = e.id, !.ver = e.ver]

\* Mutation: the old layout is not forgotten when the id changes.
TableMap_KeepsLayout(e) ==
    IF e.table \in Watched
    THEN /\ id_2_table' = Put(id_2_table, e.id, e.table)
         /\ table_2_id' = Put(table_2_id, NameOf[e.table], e.id)
         /\ tables' = [tables EXCEPT ![e.table] = Tune(@, e)]
    ELSE UNCHANGED registryVars

\* Mutation: the id is registered only with the first TABLE_MAP of a table.
TableMap_RegistersOnce(e) ==
    IF e.table \in Watched /\ ~tables[e.table].tuned
    THEN /\ id_2_table' = Put(id_2_table, e.id, e.table)
         /\ table_2_id' = Put(table_2_id, NameOf[e.table], e.id)
         /\ tables' = [tables EXCEPT ![e.table] = Tune(@, e)]
    ELSE UNCHANGED registryVars

\* Mutation: whether the table is a watched one is not looked at.
TableMap_Unfiltered(e) ==
    /\ id_2_table' = Put(id_2_table, e.id, e.table)
    /\ table_2_id' = Put(table_2_id, NameOf[e.table], e.id)
    /\ tables' = [tables EXCEPT ![e.table] = Tune(Renewed(@, e), e)]

\* case TABLE_MAP_EVENT of dispatch_events().
TableMap(e) ==
    IF e.table \in Watched
    THEN /\ id_2_table' = Put(id_2_table, e.id, e.table)
         /\ table_2_id' = Put(table_2_id, NameOf[e.table], e.id)
         /\ tables' = [tables EXCEPT ![e.table] = Tune(Renewed(@, e), e)]
    ELSE UNCHANGED registryVars

-----------------------------------------------------------------------------
(* ROWS *)

\* CTable::update: the rows of an event for another id are refused, and what
\* the previous event left stays.  The caller ignores the refusal.
Update(tbl, e, at) ==
    IF tbl.id # e.id THEN tbl
    ELSE [tbl EXCEPT !.rows = at,
                     !.newRows = IF e.kind = "UPDATE" THEN at ELSE NoPos]

KnownId(e) == e.id \in DOMAIN id_2_table

=============================================================================
