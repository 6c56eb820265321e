------------------------------- MODULE Binlog -------------------------------
(***************************************************************************)
(* The binary log of the master, as far as the library depends on it.      *)
(*                                                                         *)
(* The master is external to the library: this module says what            *)
(* CLogParser::dispatch_events() (src/src/mysqlslave/logparser.cpp) may    *)
(* find in the stream, and nothing more.  A log is a sequence of files, a  *)
(* file is a sequence of events, and a position is a pair <<f, k>>: the    *)
(* k-th event of file f.  The event at <<f, k>> carries the log_pos k + 1, *)
(* position 1 being the one behind the magic number; no event has log_pos  *)
(* 0.  Format description events are not stored: the dump thread sends one *)
(* in front of each file, see Replication.                                 *)
(*                                                                         *)
(* A statement writes a TABLE_MAP event for each table it changes, then    *)
(* ROWS events that name their table only by its table id.  A table id     *)
(* stands for one open share of one definition of a table; a table that is *)
(* closed and opened again gets a new id, and DDL always does that.  Ids   *)
(* count from 1 in the life of a server process: a restart begins again.   *)
(***************************************************************************)
EXTENDS Positions, Naturals, Sequences, FiniteSets, FiniteSetsExt

CONSTANTS
    Tables,      \* the tables of the master, each one a database and a name
    NoTable,     \* the table of an event that has none
    Kinds,       \* the row events that occur: WRITE, UPDATE, DELETE
    MasterMay,   \* what the master does besides transactions of row events
    MaxEvents,   \* bound: events in the whole log
    MaxFiles,    \* bound: binlog files
    MaxIds       \* bound: table ids given out in one life of the server

ASSUME TablesAssumption == NoTable \notin Tables
ASSUME KindsAssumption == Kinds \subseteq {"WRITE", "UPDATE", "DELETE"}
ASSUME MasterMayAssumption ==
    MasterMay \subseteq {"savepoint", "alter", "rotate", "unsupported",
                        "longquery"}
ASSUME BinlogBoundsAssumption ==
    MaxEvents \in Nat /\ MaxFiles \in Nat /\ MaxIds \in Nat

VARIABLES
    files,       \* the binlog: a sequence of files, each a sequence of events
    table_ids,   \* id -> the table and the definition it stands for
    schema,      \* table -> number of its current definition
    in_txn,      \* a transaction is being written
    mapped       \* table -> its id in the current statement, 0 when it has none

binlogVars == <<files, table_ids, schema, in_txn, mapped>>

\* A LONG_QUERY is a QUERY event with more status variables than
\* CQueryLogEvent::tune() accepts, see EventFormat.
EventTypes == {"QUERY", "LONG_QUERY", "TABLE_MAP", "ROWS", "XID", "STOP",
               "ROTATE", "FDE", "UNSUPPORTED"}

Queries == {"QUERY"} \cup (IF "longquery" \in MasterMay THEN {"LONG_QUERY"}
                          ELSE {})

Event == {e \in [type  : EventTypes,
                 table : Tables \union {NoTable},
                 id    : Nat,
                 ver   : Nat,
                 kind  : {"WRITE", "UPDATE", "DELETE", "NONE"}] :
            (e.type = "ROWS") = (e.kind # "NONE")}

\* An event that concerns no table.
Plain(type) ==
    [type |-> type, table |-> NoTable, id |-> 0, ver |-> 0, kind |-> "NONE"]

TableMapEvent(t, i) ==
    [type |-> "TABLE_MAP", table |-> t, id |-> i, ver |-> schema[t],
     kind |-> "NONE"]

RowsEvent(t, kind) ==
    [type |-> "ROWS", table |-> t, id |-> mapped[t], ver |-> schema[t],
     kind |-> kind]

-----------------------------------------------------------------------------
(* Positions *)

InLog(f, k) == f \in 1..Len(files) /\ k \in 1..Len(files[f])

EventAt(p) == files[p[1]][p[2]]

LogPositions == UNION {{f} \X (1..Len(files[f])) : f \in 1..Len(files)}

LogEnd == <<Len(files), Len(files[Len(files)]) + 1>>

LogSize == MapThenSumSet(LAMBDA f : Len(files[f]), DOMAIN files)

-----------------------------------------------------------------------------
BinlogInit ==
    /\ files = << <<>> >>
    /\ table_ids = <<>>
    /\ schema = [t \in Tables |-> 0]
    /\ in_txn = FALSE
    /\ mapped = [t \in Tables |-> 0]

Write(e) ==
    /\ LogSize < MaxEvents
    /\ files' = [files EXCEPT ![Len(files)] = Append(@, e)]

NothingMapped == \A t \in Tables : mapped[t] = 0

\* A QUERY event; how many status variables it has is up to the session.
WriteQuery == \E type \in Queries : Write(Plain(type))

\* BEGIN, and with it a QUERY event.
Begin ==
    /\ ~in_txn
    /\ WriteQuery
    /\ in_txn' = TRUE
    /\ UNCHANGED <<table_ids, schema, mapped>>

\* The statement opens t, under an id the table already has or a new one.
MapTable(t) ==
    /\ in_txn
    /\ mapped[t] = 0
    /\ \E i \in 1..MaxIds :
         /\ \/ /\ i \in 1..Len(table_ids)
               /\ table_ids[i] = [table |-> t, ver |-> schema[t]]
               /\ UNCHANGED table_ids
            \/ /\ i = Len(table_ids) + 1
               /\ table_ids' =
                    Append(table_ids, [table |-> t, ver |-> schema[t]])
         /\ Write(TableMapEvent(t, i))
         /\ mapped' = [mapped EXCEPT ![t] = i]
    /\ UNCHANGED <<schema, in_txn>>

\* A ROWS event of a mapped table; the last one of a statement has the
\* STMT_END flag, after which every table has to be mapped again.
WriteRows(t) ==
    /\ mapped[t] # 0
    /\ \E kind \in Kinds : Write(RowsEvent(t, kind))
    /\ mapped' \in {mapped, [u \in Tables |-> 0]}
    /\ UNCHANGED <<table_ids, schema, in_txn>>

\* SAVEPOINT and the like, between two statements of a transaction.
Savepoint ==
    /\ "savepoint" \in MasterMay
    /\ in_txn /\ NothingMapped
    /\ WriteQuery
    /\ UNCHANGED <<table_ids, schema, in_txn, mapped>>

Commit ==
    /\ in_txn /\ NothingMapped
    /\ Write(Plain("XID"))
    /\ in_txn' = FALSE
    /\ UNCHANGED <<table_ids, schema, mapped>>

\* ALTER TABLE: a QUERY event, and a definition that has no id yet.
AlterTable(t) ==
    /\ "alter" \in MasterMay
    /\ ~in_txn
    /\ WriteQuery
    /\ schema' = [schema EXCEPT ![t] = @ + 1]
    /\ UNCHANGED <<table_ids, in_txn, mapped>>

\* The master closes the file with a ROTATE event and opens the next one.
RotateFile ==
    /\ "rotate" \in MasterMay
    /\ ~in_txn
    /\ Len(files) < MaxFiles
    /\ LogSize < MaxEvents
    /\ files' = Append([files EXCEPT ![Len(files)] =
                          Append(@, Plain("ROTATE"))], <<>>)
    /\ UNCHANGED <<table_ids, schema, in_txn, mapped>>

\* An event of a type the library does not know (the MariaDB types > 38).
WriteUnsupported ==
    /\ "unsupported" \in MasterMay
    /\ NothingMapped
    /\ Write(Plain("UNSUPPORTED"))
    /\ UNCHANGED <<table_ids, schema, in_txn, mapped>>

\* The server process ends between two transactions, cleanly (a STOP event)
\* or not, and another one opens the next file and counts ids from 1.
RestartServer ==
    /\ ~in_txn
    /\ Len(files) < MaxFiles
    /\ \/ /\ LogSize < MaxEvents
          /\ files' = Append([files EXCEPT ![Len(files)] =
                                Append(@, Plain("STOP"))], <<>>)
       \/ files' = Append(files, <<>>)
    /\ table_ids' = <<>>
    /\ UNCHANGED <<schema, in_txn, mapped>>

BinlogNext ==
    \/ Begin
    \/ \E t \in Tables : MapTable(t)
    \/ \E t \in Tables : WriteRows(t)
    \/ Savepoint
    \/ Commit
    \/ \E t \in Tables : AlterTable(t)
    \/ RotateFile
    \/ WriteUnsupported

=============================================================================
