------------------------------- MODULE Prepare -------------------------------
(***************************************************************************)
(* CLogParser::prepare() of src/src/mysqlslave/logparser.cpp, query by     *)
(* query, while the master goes on: it writes rows, alters and drops       *)
(* tables, and switches binlog checksums on and off between any two of     *)
(* them.  What prepare() has learnt - the names of the columns, whether    *)
(* events carry checksums, where to begin - is used for every later row    *)
(* and is never asked for again.                                           *)
(*                                                                         *)
(* An entry of the log is a transaction that changes one row; the row is   *)
(* the sequence of the names of the columns whose values it holds.  The    *)
(* registry of tables by id and how a dump resumes are in Replication.     *)
(***************************************************************************)
EXTENDS Naturals, Sequences, SequencesExt, Functions

CONSTANTS
    Watched,       \* the tables given to watch(), all in one database
    Definitions,   \* what ALTER TABLE may make of a table: column names
    Versions,      \* the versions of the server
    NoName,        \* the value of a CValue that has none
    MasterMay,     \* what the master does besides writing rows
    MaxLog,        \* bound: transactions
    MaxChanges,    \* bound: changes of a definition or of the checksum option
    MaxFailures    \* bound: queries that fail and connections that break

ASSUME DefinitionsAssumption ==
    \A d \in Definitions : d \in Seq(Range(d)) /\ IsInjective(d)
ASSUME MasterMayAssumption == MasterMay \subseteq {"alter", "drop", "checksum"}
ASSUME PrepareBoundsAssumption ==
    MaxLog \in Nat /\ MaxChanges \in Nat /\ MaxFailures \in Nat

VARIABLES
    columns,       \* table -> its definition, empty when there is no table
    checksums,     \* the master's binlog_checksum is not NONE
    log,           \* the binlog
    version,       \* the version of the master
    changes,       \* number of changes, for the bound
    pc,            \* the query that comes next; "events" behind prepare()
    names,         \* CTable::_data: table -> (column name -> position)
    use_checksum,  \* _fmt._use_checksum
    binlog_pos,    \* _binlog_name and _binlog_pos: an entry, 0 when not set
    to_read,       \* tables of SHOW TABLES whose columns are still to be read
    announced,     \* @master_binlog_checksum of the session
    row,           \* the entry that was handled last, and what came of it
    failures,      \* number of failures, for the bound
    read,          \* history: the definition that SHOW COLUMNS gave last
    start          \* history: the first position that was known

masterVars == <<columns, checksums, log, version, changes>>
structureVars == <<names, to_read, read>>
positionVars == <<binlog_pos, start>>
vars == <<masterVars, structureVars, positionVars, pc, use_checksum, announced,
          row, failures>>

NoRow == [at |-> 0, table |-> NoName, columns |-> <<>>, crc |-> FALSE,
          reported |-> FALSE]

\* watch() for each table, and perhaps set_binlog_position() with the position
\* the application has kept.
Init ==
    /\ columns \in [Watched -> Definitions]
    /\ checksums \in BOOLEAN
    /\ log = <<>> /\ changes = 0
    /\ version \in Versions
    /\ pc = "connect"
    /\ names = [t \in Watched |-> << >>]
    /\ to_read = {} /\ read = [t \in Watched |-> <<>>]
    /\ use_checksum = FALSE
    /\ binlog_pos \in {0, 1} /\ start = binlog_pos
    /\ announced = "unset"
    /\ row = NoRow
    /\ failures = 0

-----------------------------------------------------------------------------
(* The master (external) *)

WriteRow(t) ==
    /\ Len(log) < MaxLog
    /\ columns[t] # <<>>
    /\ log' = Append(log, [table |-> t, columns |-> columns[t],
                           crc |-> checksums])
    /\ UNCHANGED <<columns, checksums, version, changes>>

Redefine(t, d) ==
    /\ changes < MaxChanges /\ changes' = changes + 1
    /\ columns' = [columns EXCEPT ![t] = d]
    /\ UNCHANGED <<checksums, log, version>>

\* ALTER TABLE and CREATE TABLE, DROP TABLE.
AlterTable(t) ==
    "alter" \in MasterMay /\ \E d \in Definitions : Redefine(t, d)
DropTable(t) == "drop" \in MasterMay /\ Redefine(t, <<>>)

\* SET GLOBAL binlog_checksum, from the next file on.
SwitchChecksums ==
    /\ "checksum" \in MasterMay
    /\ changes < MaxChanges /\ changes' = changes + 1
    /\ checksums' = ~checksums
    /\ UNCHANGED <<columns, log, version>>

Master ==
    /\ \/ \E t \in Watched : WriteRow(t) \/ AlterTable(t) \/ DropTable(t)
       \/ SwitchChecksums
    /\ UNCHANGED <<structureVars, positionVars, pc, use_checksum, announced,
                   row, failures>>

-----------------------------------------------------------------------------
(* The queries of prepare() *)

Query(q, next) == pc = q /\ pc' = next /\ UNCHANGED <<masterVars, row, failures>>

Preparing == {"connect", "format", "announce", "tables", "columns", "position",
              "dump"}

\* An exception leaves prepare(); the application may call it again.
QueryFails ==
    /\ pc \in Preparing
    /\ failures < MaxFailures /\ failures' = failures + 1
    /\ pc' = "connect"
    /\ UNCHANGED <<masterVars, structureVars, positionVars, use_checksum,
                   announced, row>>

\* connect(): a new session.
Connect ==
    /\ Query("connect", "format")
    /\ announced' = "unset"
    /\ UNCHANGED <<structureVars, positionVars, use_checksum>>

\* get_binlog_format(): the checksum option; the version is then looked at.
AcceptedVersions == {"5", "10.0", "10.1", "10.3", "10.4"}

GetBinlogFormat ==
    /\ Query("format", "announce")
    /\ version \in AcceptedVersions
    /\ use_checksum' = checksums
    /\ UNCHANGED <<structureVars, positionVars, announced>>

VersionRefused ==
    /\ Query("format", "connect")
    /\ version \notin AcceptedVersions
    /\ UNCHANGED <<structureVars, positionVars, use_checksum, announced>>

Option == IF checksums THEN "crc32" ELSE "none"

\* Mutation: the session is told about checksums whatever the option said.
SetupMasterBinlogChecksum_Always ==
    /\ Query("announce", "tables")
    /\ announced' = Option
    /\ UNCHANGED <<structureVars, positionVars, use_checksum>>

\* setup_master_binlog_checksum(): the server copies the option as it is now.
SetupMasterBinlogChecksum ==
    /\ Query("announce", "tables")
    /\ announced' = IF use_checksum THEN Option ELSE announced
    /\ UNCHANGED <<structureVars, positionVars, use_checksum>>

\* build_db_structure(): the watched tables among those that exist.
ListTables ==
    /\ Query("tables", "columns")
    /\ to_read' = {t \in Watched : columns[t] # <<>>}
    /\ UNCHANGED <<names, read, positionVars, use_checksum, announced>>

\* Mutation: a name that is known keeps its position.
AddColumns_Once(known, d) ==
    [n \in DOMAIN known \union Range(d) |->
        IF n \in DOMAIN known THEN known[n] ELSE AntiFunction(d)[n] - 1]

\* Mutation: the first row of SHOW COLUMNS is fetched before the loop.
AddColumns_WithoutFirst(known, d) ==
    [n \in DOMAIN known \union Range(Tail(d)) |->
        IF n \in Range(Tail(d)) THEN AntiFunction(d)[n] - 1 ELSE known[n]]

\* add_column() for each row of SHOW COLUMNS.  Names of columns that are gone
\* since an earlier call stay.
AddColumns(known, d) ==
    [n \in DOMAIN known \union Range(d) |->
        IF n \in Range(d) THEN AntiFunction(d)[n] - 1 ELSE known[n]]

ReadColumns(t) ==
    /\ Query("columns", "columns")
    /\ t \in to_read
    /\ columns[t] # <<>>
    /\ to_read' = to_read \ {t}
    /\ names' = [names EXCEPT ![t] = AddColumns(@, columns[t])]
    /\ read' = [read EXCEPT ![t] = columns[t]]
    /\ UNCHANGED <<positionVars, use_checksum, announced>>

\* The table was dropped behind SHOW TABLES.
ReadColumnsFails(t) ==
    /\ Query("columns", "connect")
    /\ t \in to_read
    /\ columns[t] = <<>>
    /\ UNCHANGED <<structureVars, positionVars, use_checksum, announced>>

AllRead ==
    /\ Query("columns", "position")
    /\ to_read = {}
    /\ UNCHANGED <<structureVars, positionVars, use_checksum, announced>>

\* Mutation: the position is taken again by each call of prepare().
GetLastBinlogPosition_Again ==
    /\ Query("position", "dump")
    /\ binlog_pos' = Len(log) + 1
    /\ start' = IF start = 0 THEN binlog_pos' ELSE start
    /\ UNCHANGED <<structureVars, use_checksum, announced>>

\* get_last_binlog_position(), unless a position is set.
GetLastBinlogPosition ==
    /\ Query("position", "dump")
    /\ binlog_pos' = IF binlog_pos = 0 THEN Len(log) + 1 ELSE binlog_pos
    /\ start' = IF start = 0 THEN binlog_pos' ELSE start
    /\ UNCHANGED <<structureVars, use_checksum, announced>>

RequestBinlogDump ==
    /\ Query("dump", "events")
    /\ UNCHANGED <<structureVars, positionVars, use_checksum, announced>>

-----------------------------------------------------------------------------
(* Events *)

\* A master sends no checksums to a session that has not asked for them: it
\* ends the dump.  One that has asked for none may get the events as they are.
Sent(crc) ==
    IF crc /\ announced = "none" THEN {TRUE, FALSE}
    ELSE IF crc /\ announced = "unset" THEN {} ELSE {crc}

\* dispatch_events() takes an entry: an event that is expected to have a
\* checksum and has none is handled, and the exception comes afterwards.
HandleEntry ==
    /\ pc = "events" /\ binlog_pos <= Len(log)
    /\ LET e == log[binlog_pos] IN
         \E crc \in Sent(e.crc) :
           row' = [at |-> binlog_pos, table |-> e.table, columns |-> e.columns,
                   crc |-> crc, reported |-> use_checksum /\ ~crc]
    /\ binlog_pos' = binlog_pos + 1
    /\ UNCHANGED <<masterVars, structureVars, start, pc, use_checksum,
                   announced, failures>>

\* reconnect(): a new session, on which nothing is announced.
Reconnect ==
    /\ pc = "events"
    /\ failures < MaxFailures /\ failures' = failures + 1
    /\ announced' = "unset"
    /\ UNCHANGED <<masterVars, structureVars, positionVars, pc, use_checksum,
                   row>>

-----------------------------------------------------------------------------
(* A value of the row in hand, by the name of its column *)

\* std::vector::at() in a row, the exception caught.
AtPosition(i, r) == IF i < Len(r) THEN r[i + 1] ELSE NoName

\* CRow::operator[](name) on the row in hand.
Lookup(n) ==
    LET known == names[row.table]
    IN  IF n \in DOMAIN known THEN AtPosition(known[n], row.columns) ELSE NoName

-----------------------------------------------------------------------------
Prepares ==
    \/ Connect \/ GetBinlogFormat \/ VersionRefused
    \/ SetupMasterBinlogChecksum
    \/ ListTables \/ AllRead
    \/ \E t \in Watched : ReadColumns(t) \/ ReadColumnsFails(t)
    \/ GetLastBinlogPosition \/ RequestBinlogDump
    \/ QueryFails

Next == Master \/ Prepares \/ HandleEntry \/ Reconnect

Spec == Init /\ [][Next]_vars

-----------------------------------------------------------------------------
(* Properties *)

TypeOK ==
    /\ columns \in [Watched -> Definitions \union {<<>>}]
    /\ read \in [Watched -> Definitions \union {<<>>}]
    /\ checksums \in BOOLEAN /\ use_checksum \in BOOLEAN
    /\ announced \in {"unset", "none", "crc32"}
    /\ pc \in Preparing \union {"events"}
    /\ to_read \subseteq Watched
    /\ DOMAIN names = Watched
    /\ \A t \in Watched : Range(read[t]) \subseteq DOMAIN names[t]
    /\ binlog_pos \in 0 .. Len(log) + 1 /\ start \in 0 .. binlog_pos
    /\ row.at < binlog_pos \/ row = NoRow

HasRow == pc = "events" /\ row # NoRow

\* While a table has only had columns added to its end, or removed from there,
\* since prepare() read them or before, every name that was read gives its own
\* column, and no value when the row does not have it - whatever earlier calls
\* of prepare() had found.
NamesFitLongerAndShorterRows ==
    HasRow =>
      LET d == read[row.table] IN
        IsPrefix(d, row.columns) \/ IsPrefix(row.columns, d) =>
          \A n \in Range(d) :
             Lookup(n) = IF n \in Range(row.columns) THEN n ELSE NoName

\* An event whose end is taken wrongly - checksum for data or data for
\* checksum - is never delivered without an exception, wherever the option was
\* switched between the two queries that look at it, or later.
NoSilentMisread == HasRow /\ ~row.reported => row.crc = use_checksum

\* No transaction is passed over between the moment prepare() first knows a
\* position and the events, however often it fails and is called again.
NothingMissedByRetries ==
    /\ pc \in Preparing /\ start # 0 => binlog_pos = start
    /\ HasRow => row.at >= start

=============================================================================
