------------------------ MODULE ReplicationInvariant ------------------------
(***************************************************************************)
(* The inductive invariant behind the safety properties of Replication, in *)
(* layers.  LogInv is about the binlog alone, SessionInv and ReplayInv are *)
(* about positions; they survive a restart of the server.  RegistryInv and *)
(* ProgressInv rest on table ids that are never given out twice, as between *)
(* two restarts.                                                           *)
(***************************************************************************)
EXTENDS Replication

-----------------------------------------------------------------------------
(* The log *)

InStatement == {"TABLE_MAP", "ROWS"}

\* From a to b file f holds the events of one statement only.
OneStatement(f, a, b) == \A j \in a..b : files[f][j].type \in InStatement

LastFile == files[Len(files)]

\* The TABLE_MAP event at k of the last file is the one of table t in the
\* statement being written.
OpenMap(t, k) ==
    /\ LastFile[k].type = "TABLE_MAP"
    /\ LastFile[k].table = t /\ LastFile[k].id = mapped[t]
    /\ OneStatement(Len(files), k, Len(LastFile))
    /\ \A j \in (k + 1)..Len(LastFile) :
         ~(LastFile[j].type = "TABLE_MAP" /\ LastFile[j].table = t)

RowsAreMapped ==
    \A f \in 1..Len(files) : \A r \in 1..Len(files[f]) :
        files[f][r].type = "ROWS" =>
          \E m \in 1..r : IsTableMapOf(<<f, m>>, <<f, r>>)
                            /\ OneStatement(f, m, r)

MappedHasOpenMap ==
    \A t \in Tables : mapped[t] # 0 =>
        \E k \in 1..Len(LastFile) : OpenMap(t, k)

BetweenTransactions ==
    ~in_txn =>
      /\ NothingMapped
      /\ LastFile # <<>> => LastFile[Len(LastFile)].type \notin InStatement

RotateEndsFile ==
    \A f \in 1..Len(files) : \A k \in 1..Len(files[f]) :
        files[f][k].type = "ROTATE" => f < Len(files) /\ k = Len(files[f])

\* Format description events are made by the dump thread.
NoStoredFormat ==
    \A f \in 1..Len(files) : \A k \in 1..Len(files[f]) :
        files[f][k].type # "FDE"

LogInv == RowsAreMapped /\ MappedHasOpenMap /\ BetweenTransactions
            /\ RotateEndsFile /\ NoStoredFormat

-----------------------------------------------------------------------------
(* Positions *)

\* p is the position of an event of the log or of the next one to come.
OnLog(p) == p[1] \in 1..Len(files) /\ p[2] \in 1..(Len(files[p[1]]) + 1)

\* p is in front of no part of a statement that began before it.
Boundary(p) ==
    /\ OnLog(p)
    /\ p[2] > 1 => files[p[1]][p[2] - 1].type \notin InStatement

\* A packet of the log, not one the dump thread made.
HoldsLogEvent == pc = "handle" /\ buf.at # NoPos

PositionsInv ==
    /\ pc = "init" => (Resume = NoPos \/ Boundary(Resume))
                        /\ conn = NoConnection
    /\ pc # "init" => Boundary(Resume) /\ OnLog(start)

PacketInv ==
    /\ HoldsLogEvent =>
         /\ InLog(buf.at[1], buf.at[2])
         /\ buf.ev = EventAt(buf.at)
         /\ buf.at[1] = binlog_name
         /\ buf.log_pos = buf.at[2] + 1
         /\ buf.to = <<buf.at[1] + 1, 1>>
         /\ buf.damage = "body" => buf.ev.type = "ROWS"
         /\ buf.damage = "header" => "header" \in Faults
    /\ pc = "handle" /\ buf.at = NoPos =>
         /\ buf.damage = "none"
         /\ buf.ev.type \in {"ROTATE", "FDE"}
         /\ buf.ev.type = "ROTATE" => Boundary(buf.to)

\* The server's end of the connection agrees with the position, up to the
\* packet in hand and the rest of a transaction.
DumpInv ==
    conn.st = "dump" =>
      /\ OnLog(Cursor)
      /\ pc \notin {"init", "connect", "dump"}
      /\ conn.head = "rotate" => pc # "handle" /\ Cursor = Resume
      /\ conn.head = "fde" =>
           IF pc = "handle"
           THEN buf.at = NoPos /\ buf.ev.type = "ROTATE" /\ buf.to = Cursor
           ELSE Cursor = Resume
      /\ conn.head = "none" =>
           /\ conn.file = binlog_name \/ AtFileEnd
           /\ HoldsLogEvent => Cursor = <<buf.at[1], buf.at[2] + 1>>
           /\ pc = "handle" /\ buf.at = NoPos => buf.ev.type = "FDE"

SessionInv == PositionsInv /\ PacketInv /\ DumpInv

CrashInv == TypeOK /\ LogInv /\ SessionInv

\* The events that leave the position where it is.
Unmoving == InStatement \cup {"LONG_QUERY"}

\* From the resume point up to q no event was handled that moves the position,
\* but for those an exception told of.
Settled(q) ==
    \A p \in LogPositions :
        ~Before(p, Resume) /\ Before(p, q) /\ p \notin reported
        => EventAt(p).type \in Unmoving

\* The place the server has reached, on a broken connection too, and the
\* resume point.
ReplayInv ==
    /\ conn.file # 0 =>
         /\ OnLog(Cursor)
         /\ \/ ~Before(Cursor, Resume)
            \/ AtFileEnd /\ Resume = <<conn.file + 1, 1>>
    /\ HoldsLogEvent =>
         /\ conn.head = "none" /\ Cursor = <<buf.at[1], buf.at[2] + 1>>
         /\ ~Before(buf.at, Resume)
    /\ pc = "handle" /\ buf.at = NoPos /\ buf.ev.type = "ROTATE" =>
         conn.head = "fde" /\ buf.to = Cursor
    /\ Settled(Handled)

-----------------------------------------------------------------------------
(* Table ids and the registry, while the server does not restart *)

IdsAreUnique ==
    /\ \A f \in 1..Len(files) : \A k \in 1..Len(files[f]) :
         files[f][k].type \in InStatement =>
           /\ files[f][k].id \in 1..Len(table_ids)
           /\ table_ids[files[f][k].id] =
                [table |-> files[f][k].table, ver |-> files[f][k].ver]
    /\ \A t \in Tables : mapped[t] # 0 =>
           /\ mapped[t] \in 1..Len(table_ids)
           /\ table_ids[mapped[t]] = [table |-> t, ver |-> schema[t]]

\* What the maps and the CTable objects say of each other.
MapsAgree ==
    /\ \A i \in DOMAIN id_2_table :
         i \in 1..Len(table_ids) /\ table_ids[i].table = id_2_table[i]
    /\ \A n \in DOMAIN table_2_id :
         /\ table_2_id[n] \in 1..Len(table_ids)
         /\ LET t == table_ids[table_2_id[n]].table IN
              /\ t \in Watched /\ NameOf[t] = n
              /\ tables[t].tuned /\ tables[t].id = table_2_id[n]
    /\ \A t \in Watched : tables[t].tuned =>
         /\ NameOf[t] \in DOMAIN table_2_id
         /\ tables[t].id \in 1..Len(table_ids)
         /\ table_ids[tables[t].id] = [table |-> t, ver |-> tables[t].ver]
         /\ tables[t].id \in DOMAIN id_2_table

\* The tables mapped by the statement that goes on at position p are those
\* the registry has, but for a TABLE_MAP event that was refused.
RegistryAt(p) ==
    \A m \in 1..(p[2] - 1) :
        /\ files[p[1]][m].type = "TABLE_MAP"
        /\ files[p[1]][m].table \in Watched
        /\ OneStatement(p[1], m, p[2] - 1)
        /\ \A j \in (m + 1)..(p[2] - 1) :
             ~(files[p[1]][j].type = "TABLE_MAP"
                 /\ files[p[1]][j].table = files[p[1]][m].table)
        => \/ <<p[1], m>> \in reported
           \/ LET t == files[p[1]][m].table IN
                /\ tables[t].tuned
                /\ tables[t].id = files[p[1]][m].id

RegistryFollows ==
    /\ conn.st = "dump" /\ ~HoldsLogEvent => RegistryAt(Cursor)
    /\ HoldsLogEvent => RegistryAt(buf.at)

\* Only the sanity check refuses TABLE_MAP events.
RefusedMaps ==
    \A p \in reported :
        /\ InLog(p[1], p[2])
        /\ "header" \notin Faults => EventAt(p).type # "TABLE_MAP"

RegistryInv == IdsAreUnique /\ MapsAgree /\ RegistryFollows /\ RefusedMaps

-----------------------------------------------------------------------------
(* Progress *)

\* Everything due before position q is accounted for.
AccountedBefore(q) ==
    \A p \in LogPositions : Due(p) /\ Before(p, q) => Accounted(p)

ProgressInv ==
    /\ pc # "init" => AccountedBefore(Resume)
    /\ conn.st = "dump" /\ ~HoldsLogEvent => AccountedBefore(Cursor)
    /\ HoldsLogEvent => AccountedBefore(buf.at)
    /\ pc = "handle" /\ ~HoldsLogEvent /\ buf.ev.type = "ROTATE"
         => AccountedBefore(buf.to)

DeliveredInv ==
    \A d \in delivered :
        /\ InLog(d.at[1], d.at[2])
        /\ "header" \notin Faults =>
             /\ EventAt(d.at).table = d.table
             /\ EventAt(d.at).ver = d.ver
             /\ d.rows = d.at
             /\ d.newRows = IF d.kind = "UPDATE" THEN d.at ELSE NoPos

IInv == CrashInv /\ ReplayInv /\ RegistryInv /\ ProgressInv /\ DeliveredInv

=============================================================================
