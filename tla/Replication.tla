---------------------------- MODULE Replication ----------------------------
(***************************************************************************)
(* A CLogParser at work: the thread that runs the loop of the README,      *)
(*                                                                         *)
(*     while (dispatch())                                                  *)
(*         try { dispatch_events(); } catch (...) { sleep(1); }            *)
(*                                                                         *)
(* against a master whose binlog grows, connections that break, and        *)
(* another thread that calls stop_event_loop().  One action is one step    *)
(* between two points where the others can interfere: a blocking call into *)
(* the client library, or a turn of a loop.  The sources are               *)
(* src/src/mysqlslave/logparser.cpp and database.cpp.                      *)
(***************************************************************************)
EXTENDS Binlog, TableRegistry

CONSTANTS
    Wide,         \* tables with more columns than build_column_mask() takes
    Checksum,     \* _fmt._use_checksum: the master writes CRC32 checksums
    Faults,       \* what may go wrong besides the connection
    MaxFailures   \* bound: failures of any kind

ASSUME WatchedAssumption == Watched \subseteq Tables
ASSUME NameOfAssumption == DOMAIN NameOf = Tables
ASSUME WideAssumption == Wide \subseteq Tables
ASSUME ChecksumAssumption == Checksum \in BOOLEAN
ASSUME FaultsAssumption ==
    Faults \subseteq {"header",     \* a packet fails the event sanity check
                      "body",       \* the rows of an event are damaged
                      "callback",   \* on_insert() and the others throw
                      "hook"}       \* post_reconnect() throws
ASSUME MaxFailuresAssumption == MaxFailures \in Nat

VARIABLES
    dispatch,      \* _dispatch
    is_connected,  \* _is_connected
    binlog_name,   \* _binlog_name: the number of a file, 0 when empty
    binlog_pos,    \* _binlog_pos
    pc,            \* where the replication thread is
    buf,           \* the packet in _mysql.net.read_pos
    conn,          \* the connection behind _mysql, and the server's end of it
    start,         \* history: the position prepare() began with
    delivered,     \* history: the callbacks made
    reported,      \* history: positions whose handling threw an exception
    failures       \* number of failures, for the bound

positionVars == <<binlog_name, binlog_pos>>
sessionVars == <<dispatch, is_connected, positionVars>>
historyVars == <<start, delivered, reported>>
vars == <<binlogVars, registryVars, sessionVars, pc, buf, conn, historyVars,
          failures>>

PCs == {"init", "app", "loop", "connect", "dump", "read", "handle", "done"}

\* A packet: an event, its position in the log (NoPos for an event the dump
\* thread made up), its log_pos, and for a ROTATE event the position it names.
Packet == [ev : Event, at : Nat \X Nat, artificial : BOOLEAN,
           damage : {"none", "header", "body"}, log_pos : Nat, to : Nat \X Nat]

NoPacket == [ev |-> Plain("FDE"), at |-> NoPos, artificial |-> TRUE,
             damage |-> "none", log_pos |-> 0, to |-> NoPos]

\* st:   none    no connection
\*       idle    logged in, no dump requested
\*       dump    the server sends the events from <<file, off>> on
\*       broken  the next read fails
\* head: the packets the server sends first: "rotate", then "fde", then none
Connection == [st : {"none", "idle", "dump", "broken"}, file : Nat, off : Nat,
               head : {"rotate", "fde", "none"}]

NoConnection == [st |-> "none", file |-> 0, off |-> 0, head |-> "none"]

\* One call of on_insert(), on_update() or on_delete(): for which event it was
\* made, and with what; intact when the rows were those the master wrote.
Callback == [kind : {"WRITE", "UPDATE", "DELETE"}, table : Watched, ver : Nat,
             rows : Nat \X Nat, newRows : Nat \X Nat, at : Nat \X Nat,
             intact : BOOLEAN]

Resume == <<binlog_name, binlog_pos>>
Cursor == <<conn.file, conn.off>>

TypeOK ==
    /\ files \in Seq(Seq(Event)) /\ Len(files) > 0
    /\ table_ids \in Seq([table : Tables, ver : Nat])
    /\ schema \in [Tables -> Nat]
    /\ in_txn \in BOOLEAN
    /\ mapped \in [Tables -> Nat]
    /\ DOMAIN id_2_table \subseteq Nat
    /\ \A i \in DOMAIN id_2_table : id_2_table[i] \in Watched
    /\ DOMAIN table_2_id \subseteq {NameOf[t] : t \in Watched}
    /\ \A n \in DOMAIN table_2_id : table_2_id[n] \in Nat
    /\ tables \in [Watched -> [tuned : BOOLEAN, id : Nat, ver : Nat,
                               rows : Nat \X Nat, newRows : Nat \X Nat]]
    /\ dispatch \in BOOLEAN
    /\ is_connected \in BOOLEAN
    /\ Resume \in Nat \X Nat
    /\ pc \in PCs
    /\ buf \in Packet
    /\ conn \in Connection
    /\ start \in Nat \X Nat
    /\ delivered \subseteq Callback
    /\ reported \subseteq Nat \X Nat
    /\ failures \in Nat

-----------------------------------------------------------------------------
ReplicationInit ==
    /\ dispatch = TRUE
    /\ is_connected = FALSE
    /\ binlog_name = 0 /\ binlog_pos = 0
    /\ pc = "init"
    /\ buf = NoPacket
    /\ conn = NoConnection
    /\ start = NoPos
    /\ delivered = {}
    /\ reported = {}
    /\ failures = 0

Init == BinlogInit /\ RegistryInit /\ ReplicationInit

-----------------------------------------------------------------------------
(* Failures and exceptions *)

Fail == failures < MaxFailures /\ failures' = failures + 1

\* Mutation: dispatch_events() catches the exception and takes the next event.
Throw_Swallows(at) ==
    /\ pc' = "loop"
    /\ UNCHANGED reported

\* An exception leaves dispatch_events() for the handler of the loop.  The
\* event being handled, if any, is what the message is about.
Throw(at) ==
    /\ pc' = "app"
    /\ reported' = IF at = NoPos THEN reported ELSE reported \union {at}

ServerDumpsFrom(p) ==
    conn' = [st |-> "dump", file |-> p[1], off |-> p[2], head |-> "rotate"]

-----------------------------------------------------------------------------
(* Start *)

\* set_binlog_position() with the end of the log at some moment, as an
\* application that keeps positions would call it.
SetBinlogPosition ==
    /\ pc = "init" /\ Resume = NoPos
    /\ ~in_txn
    /\ binlog_name' = LogEnd[1] /\ binlog_pos' = LogEnd[2]
    /\ UNCHANGED <<binlogVars, registryVars, dispatch, is_connected, pc, buf,
                   conn, historyVars, failures>>

\* prepare(), whose failure ends the program: connect, announce the checksum,
\* take the end of the log when no position was set, request the dump.
Prepare ==
    /\ pc = "init"
    /\ \/ Resume # NoPos /\ start' = Resume
       \/ Resume = NoPos /\ ~in_txn /\ start' = LogEnd
    /\ binlog_name' = start'[1] /\ binlog_pos' = start'[2]
    /\ is_connected' = TRUE
    /\ ServerDumpsFrom(start')
    /\ pc' = "app"
    /\ UNCHANGED <<binlogVars, registryVars, dispatch, buf, delivered,
                   reported, failures>>

\* The loop of the README around dispatch_events().
AppLoop ==
    /\ pc = "app"
    /\ pc' = IF dispatch THEN "loop" ELSE "done"
    /\ UNCHANGED <<binlogVars, registryVars, sessionVars, buf, conn,
                   historyVars, failures>>

-----------------------------------------------------------------------------
(* Reconnecting *)

\* The head of the loop of dispatch_events(); reconnect() begins with
\* disconnect().
LoopHead ==
    /\ pc = "loop"
    /\ IF dispatch /\ ~is_connected
       THEN pc' = "connect" /\ conn' = NoConnection
       ELSE pc' = "read" /\ UNCHANGED conn
    /\ UNCHANGED <<binlogVars, registryVars, sessionVars, buf, historyVars,
                   failures>>

Connect ==
    /\ pc = "connect"
    /\ is_connected' = TRUE
    /\ conn' = [NoConnection EXCEPT !.st = "idle"]
    /\ pc' = "dump"
    /\ UNCHANGED <<binlogVars, registryVars, dispatch, positionVars, buf,
                   historyVars, failures>>

ConnectFails ==
    /\ pc = "connect"
    /\ Fail
    /\ Throw(NoPos)
    /\ UNCHANGED <<binlogVars, registryVars, sessionVars, buf, conn, start,
                   delivered>>

\* post_reconnect() throws: connected, but nothing will be sent.
HookFails ==
    /\ pc = "dump"
    /\ "hook" \in Faults
    /\ Fail
    /\ Throw(NoPos)
    /\ UNCHANGED <<binlogVars, registryVars, sessionVars, buf, conn, start,
                   delivered>>

\* Mutation: the dump is requested from the position of prepare().
RequestBinlogDump_FromStart ==
    /\ pc = "dump"
    /\ conn.st = "idle" /\ Resume[1] # 0 /\ Resume[2] # 0
    /\ IF Checksum
       THEN conn' = [conn EXCEPT !.st = "broken"]
       ELSE ServerDumpsFrom(start)
    /\ pc' = "loop"
    /\ UNCHANGED <<binlogVars, registryVars, sessionVars, buf, historyVars,
                   failures>>

\* Mutation: the position is taken anew, as prepare() does.
RequestBinlogDump_FromEnd ==
    /\ pc = "dump"
    /\ conn.st = "idle" /\ Resume[1] # 0 /\ Resume[2] # 0
    /\ IF Checksum
       THEN conn' = [conn EXCEPT !.st = "broken"]
       ELSE ServerDumpsFrom(LogEnd)
    /\ pc' = "loop"
    /\ UNCHANGED <<binlogVars, registryVars, sessionVars, buf, historyVars,
                   failures>>

\* request_binlog_dump().  A server that writes checksums sends an error
\* instead of events to a session that has not announced that it expects
\* them, and reconnect() announces nothing.  The sleep(1) and the second look
\* at the condition of the inner loop are those of LoopHead.
RequestBinlogDump ==
    /\ pc = "dump"
    /\ conn.st = "idle" /\ Resume[1] # 0 /\ Resume[2] # 0
    /\ IF Checksum
       THEN conn' = [conn EXCEPT !.st = "broken"]
       ELSE ServerDumpsFrom(Resume)
    /\ pc' = "loop"
    /\ UNCHANGED <<binlogVars, registryVars, sessionVars, buf, historyVars,
                   failures>>

\* The position is empty, or the command cannot be sent; _is_connected stays.
RequestBinlogDumpFails ==
    /\ pc = "dump"
    /\ conn.st # "idle" \/ Resume[1] = 0 \/ Resume[2] = 0
    /\ Throw(NoPos)
    /\ UNCHANGED <<binlogVars, registryVars, sessionVars, buf, conn, start,
                   delivered, failures>>

\* The network or the server drops the connection.
Drop ==
    /\ conn.st \in {"idle", "dump"}
    /\ pc # "done"
    /\ Fail
    /\ conn' = [conn EXCEPT !.st = "broken"]
    /\ UNCHANGED <<binlogVars, registryVars, sessionVars, pc, buf,
                   historyVars>>

-----------------------------------------------------------------------------
(* Reading *)

\* Mutation: an error does not make the thread connect again.
ReadFails_StaysConnected ==
    /\ pc = "read"
    /\ conn.st \in {"none", "broken"}
    /\ pc' = "app"
    /\ UNCHANGED <<binlogVars, registryVars, sessionVars, buf, conn,
                   historyVars, failures>>

\* cli_safe_read() fails, or delivers the packet that ends the dump: after
\* stop_event_loop() dispatch_events() returns, else it throws.
ReadFails ==
    /\ pc = "read"
    /\ conn.st \in {"none", "broken"}
    /\ is_connected' = (is_connected /\ ~dispatch)
    /\ pc' = "app"
    /\ UNCHANGED <<binlogVars, registryVars, dispatch, positionVars, buf,
                   conn, historyVars, failures>>

\* The dump thread is at the end of a file that is not the last one.
AtFileEnd ==
    /\ conn.head = "none"
    /\ conn.off > Len(files[conn.file])
    /\ conn.file < Len(files)

PacketReady ==
    /\ conn.st = "dump"
    /\ conn.head # "none" \/ AtFileEnd \/ InLog(conn.file, conn.off)

\* The packet arrives after stop_event_loop(): it is not looked at.
ReadStopped ==
    /\ pc = "read" /\ ~dispatch
    /\ PacketReady
    /\ pc' = "app"
    /\ UNCHANGED <<binlogVars, registryVars, sessionVars, buf, conn,
                   historyVars, failures>>

Receive ==
    /\ pc = "read" /\ dispatch
    /\ conn.st = "dump"
    /\ pc' = "handle"
    /\ UNCHANGED <<binlogVars, registryVars, sessionVars, historyVars>>

\* A dump and each of its files begin with an artificial ROTATE event, which
\* names the file and where in it the events go on.
ReadFileName ==
    /\ Receive
    /\ conn.head = "rotate" \/ AtFileEnd
    /\ LET p == IF AtFileEnd THEN <<conn.file + 1, 1>> ELSE Cursor IN
         /\ conn' = [st |-> "dump", file |-> p[1], off |-> p[2],
                     head |-> "fde"]
         /\ buf' = [NoPacket EXCEPT !.ev = Plain("ROTATE"), !.to = p]
    /\ UNCHANGED failures

ReadFormatDescription ==
    /\ Receive
    /\ conn.head = "fde"
    /\ conn' = [conn EXCEPT !.head = "none"]
    /\ buf' = [NoPacket EXCEPT !.artificial = FALSE]
    /\ UNCHANGED failures

\* Damage is a failure; that of the body is confined to ROWS events.
ReadEvent ==
    /\ Receive
    /\ conn.head = "none"
    /\ InLog(conn.file, conn.off)
    /\ conn' = [conn EXCEPT !.off = @ + 1]
    /\ \E damage \in {"none", "header", "body"} :
         /\ \/ damage = "none" /\ UNCHANGED failures
            \/ damage = "header" /\ "header" \in Faults /\ Fail
            \/ /\ damage = "body" /\ "body" \in Faults /\ Fail
               /\ EventAt(Cursor).type = "ROWS"
         /\ buf' = [ev |-> EventAt(Cursor), at |-> Cursor,
                    artificial |-> FALSE, damage |-> damage,
                    log_pos |-> conn.off + 1, to |-> <<conn.file + 1, 1>>]

-----------------------------------------------------------------------------
(* Handling: the switch of dispatch_events() and what follows it *)

ChecksumMismatch == Checksum /\ ~buf.artificial /\ buf.damage = "body"

\* Behind the switch: verify the checksum, and leave when asked to.
Finish ==
    IF ChecksumMismatch
    THEN Throw(buf.at) /\ UNCHANGED <<is_connected, conn>>
    ELSE /\ UNCHANGED reported
         /\ IF dispatch
            THEN pc' = "loop" /\ UNCHANGED <<is_connected, conn>>
            ELSE pc' = "app" /\ is_connected' = FALSE /\ conn' = NoConnection

Handling(type) ==
    /\ pc = "handle"
    /\ buf.damage # "header"
    /\ buf.ev.type = type
    /\ UNCHANGED <<binlogVars, dispatch, buf, start>>

MoveTo(name, pos) == binlog_name' = name /\ binlog_pos' = pos

\* The sanity check or is_supported() refuses the packet.
HandleRefused ==
    /\ pc = "handle"
    /\ buf.damage = "header" \/ buf.ev.type = "UNSUPPORTED"
    /\ Throw(buf.at)
    /\ UNCHANGED <<binlogVars, registryVars, sessionVars, buf, conn, start,
                   delivered, failures>>

\* Mutation: the name of the file is not taken over.
HandleRotate_KeepsName ==
    /\ Handling("ROTATE")
    /\ MoveTo(binlog_name, buf.to[2])
    /\ Finish
    /\ UNCHANGED <<registryVars, delivered, failures>>

HandleRotate ==
    /\ Handling("ROTATE")
    /\ MoveTo(buf.to[1], buf.to[2])
    /\ Finish
    /\ UNCHANGED <<registryVars, delivered, failures>>

\* Mutation: the position is set as for any other event.
HandleFormatDescription_Moves ==
    /\ Handling("FDE")
    /\ MoveTo(binlog_name, buf.log_pos)
    /\ Finish
    /\ UNCHANGED <<registryVars, delivered, failures>>

\* Nothing is done, above all the position is not set.
HandleFormatDescription ==
    /\ Handling("FDE")
    /\ Finish
    /\ UNCHANGED <<registryVars, positionVars, delivered, failures>>

\* tune() accepts the event.
HandleQuery ==
    /\ Handling("QUERY")
    /\ MoveTo(binlog_name, buf.log_pos)
    /\ Finish
    /\ UNCHANGED <<registryVars, delivered, failures>>

\* tune() refuses the event: the position stays, and no one is told.
HandleLongQuery ==
    /\ Handling("LONG_QUERY")
    /\ Finish
    /\ UNCHANGED <<registryVars, positionVars, delivered, failures>>

HandleTableMap ==
    /\ Handling("TABLE_MAP")
    /\ TableMap(buf.ev)
    /\ Finish
    /\ UNCHANGED <<positionVars, delivered, failures>>

\* The callback for table t, whose object is tbl after the update().
CallbackFor(t, tbl) ==
    [kind |-> buf.ev.kind, table |-> t, ver |-> tbl.ver, rows |-> tbl.rows,
     newRows |-> tbl.newRows, at |-> buf.at, intact |-> buf.damage = "none"]

Deliver ==
    LET t   == id_2_table[buf.ev.id]
        tbl == Update(tables[t], buf.ev, buf.at)
    IN /\ tables' = [tables EXCEPT ![t] = tbl]
       /\ delivered' = delivered \union {CallbackFor(t, tbl)}
       /\ UNCHANGED <<id_2_table, table_2_id>>

\* CRowLogEvent::tune() cannot take the event.
HandleWideRows ==
    /\ Handling("ROWS")
    /\ buf.ev.table \in Wide
    /\ Throw(buf.at)
    /\ UNCHANGED <<registryVars, positionVars, is_connected, conn, delivered,
                   failures>>

\* Mutation: the position follows every ROWS event.
HandleRows_Moves ==
    /\ Handling("ROWS")
    /\ buf.ev.table \notin Wide
    /\ IF KnownId(buf.ev)
       THEN Deliver
       ELSE UNCHANGED <<registryVars, delivered>>
    /\ MoveTo(binlog_name, buf.log_pos)
    /\ Finish
    /\ UNCHANGED failures

HandleRows ==
    /\ Handling("ROWS")
    /\ buf.ev.table \notin Wide
    /\ IF KnownId(buf.ev)
       THEN Deliver
       ELSE UNCHANGED <<registryVars, delivered>>
    /\ Finish
    /\ UNCHANGED <<positionVars, failures>>

\* The same, and the callback throws.
CallbackFails ==
    /\ Handling("ROWS")
    /\ buf.ev.table \notin Wide
    /\ KnownId(buf.ev)
    /\ "callback" \in Faults
    /\ Fail
    /\ Deliver
    /\ Throw(buf.at)
    /\ UNCHANGED <<positionVars, is_connected, conn>>

\* Mutation: the default case does nothing.
HandleOther_Stays ==
    /\ Handling("XID") \/ Handling("STOP")
    /\ Finish
    /\ UNCHANGED <<registryVars, positionVars, delivered, failures>>

\* The default case: XID, STOP and the events that need no action.
HandleOther ==
    /\ Handling("XID") \/ Handling("STOP")
    /\ MoveTo(binlog_name, buf.log_pos)
    /\ Finish
    /\ UNCHANGED <<registryVars, delivered, failures>>

-----------------------------------------------------------------------------
(* The other thread *)

\* Mutation: the descriptor is left open.
StopEventLoop_LeavesSocket ==
    /\ dispatch /\ pc \notin {"init", "done"}
    /\ dispatch' = FALSE
    /\ UNCHANGED <<binlogVars, registryVars, is_connected, positionVars, pc,
                   buf, conn, historyVars, failures>>

\* stop_event_loop() clears _dispatch and closes the descriptor of the
\* connection there is at that moment; the signal that the README sends after
\* it makes a blocked read notice.
StopEventLoop ==
    /\ dispatch /\ pc \notin {"init", "done"}
    /\ dispatch' = FALSE
    /\ conn' = [conn EXCEPT !.st = IF @ = "none" THEN @ ELSE "broken"]
    /\ UNCHANGED <<binlogVars, registryVars, is_connected, positionVars, pc,
                   buf, historyVars, failures>>

-----------------------------------------------------------------------------
Master == BinlogNext /\ UNCHANGED <<registryVars, sessionVars, pc, buf, conn,
                                    historyVars, failures>>

\* A restart breaks every connection.
MasterRestart ==
    /\ RestartServer
    /\ Fail
    /\ conn' = [conn EXCEPT !.st = IF @ = "none" THEN @ ELSE "broken"]
    /\ UNCHANGED <<registryVars, sessionVars, pc, buf, historyVars>>

Reconnecting == Connect \/ RequestBinlogDump \/ RequestBinlogDumpFails

Reading == ReadFails \/ ReadStopped \/ ReadFileName \/ ReadFormatDescription
             \/ ReadEvent

Handle == HandleRefused \/ HandleRotate \/ HandleFormatDescription
            \/ HandleQuery \/ HandleLongQuery \/ HandleTableMap
            \/ HandleWideRows \/ HandleRows \/ HandleOther

\* The steps of the replication thread that need nothing to go wrong.
ThreadStep == AppLoop \/ LoopHead \/ Reconnecting \/ Reading \/ Handle

Failing == ConnectFails \/ HookFails \/ CallbackFails \/ Drop

Next == SetBinlogPosition \/ Prepare \/ ThreadStep \/ Failing \/ StopEventLoop
          \/ Master

CrashNext == Next \/ MasterRestart

Spec == Init /\ [][Next]_vars
CrashSpec == Init /\ [][CrashNext]_vars

\* The thread is never stopped for good between two blocking calls, and the
\* calls return when there is something to return.  Nothing obliges the master
\* to write, prepare() to be called or anyone to stop the loop.
FairSpec == Spec /\ WF_vars(ThreadStep)
FairCrashSpec == CrashSpec /\ WF_vars(ThreadStep)

-----------------------------------------------------------------------------
(* Properties *)

\* The TABLE_MAP event at m gives the ROWS event at r its table.
IsTableMapOf(m, r) ==
    /\ m[1] = r[1] /\ InLog(m[1], m[2]) /\ m[2] < r[2]
    /\ EventAt(m).type = "TABLE_MAP"
    /\ EventAt(m).id = EventAt(r).id /\ EventAt(m).table = EventAt(r).table
    /\ \A j \in (m[2] + 1)..(r[2] - 1) :
         ~(files[m[1]][j].type = "TABLE_MAP"
             /\ files[m[1]][j].table = EventAt(r).table)

\* The events the application asked for.
Due(p) ==
    /\ ~Before(p, start)
    /\ EventAt(p).type = "ROWS" /\ EventAt(p).table \in Watched

Delivered(p) ==
    \E d \in delivered : d.at = p /\ d.rows = p /\ d.table = EventAt(p).table

\* The rows at p reached the application, or an exception told of them or of
\* the TABLE_MAP event without which they mean nothing.
Accounted(p) ==
    \/ Delivered(p)
    \/ p \in reported
    \/ \E m \in reported : IsTableMapOf(m, p)

\* No change of a watched table is skipped in silence: what lies before the
\* position a reconnect would resume from was delivered, or an exception left
\* dispatch_events() about it.  _binlog_pos is moved by QUERY, ROTATE and the
\* default case only, the rows in between rely on that.
NoSilentLoss ==
    pc # "init" =>
      \A p \in LogPositions : Due(p) /\ Before(p, Resume) => Accounted(p)

\* A resumed dump never begins between a TABLE_MAP event and the rows that
\* need it, wherever the connection breaks (the question of src/TODO:2-3).
ResumeAtStatementBoundary ==
    \A p \in LogPositions :
        /\ p[1] = binlog_name /\ ~Before(p, Resume)
        /\ EventAt(p).type = "ROWS"
        => \E k \in binlog_pos..p[2] : IsTableMapOf(<<binlog_name, k>>, p)

\* Every callback hands over the rows of its own event, decoded with the
\* definition of the table they were written under, as the table they belong
\* to, and the rows after an update only for an update: ids that change,
\* tables that share a name and rows refused by CTable::update never mix.
RowsReachTheirTable ==
    \A d \in delivered :
        /\ EventAt(d.at).table = d.table
        /\ EventAt(d.at).ver = d.ver
        /\ d.rows = d.at
        /\ d.newRows = IF d.kind = "UPDATE" THEN d.at ELSE NoPos

\* A reconnect reads no transaction again that has ended: behind the resume
\* point only TABLE_MAP and ROWS events have been handled already, QUERY events
\* that tune() refuses, and those an exception told of; no event in front of it
\* is ever handled again.
Handled == IF pc = "handle" /\ buf.at # NoPos THEN buf.at ELSE Cursor

ReplayWithinTransaction ==
    /\ \A p \in LogPositions :
         /\ ~Before(p, Resume) /\ Before(p, Handled)
         /\ p \notin reported
         => EventAt(p).type \in {"TABLE_MAP", "ROWS", "LONG_QUERY"}
    /\ pc = "handle" /\ buf.at # NoPos => ~Before(buf.at, Resume)

\* The resume point only moves forward, over the end of a file and across
\* reconnects too, where the name and the position are set one by one.
ResumeNeverMovesBack == [][pc # "init" => ~Before(Resume', Resume)]_vars

\* The thread never waits for events on a connection on which it has not
\* requested any: no event leaves an empty position for request_binlog_dump()
\* to throw about, which leaves _is_connected set (FORMAT_DESCRIPTION events
\* and artificial events have log_pos 0).
NeverWaitsWithoutDump == ~(pc = "read" /\ conn.st = "idle")

\* While nobody stops the loop, every change of a watched table reaches the
\* application or is reported, whatever connections broke in between.
EventuallyCaughtUp ==
    []<>(\/ pc = "init" \/ ~dispatch
         \/ \A p \in LogPositions : Due(p) => Accounted(p))

\* stop_event_loop() ends the loop of the thread, at whatever point of a
\* reconnect or of a read it strikes and however quiet the master is.
StopEndsTheLoop == ~dispatch ~> pc = "done"

-----------------------------------------------------------------------------
(* Claims of the documents *)

\* Only the tables given to watch() are reported (src/README:64-66), each
\* callback for a row of such a table.
OnlyWatchedTables == \A d \in delivered : EventAt(d.at).table \in Watched

\* With checksums, no damaged rows reach the application ("check CRC32 of
\* binlog events", src/debian/changelog:15).
OnlyVerifiedRows == Checksum => \A d \in delivered : d.intact

=============================================================================
