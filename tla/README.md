# mysqlslave: a TLA+ development

libmysqlslave is a C++ library that pretends to be a MySQL replica.  An
application derives from `CLogParser`, names the tables it wants to follow with
`watch()`, calls `prepare()`, and starts a thread that calls
`dispatch_events()` in a loop.  The library reads the row-based binary log of
the master and calls `on_insert()`, `on_update()` and `on_delete()` with
decoded rows.

This directory models what can go wrong *between* the lines of that program:
table ids that change their meaning, connections that break in the middle of a
statement, exceptions that leave the loop half way, a second thread that stops
it, a master that restarts.  It also models how rows are decoded, where one
wrong size moves everything behind it.

## 1. Inventory

### Components, their state and their operations

| component | source | state | operations |
|---|---|---|---|
| replication loop, `CLogParser` | `logparser.cpp`, `logparser.h` | `_binlog_name`, `_binlog_pos`, `_is_connected`, `_dispatch`, the connection `_mysql`, `_fmt` | `set_binlog_position`, `prepare`, `dispatch_events`, `reconnect`, `request_binlog_dump`, `stop_event_loop` |
| table registry | `logparser.cpp:251-287`, `database.cpp:31-84` | `_id_2_table`, `_table_2_id`; `_tuned`, `_table_id`, layout, `_rows`, `_new_rows` of each `CTable` | handling of `TABLE_MAP`, `CTable::tune`, `set_tuned`, `update`, lookup by table id |
| database structure | `logparser.cpp:79-140, 402-532` | `_databases`, columns of each table, `_fmt` | `get_binlog_format`, `setup_master_binlog_checksum`, `build_db_structure`, `get_last_binlog_position` |
| event decoding | `logevent.cpp`, `logevent.hpp` | fields of one event | `tune()` of each event class, `build_column_mask`, `__net_field_length` |
| row decoding | `database.cpp:86-147` | `_row` | `update_row`, `CRow::operator[]` |
| values | `value.cpp`, `value.hpp` | type, metadata and bytes of a field | `calc_metadata_size`, `calc_field_size`, `tune`, `as_...` |
| JSONB | `value.cpp:925-1191` | a cursor | recursive descent |
| column descriptions | `columndesc.hpp`, `value.cpp:846-923` | position, type, elements of an ENUM or SET | `update`, `as_enum`, `as_set` |
| application | `README`, `test_mysqlslave.cpp` | the thread | the `while (dispatch())` loop, the callbacks, `stop_event_loop` + `pthread_kill` |
| master (external) | - | the binlog, the table definitions and their ids, a dump thread per connection | transactions, DDL, rotation, restart |

### How they interact

One thread, the *replication thread*, runs all of `dispatch_events()`.  It
blocks in `cli_safe_read()`, `mysql_real_connect()` and `sleep()`.  The master
writes its log at the same time and sends events on the connection as long as
it lasts.  A second thread calls `stop_event_loop()`, which clears `_dispatch`
and closes the descriptor of the connection.  There is no lock.

Events refer to tables by a number.  A `TABLE_MAP` event says what number
stands for which table, and the `ROWS` events after it carry only the number.
The registry is what connects the two, and it outlives connections.

The resume point `(_binlog_name, _binlog_pos)` is moved by `QUERY` events (unless
`tune()` refuses them, which nobody is told of), `ROTATE` and the `default` case (`XID` among others), not by `TABLE_MAP` and `ROWS`.  After a
broken connection `reconnect()` requests the dump from there.

### What is hard about it

* *Ordering.* `TABLE_MAP` before `ROWS`, also after a reconnect; a name and a
  position set by different events; a checksum verified after the event was
  used.
* *Failure at any point.* The connection breaks between any two events; an
  exception leaves the loop with the connection kept, so that the event is
  skipped; a callback or a hook throws.
* *State that outlives what it describes.* Table ids after a reopening of a
  table, DDL or a restart; rows that stay in a `CTable` when `update()` refuses
  an event; the format of the log read once.
* *Another thread* that stops the loop at any of these points.
* *Boundaries* of the formats: null bitmaps, widths of masks and positions.

`PROJECT.json` lists each of these as a hazard at its line.

### What makes the components correct

* Registry: a callback for table `t` hands over rows of `t`, the rows of its
  own event, decoded with the definition they were written under.
* Loop: no change of a watched table is skipped in silence; what is read again
  after a reconnect lies behind the last event that moved the resume point; the resume point never
  moves back and never splits a statement; the thread catches up when nobody
  stops it and ends when somebody does.
* Row decoding: the rows an application gets are those the master wrote, field by
  field, for each shape of table and image; the cursors in the data, the metadata
  and the bitmaps agree; the loop over the rows ends.
* Values: each type reads as it was written, and NULL as nothing.

## 2. Plan

| step | modules | state |
|---|---|---|
| 1 | `Positions`, `Binlog`, `TableRegistry`, `Replication`, `ReplicationInvariant`, `MCReplication`; `SessionProofs` | done |
| 2 | `ChangeFeed`: the abstract promise, a feed of the changes of the watched tables, in order but for replays; `FeedRefinement`: `Replication` as its implementation; `FeedProofs`: what every such feed gives | done |
| 3 | `Prepare`: `prepare()` query by query, with DDL and a switched checksum option between the queries | done |
| 4 | `Shutdown`: descriptors that are closed, reused and closed again; the signal that interrupts a read or comes too early | done |
| 5 | `FieldSize`, `EventFormat`, `RowFormat`: events of a dump byte by byte, `CRowLogEvent::tune`, `build_column_mask`, `update_n1bits`, `CTable::update`, `update_row`, `calc_metadata_size`, `calc_field_size`, `CValue::tune` | done |
| 6 | `Decimal`, `Values`: the `as_...()` functions, `enum(..)` and `set(..)` | done |
| 7 | proofs: `DeliveryProofs` (`RowsReachTheirTable` when `TABLE_MAP` events are not refused, `NoSilentLoss`, the refinement of step 2), `PrepareProofs`, `ShutdownProofs`; `EventFormatProofs` and `RowFormatProofs` (the decoding of step 5) | done |
| 8 | `ValuesProofs`: NULL, the elements of ENUM and SET, dates and times, DECIMAL | done |
| 9 | images with gaps, `Jsonb` | planned, if the code comes to use them |

No module declares a RECURSIVE operator: the loops are recursive functions and
folds.

## 3. The modules

               Positions
              /    |    \
        Binlog     |     TableRegistry
            \      |      /
             \     |     /            ChangeFeed - FeedProofs  (TLAPS)
              Replication                 :
                   |                      :  Feed == INSTANCE
          ReplicationInvariant ----- FeedRefinement - MCReplication  (TLC)
                   |                      |
             SessionProofs                |
                   |                      |
            DeliveryProofs ---------------  (TLAPS)

    FieldSize - EventFormat ------- RowFormat - MCRowFormat  (TLC)
        |           |                   |
        |    EventFormatProofs - RowFormatProofs  (TLAPS)
        |           |
        |      ValuesProofs  (TLAPS)
        |           |
     Decimal --- Values - MCValues  (TLC)

    Prepare - MCPrepare  (TLC)        Shutdown - MCShutdown  (TLC)
        |                                 |
    PrepareProofs  (TLAPS)            ShutdownProofs  (TLAPS)

`Prepare` and `Shutdown` look at two parts of the program more closely: what
`Replication` takes for one step, `prepare()` and the descriptor, is a state
machine of its own there, and what `Replication` details, tables and positions,
is left coarse.

**Positions** has the order in which events are written and read.

**Binlog** is the master, external to the library: a log is a sequence of
files, a file a sequence of events, a position `<<f, k>>` the k-th event of file
`f`, whose `log_pos` is `k + 1`.  A transaction is `QUERY` (BEGIN), statements,
`XID`; a statement writes the `TABLE_MAP` event of each table it changes before
that table's `ROWS` events.  An id in `table_ids` stands for one definition of
one table; a table may get a new id at any time, and does after DDL.
Wherever a `QUERY` is written it may be a `LONG_QUERY` instead, when the constant
`MasterMay` has "longquery": one with more status variables than
`CQueryLogEvent::tune()` accepts (`logevent.cpp:184`).
`RestartServer` opens the next file and forgets the ids.  Format description
events and the artificial `ROTATE` events are not part of the log; the dump
thread makes them.

**TableRegistry** is `_id_2_table`, `_table_2_id` and the `CTable` objects.
`TableMap(e)` is the whole `case TABLE_MAP_EVENT`: the lookup of the database
and the table, `set_tuned(false)` when the *name* is known under another id, the
two assignments, and `CTable::tune`, which does nothing while `_tuned` is set.
`Update` is `CTable::update` with its early return.  The bytes of a row are
abstracted to the position of the event they come from, the layout of a table
to the number of its definition: that is what the properties tell apart.

**Replication** composes the two with the loop.  `pc` is where the thread is;
between two values of `pc` lies one blocking call or one turn of a loop:

| pc | code | actions |
|---|---|---|
| `init` | before the thread starts | `SetBinlogPosition`, `Prepare` |
| `app` | `while (dispatch())` of the README | `AppLoop` |
| `loop` | `while (_dispatch && !_is_connected)` | `LoopHead` |
| `connect` | `reconnect()`: `disconnect()` done | `Connect`, `ConnectFails` |
| `dump` | `reconnect()`: connected | `HookFails`, `RequestBinlogDump`, `RequestBinlogDumpFails` |
| `read` | `cli_safe_read()` | `ReadFails`, `ReadStopped`, `ReadFileName`, `ReadFormatDescription`, `ReadEvent` |
| `handle` | the checks, the switch, the checksum, `while (dispatch())` | `HandleRefused`, `HandleRotate`, `HandleFormatDescription`, `HandleQuery`, `HandleLongQuery`, `HandleTableMap`, `HandleWideRows`, `HandleRows`, `CallbackFails`, `HandleOther` |
| `done` | the thread has ended | |

A handler is one action: nothing in it blocks, and the stopping thread touches
only `_dispatch` and the descriptor, which the handler looks at once, in
`Finish`.  `Drop` breaks the connection at any time, `StopEventLoop` is the
other thread, `Master` and `MasterRestart` are the other side.  Every exception
goes through `Throw`, which records what it was about in `reported`; the
application sleeps and calls again.  `delivered` records the callbacks.  `start`,
`delivered`, `reported` and `failures` are history variables; no guard but the
bound on failures reads them.

What was decided while modelling:

* `prepare()` is one step here and succeeds; its steps are in `Prepare`.  The end
  of the log it reads is not inside a transaction: the master appends a
  transaction to its log as a whole.
* An error packet, a broken connection, a closed descriptor and the packet that
  ends a dump all lead to `ReadFails`: the code treats them alike.
* The stopping thread follows the recipe of the README, `stop_event_loop()` and
  a signal, so that a blocked read notices the closed descriptor.
* A master with checksums refuses a dump on a session that has not announced
  that it expects them.  `prepare()` announces it, `reconnect()` does not; an
  overridden `post_reconnect()` that does is outside the model.
* `pre_reconnect()` throwing is like `ConnectFails`: `_is_connected` is still
  false and the loop tries again.
* Damage of an event is found by the sanity check ("header") or confined to the
  rows of a `ROWS` event ("body").
* A `ROWS` event of a table with more than 48 columns cannot be decoded, whether
  the table is watched or not (`Wide`, `HandleWideRows`).
* `HandleOther` stands for all types of the `default` case.  Those between two
  statements of a transaction move the resume point into it, as
  `Savepoint` does.  Heartbeats are not requested by the library and left out.
* `HandleLongQuery` is the branch of `logparser.cpp:244` in which `tune()` fails: the
  position stays and no exception is thrown.  The resume point is then behind by as
  much as was handled since it last moved.
* A transaction ends with an `XID` event.  The COMMIT of an engine without
  transactions is a `QUERY`; it is left out, being handled like the `QUERY` of BEGIN:
  it moves the resume point, or is refused and leaves it, and the transaction it ends
  is then read again by a reconnect before the next `QUERY`.

**ReplicationInvariant** holds the inductive invariant, in layers, see section 5.

**ChangeFeed** is what the library promises, without connections, table ids,
transactions or events: changes are handed over in the order of the log, one by
one; each one is handed over or told of by an exception before the feed goes past
it; the feed may go back, to the point it has acknowledged and nowhere else; that
point moves forward only over what is known.

**FeedRefinement** is the refinement mapping.  The changes are the `ROWS` events of
watched tables from the start position on; what is acknowledged is the resume
point `(_binlog_name, _binlog_pos)`; the feed has come to the packet in hand, else
to the place of the dump, and without a dump to where one will be requested.
Between the last event of a file and the artificial `ROTATE` event of the next
the resume point is ahead of the dump by that step, and the mapping takes the
later of the two.  `told` has an exception about a `TABLE_MAP` event count for the
rows behind it.  The refinement is one of safety: the liveness of the loop depends
on the thread, the connection and the master, of which `ChangeFeed` knows nothing,
and is stated of `Replication` itself.  What is in a row is no part of it either:
`RowsReachTheirTable` says that, in the run `tables`.

**MCReplication** gives the constants values: `a1` and `a2` are two tables of the
same name in two databases, `u` is a table nobody watches.

**Prepare** is `prepare()` with one action for each query it makes: the checksum
option and the version, `SET @master_binlog_checksum`, `SHOW TABLES`, `SHOW
COLUMNS` of each table, `SHOW MASTER STATUS`, the request of the dump.  The master
writes, alters and drops tables and switches `binlog_checksum` between any two of
them; any query fails, and the application may call `prepare()` again, which keeps
what the earlier call has learnt: names in `CTable::_data`, `_use_checksum`, the
position.  A row is the sequence of the names of its columns, so that
`Lookup(n)`, the path of `CRow::operator[](name)`, shows whose value a name gives.
An entry of the log is a whole transaction here.  A master with checksums ends a
dump on a session that has announced nothing (`Sent`), and may send them or not to
one that has announced "none".

**Shutdown** is `stop_event_loop()`, `pthread_kill()`, `pthread_join()` and
`~CLogParser()` in one thread against the loop in the other.  `owner` is the table
of descriptors of the process, in which the lowest free number is given out; the
rest of the program opens and closes files meanwhile.  `net.fd`, the number that
`stop_event_loop()` closes, and `net.vio`, the socket the client library uses, are
two variables because they differ: `mysql_init()` sets the first to 0, and closing
the socket leaves it as it was.  `mysql_real_connect()` is three steps, the socket,
`my_net_init()`, the login.  A blocked `read()` does not notice that its number is
closed; the signal ends it and the library reads again.  One that comes before the
thread is blocked is not kept (`Waits`).

**FieldSize** is what one column needs: the bytes of metadata it has in the
`TABLE_MAP` event, the bytes of a field, and which of them are shown as its value.
Bytes are numbers, so a size that is read from the wrong place is a wrong size.
A reader of `_storage` sees the bytes themselves; pointers are left out.

**EventFormat** has the bytes of the header and of `ROTATE`, `QUERY` and
`TABLE_MAP` events, as the `tune()` functions read them and as the master writes
them.

**RowFormat** decodes a dump packet by packet: the artificial `ROTATE` event, the
`TABLE_MAP` events of a watched and of another table, a `ROWS` event of each,
DDL (`QUERY`), `XID`.  `ReadPacket` and the handlers are `dispatch_events()`; `Tune`
is `CRowLogEvent::tune()`; then `BeginImage` reads the NULL bits of an image,
`ReadColumn` and `SkipColumn` are a turn of the loop of `update_row()` each, and
`EndImage` appends the row and decides whether another image follows.  What is
decoded is chosen in `Init`: a table, a kind of event, its rows, which columns the
images have, with or without extra data and checksum, and the length of the status
variables of the `QUERY` event, one of which `CQueryLogEvent::tune()` refuses.
`~build_column_mask()` and the masks of 64 bits are sets of bit numbers, the number
of columns in the top byte of a mask is its `n1`.  Bytes behind the packet are 0,
and `~0`, the size of a type that is not known, is `UnknownSize`, more than any
event has.  The layout of a table comes from its own `TABLE_MAP` event here, and
the registry of `Replication` is reduced to one table and its id.

**Decimal** is `_init_decimal()`: the digits in groups, the mask, the inverted bit.
`ShownDecimal` is how the client library reads the `decimal_t`, with `intg` digits
aligned at the end of their words, so that a wrong count of digits shows.
`decimal2string`, `decimal_string_size` and `TextSize` are what `as_string()` relies
on: the text filled up with zeros, the bytes the number needs, those the text takes.

**Values** has a field that `update_row()` has decoded, and one action for each
`as_...()` function the application may call, for fields of its own type or any
other.  Numbers of 64 bits are divided byte by byte (`DivMillion`).  The text of a
column is a sequence of characters and the names in it are found as
`CColumnDesc::update()` finds them.  A field says besides its bytes what was meant
by them, the elements of its column and the numbers of those that were picked;
`SupportedField` says how a master writes a field of each type.

`as_string()` of a DECIMAL (`value.cpp:810-825`) takes an array of
`decimal_string_size()` bytes and asks for `precision + 2` digits, filled up with
zeros: DECIMAL(5,2) 123.45 becomes "00123.45", nine bytes with its NUL in an array of
eight.  `decimal2string()` does not look at the size when the precision is given.
`DecimalAsString` has two outcomes whenever the text is longer than the array: the
text, or anything ("undefined").  No property is claimed of either: the text is
not the plain number, no document of the repository says what it is (its test reads
the column with `as_double()`), and the overrun is listed as a hazard.

**MCRowFormat**, **MCValues**, **MCPrepare** and **MCShutdown** have the tables, rows,
fields, definitions and descriptors of the runs.

Definitions whose comment begins with "Mutation" (`AddColumns_Once`) are
mutations: plausible mistakes in the code next to them, each of which some run
must notice.  No specification uses them.

## 4. The runs

All bounds of `Replication` are on the environment: `MaxEvents` in the log,
`MaxFiles`, `MaxIds` given out in one life of the master, `MaxFailures` of any
kind.  CHECK_DEADLOCK is FALSE in its runs: when the thread is `done`, or the
bounded master has nothing left to write and the thread waits for it, the system
really stops.  So does `Prepare` when its log has been read, and `Shutdown` when
the destructor is done.  In the other runs deadlock is checked.

| run | question | instance |
|---|---|---|
| `tables` | Do rows reach the right table? | two watched namesakes, ALTER TABLE, savepoints, 8 events, 3 ids: one table can be mapped twice with different ids, with a statement of the other or DDL in between |
| `resume` | Where does a dump resume, what is read again, is it a feed, does it catch up, does it stop? | one table, 5 events, 2 files, 2 failures: two breaks, an exception and a break, or a restart of the master and a break, at every pair of points; refused `QUERY` events, rotation; stop at any point |
| `faults` | Is everything that is skipped reported, and is it still a feed? | all faults, checksums, an unwatched wide table, unknown event types, 5 events in 2 files, 2 failures; `IInv`.  With checksums on no dump behind the first carries events (finding 3), so that what follows a reconnect is the business of `resume` |
| `prepare` | Does what `prepare()` has learnt fit the rows that come? | two tables, three definitions, two versions of the server, one of them refused; 2 changes of a definition or the checksum option, 2 transactions, one failure, at any point |
| `shutdown` | Does a stopped loop end, and whose descriptors does it touch? | descriptors 0 to 2, 2 breaks, 2 files opened, 1 event |
| `rows` | Are events decoded as they were written? | 7 tables (texts, numbers, others, 8, 9, 48 and 49 columns), up to 2 rows with every combination of NULLs listed, full images and images of the key, 3 kinds of event, v1 and v2, with and without checksum, status variables of 638 and 639 bytes |
| `values` | Do fields read as they were written? | 11 shapes of DECIMAL with every digit set alone, dates at their limits, elements with punctuation, sets of 1 and 4 bytes, NULL |
| `restart_ids` | Are only watched tables reported? | violated |
| `checksum_late` | Do only verified rows reach the application? | violated |
| `checksum_reconnect` | Does it catch up with checksums? | violated |
| `row_types` | Are rows with a TIME column decoded as they were written? | violated |
| `datetime2` | Does a DATETIME of MySQL 5.6 read as it was written? | violated |

The bounds are small but reach the cases: a statement needs `QUERY`, `TABLE_MAP`,
`ROWS`; the interesting breaks lie between the second and the third; the
interesting ids are the second id of a table and the first id of another; a
failure of the recovery from a failure needs two failures.  A reconnect does
not depend on how many came before it, and no handler looks further back than
the registry.  All the safety properties of the passing runs are proved for every
bound (section 5); the runs show that the cases the proofs speak of do occur, and
check the liveness.

In `prepare` two changes are enough to alter a table between two queries and once
more before a row, or to switch checksums on and off again; one failure is enough
for a second call of `prepare()`, which finds what the first has left.  In
`shutdown` three descriptors are the standard input, the connection and a file,
and they trade places: with two files opened the number of the old socket goes to
the file and back to the connection.

The tables of `rows` have each supported type with a size of its own and put it
in front of others, so that a wrong size shows in its neighbours; two rows, and
two images of an UPDATE, show what is left over from one to the next.  No two
bytes of a value are equal.  They are all tables of the kind the theorems of section
5 speak of, which `SupportedAssumption` of `MCRowFormat` has TLC confirm.  That of
`MCValues` does the same for the fields of `values`.  Those have decimals whose first
and last group is short, whole or missing, and in each of them a digit that stands
alone, so that every other group is zero.

**Properties.** `RowsReachTheirTable`: each callback has the rows of its own
event, of its own table, under the definition they were written with.
`NoSilentLoss`: whatever lies before the resume point was delivered, or an
exception told of it or of its `TABLE_MAP` event.  `ResumeAtStatementBoundary`:
a dump never resumes between a `TABLE_MAP` event and its rows; this and
`ReplayWithinTransaction` answer the question of `TODO:2-3` whether a reconnect
gets an event that has been handled already: yes, the `TABLE_MAP` and `ROWS` events
behind the last event that moved the resume point, and the `QUERY` events there that
were refused (and what an exception told of).  As long as `tune()` accepts every
`QUERY` these are those of the transaction in hand.  A refused `QUERY` in front of it
moves nothing; but the `XID` in front of that has moved the resume point already, so
it is read again with the transaction and takes no other with it.  `ResumeNeverMovesBack`,
`NeverWaitsWithoutDump`, `EventuallyCaughtUp` and `StopEndsTheLoop` say what
their names say; the comments in `Replication` tell the details.

Two properties hold only because of what the run leaves out, and the runs are
chosen accordingly.  `RowsReachTheirTable` is not asked together with refused
`TABLE_MAP` events ("header"): the registry then keeps an older definition while
rows under the new id are unknown, or stale rows when the old id still maps to a
table whose `CTable` has moved on.  `NeverWaitsWithoutDump` is not asked together
with a throwing `post_reconnect()` ("hook"): `_is_connected` is then set on a
session without a dump, and the thread waits until somebody closes it.  So the
hazard at `logparser.cpp:52` is real and no property covers it.

`RowsAsWritten`: the rows handed over are those of the event, field by field.
`CursorsInStep` is why: after each column the rest of the data and the place in
the metadata fit the column that comes next.  Rows that are longer than their event are
not among the inputs (`database.cpp:146`).  `ImagesTakeBytes` is why the loop of
`CTable::update()` ends.  `PositionAsWritten`: the bytes of `ROTATE`, `QUERY` and
`XID` give the resume point they were written for, and a `QUERY` event with 639 bytes
of status variables leaves it where it was.
`DecimalAsWritten` (of `as_double()`), `TemporalAsWritten` and `ElementsAsWritten`
compare what the functions return with what was encoded; `NullGivesNothing` is about the order of
`reset()` and `tune()` on which `as_string()` relies.

`ImplementsFeed`: the composition of the loop, the registry, the application and a
master that fails is a `ChangeFeed`.  Each handler has to go past exactly the change
it has handed over or told of, and each reconnect back to exactly the resume
point; a dump that resumes one event too far, or a position moved by the wrong
event, is a step `ChangeFeed` does not have.

`NamesFitLongerAndShorterRows`: as long as ALTER TABLE only adds columns behind
the others or removes them there, a name gives its own column or nothing,
although `prepare()` is never asked again and although an earlier call has left
names behind.  It is no more than that: an ALTER TABLE that moves columns makes
a name give the value of another column, because the names of columns are read once
and the positions behind them are never looked at again.  `NoSilentMisread`:
however the checksum option is switched, an event whose end is taken wrongly is
not handed over without an exception.  It is about rows only: the artificial `ROTATE`
event, whose name loses four bytes when they are wrongly taken for a checksum
(`logevent.cpp:126`), is not in `Prepare`.  `NothingMissedByRetries`: the position, once
known, survives later calls of `prepare()`, so that what is written between two
of them is not lost.

`StopEndsTheLoop` of `Shutdown`: the destructor comes back, whatever the thread was
doing.  `NoForeignEvents`: bytes of a descriptor that is not the connection's are
never handled as an event, because the flag is set before the number is closed.
`OthersLeftAlone`: before anybody stops the loop it touches no descriptor but its
own.  Behind it there is no such promise: `stop_event_loop()` closes the number in
`net.fd`, which during `reconnect()` is 0 or that of a socket closed before, and may
then close a file of the program, or the connection closes its number a second
time when that is a file's already.  `src/TODO` asks for an orderly shutdown, so
the model shows this as a known weakness and no finding.  `NoConnectionLeft`:
however the loop was left, the connection is closed in the end.

**Fairness.** `FairSpec` and `FairCrashSpec` assume weak fairness of the steps of the replication
thread that need nothing to go wrong.  The thread is an ordinary thread; its
blocking calls return when there is a packet, an error or a closed descriptor
with a signal; `sleep(1)` ends.  Nothing is assumed of the master (it may stop
writing at any time), of `prepare()`, or of anyone calling `stop_event_loop()`.
Connections break finitely often (`MaxFailures`): with an endless row of breaks
inside one transaction the library would start that transaction again and again.

`Shutdown` assumes weak fairness of the replication thread, of `~test_daemon()` once
it has set the flag, and of the master's answer to a login or a request of a dump,
which comes or the connection breaks.  It is not assumed that the master sends
anything after that, nor that anybody calls the destructor.  What the rest of the
program opens are files: a `read()` from one of them returns.  If it were a pipe
that nobody writes to, a thread whose socket number it was given would wait for it.

**Disagreements found.**

1. `restart_ids`: after a restart of the master an id may stand for another
   table.  The `TABLE_MAP` event of an unwatched table does not remove the id from
   `_id_2_table`, so its rows are delivered as rows of the watched table that
   had the id before (`README:64-66` promises watched tables only).
2. `checksum_late`: the checksum is compared after the callback
   (`debian/changelog:15`: "check CRC32 of binlog events").
3. `checksum_reconnect`: a reconnect to a master with checksums never receives
   an event again, because only `prepare()` announces them (the loop of
   `README:68-80` retries for ever).
4. `row_types`: the `TABLE_MAP` event has a byte of metadata for a TIME column of
   MySQL 5.6 (`MYSQL_TYPE_TIME2`), `calc_metadata_size()` gives it none, and the
   columns behind it are decoded with the wrong metadata.
5. `datetime2`: `_as_datetime2()` reads the bytes of a DATETIME of MySQL 5.6 in the
   wrong order; no date reads as it was written.

## 5. The proofs

The theorems hold for every value of the constants that satisfies the named
assumptions: any set of tables, any of them watched, wide or sharing names, any
faults, definitions, descriptors and bounds.  Those about `CrashSpec` include
restarts of the master; those about `Spec` do not, and could not (see
`restart_ids`).

| theorem | says |
|---|---|
| `TypeCorrect` | `CrashSpec => []TypeOK` |
| `ResumesAtBoundary` | `CrashSpec => []ResumeAtStatementBoundary` |
| `ReplaysTransactionOnly` | `CrashSpec => []ReplayWithinTransaction` |
| `ResumesForward` | `CrashSpec => ResumeNeverMovesBack` |
| `WaitsWithDump` | `"hook" \notin Faults` implies `CrashSpec => []NeverWaitsWithoutDump` |
| `RowsReach` | `"header" \notin Faults` implies `Spec => []RowsReachTheirTable` |
| `Invariant` | `Spec => []IInv` |
| `SkipsNothing` | `Spec => []NoSilentLoss` |
| `Implementation` | `Spec => ImplementsFeed` |
| `FeedSkipsNothing` | of `ChangeFeed`: `Spec => []NothingSkipped` |
| `PrepareTypes`, `MisreadsNothingSilently`, `RetriesMissNothing`, `NamesFindTheirColumns` | of `Prepare`: `[]TypeOK`, `[]NoSilentMisread`, `[]NothingMissedByRetries`, `[]NamesFitLongerAndShorterRows` |
| `ShutdownTypes`, `HandlesOwnEventsOnly`, `LeavesOthersAlone`, `ClosesItsConnection` | of `Shutdown`: `[]TypeOK`, `[]NoForeignEvents`, `[]OthersLeftAlone`, `[]NoConnectionLeft` |
| `FieldsFound` | of `EventFormat`: a value of a supported column that is stored at a place is found there, with its size |
| `RowsArrive`, `CursorsAgree`, `PositionArrives`, `LoopEnds` | of `RowFormat`, when each table in `Written` is a `SupportedTable`: `[]RowsAsWritten`, `[]CursorsInStep`, `[]PositionAsWritten`, `ImagesTakeBytes` |
| `VariantsFound` | of `Values`: `CColumnDesc::update()` finds the elements in the text of an ENUM or a SET, all of them and as they are |
| `NullReadsAsNothing`, `ElementsReadAsWritten`, `TemporalReadAsWritten`, `DecimalReadsAsWritten` | of `Values`, when each of its `Fields` is a `SupportedField`: `[]NullGivesNothing`, `[]ElementsAsWritten`, `[]TemporalAsWritten`, `[]DecimalAsWritten` |

The assumptions are few.  Of the constants of `Replication` they say what they are
(`Watched \subseteq Tables`, `Faults` among the four, bounds that are numbers).
`DefinitionsAssumption` of `Prepare`: the definition of a table is a sequence of
different names, which MySQL enforces.  `ShutdownBoundsAssumption` of `Shutdown`:
there is a descriptor for the connection, without which `prepare()`, behind which
the model begins, would have failed; `NoFdAssumption`: none is not a number.
`FormatsAssumption` of `RowFormat`: the extra data of a v2 event begin with their
length, as the protocol has it.  The theorems about `RowFormat` have a hypothesis of
their own, `SupportedTable`: the columns are of the types of `SupportedColumn`, with
any metadata the master gives them and values of any length those metadata allow;
there are at most 250 columns and 250 bytes of metadata, so that their numbers take
one byte each.  It leaves out the types the code has no size for (section 6), the
TIME of finding 4 among them.  The images are the first columns of a row, all or some.
`SupportedField` is the hypothesis of the theorems about `Values`: what a master writes
for any date of the years 0 to 9999, any time of day up to 255 hours, any DECIMAL of up
to 65 digits, 30 of them behind the point, any ENUM, and any SET of up to 32 elements,
with names of any length that contain no quote.  The values left out are those of
section 6, and the DATETIME of finding 5.

*The feed* (`FeedProofs`).  That nothing is skipped is a property of every feed, and
what is left to show of the program is that it is one, which is `ImplementsFeed`;
`Implementation` shows that.  `NothingSkipped` is not inductive, because the feed goes back to the acknowledged
point and on from there: `FeedInv` adds that the acknowledged point is not ahead of
the feed and that what lies before it is known.  Without the first of these a change
could be written between the two and be jumped over; this is why `Acknowledge`
demands it of every implementation.

The argument about `Replication` goes in layers.

*The log* (`SessionProofs`).  `LogInv`: every `ROWS` event has its `TABLE_MAP` event
in front of it with nothing but parts of the statement in between
(`RowsAreMapped`); while a statement is being written its `TABLE_MAP` events are
in the last file (`MappedHasOpenMap`), which is what makes the first part
inductive; between transactions the last event is no part of a statement
(`BetweenTransactions`); `ROTATE` ends a file that is not the last.  A step of the
master only appends (`Grows`), so what holds of positions goes on holding
(`PositionsStay`).

*The session* (`SessionProofs`).  The property of the resume point is not
inductive: it has to be known that the packet in hand is an event of the log at
the place the resume point's file says, and that the position named by an
artificial `ROTATE` event is itself a boundary.  `PositionsInv`, `PacketInv` and
`DumpInv` relate the resume point, the packet in hand and the cursor of the
dump thread.  `CrashInv` is `TypeOK /\ LogInv /\ SessionInv`, and
`SessionStep` shows that every step keeps it.  With `RowsAreMapped` it gives
`ResumesAtBoundary`: were the `TABLE_MAP` event in front of the resume point and
the `ROWS` event behind it, the event just in front of the resume point would be
part of the statement, which a boundary excludes.

*What is read again* (`SessionProofs`).  `ReplayInv` adds that the cursor is never
behind the resume point, but for a file that has been left with its `ROTATE`
event, and that between the two only parts of a statement and refused `QUERY` events
(`Unmoving`) have been handled.

*Whose rows they are* (`DeliveryProofs`).  `RowsReachTheirTable` speaks of what has
been delivered; it needs to be known that the next `ROWS` event finds its own table
and layout.  `IdsAreUnique`: without a restart an id stands for one definition of
one table for ever.  `MapsAgree`: `_id_2_table` leads from an id to the table it
stands for, `_table_2_id` from a name to the id its `CTable` was tuned for, and the
layout of a tuned `CTable` is that of its id.  `RegistryFollows`: the `CTable` of
each table the statement in hand has mapped so far is tuned for the id that the last
of its `TABLE_MAP` events gave; the statements before it may have left anything.  The step that matters is a
`TABLE_MAP` event whose *name* is known under another id: `set_tuned(false)` has to
come before `tune()`, or the new id goes with the old layout.  Refused `TABLE_MAP`
events break this, which is why `"header"` is excluded here and nowhere else.

*What is behind the resume point* (`DeliveryProofs`).  `NoSilentLoss` is about the
resume point, but between two of its moves the events are already in the past.
`ProgressInv` and `DeliveredInv` say the same of the packet in hand and of the
cursor of the dump, so that moving the resume point to the packet only states what
is known.  A `ROWS` event with an unknown id is passed over in silence; that nothing
due is lost by it follows because its `TABLE_MAP` event was either handled, and has
set the id, or refused, and was told of.  `IInv` is all of these layers; TLC checks
it in `faults`, where the master writes no `LONG_QUERY`; the layer
that concerns it, `ReplayInv`, is checked as `ReplayWithinTransaction` in `resume`.

*The refinement* (`DeliveryProofs`).  Under the mapping of `FeedRefinement` each
action is shown to be a step of the feed or a stutter: a handler that delivers is
`HandOver`; one that is refused or throws is `LeaveOut`, or `Warn` when it was about
a `TABLE_MAP` event; one that moves the resume point is `Acknowledge`; what the
master appends is `Write`, `prepare()` is `Subscribe`, and the rest either leaves the
mapped variables alone or goes past events that are no changes.  `IInv` is what makes
the guards of the feed true: that the change in hand is the first the feed has not
gone past, and that nothing due lies where it only moves on.

*What `prepare()` has learnt* (`PrepareProofs`).  `PInv`: of the names read last each
leads to its own place (`PlacesInv`), whatever older names stand beside it; until
the first event the position is the one that was known first (`PositionInv`); a
session without the option is one that has announced nothing (`ChecksumInv`), to
which a master with checksums sends nothing.  A name then gives its own column
because two definitions of which one begins with the other agree as far as both go
(`PrefixesAgree`), and none when it is not in the row, because no name occurs twice.

*Who has which descriptor* (`ShutdownProofs`).  `SInv`: while `_dispatch` is set the
number in `net.vio` is the connection's and what the rest of the program took is
still its own (`OwnInv`); at any time no descriptor is a connection but that one,
and a new one is made only when there is none (`ConnInv`).  The first part says
nothing behind `stop_event_loop()`, when numbers may have changed hands; the second
survives it, and gives `NoConnectionLeft`, because nobody connects behind the join.

*What is written is found* (`EventFormatProofs`).  `At(data, q, s)` says that the bytes
`s` lie in `data` from `q` on.  From what the master writes and where, the lemmas
conclude what the library's functions read there: numbers (`NumberAt`), masks, names,
the parts of each event (`EventParts`, `TableMapParts`, `QueryParts`), and for each type
of a column its size and its value (`FieldsFound`, one lemma for each family of types).
That `FlattenSeq` puts the parts one behind the other, for any number of parts, is
induction over data.  The induction theorems of the library cannot be used, and
`NatSetInduction` takes their place: it speaks of a set that contains 0 and the
successor of each of its members, and follows from a least number outside of it
(`WFMin`).  `AtJoined` then has each part at the place where the parts before it end.

*Rows byte by byte* (`RowFormatProofs`).  That the rows are right in the end is not
inductive: in the middle of a row nothing but the place of the decoder tells what it
will read next.  `ImagesInStep` is that place: for one of the rows, the cursor `p` and
the rest `len` are those of an image of it (`ImageBase`), inside a row those of the
column that comes next (`PlaceOf`), `pmetadata` is that of the same column, the columns
in front of it are decoded, and so are the images before this one (`FirstRows`).
`ColumnSteps` shows that one column leads to the place of the next: a NULL moves
nothing, a value its own size, and a column that the image does not have finds the
cursor where the image ends.  `StreamAsWritten`, `PlaceReached`, `TableKnown` and
`RowsComplete` say the same of the events: which one is in hand, what those before it
have left in the resume point and in the `CTable`, and that outside the loop there are
all rows or none.  TLC has checked this invariant, the tables of `rows` one at a time.
`LoopEnds` needs it too: an image takes bytes because its bitmap does, and no more than
are left because it is one of those that were written.

*What a value means* (`ValuesProofs`).  The calls of an application change nothing, so
the invariant is short: the field is the one `update_row()` has found (`Read`), with the
bytes that `FieldsFound` gives it.  The work is in the functions.  Each of their loops is
a recursive function, and what it computes is shown by an induction over a set of
numbers, as above; that such a function exists at all is `Recursion`, upwards, and
`Downward`.

* *NULL.*  A field that was reset has no bytes and no type, and every function looks at
  one or the other first (`NullHasNoBytes`).
* *ENUM and SET.*  `VariantsFound`: `update()` finds element `k` between two quotes and
  goes on behind the second, where nothing but a comma comes before the next
  (`ElementFound`); whatever the names contain, no quote is among it.  `NamesGive` has
  `as_set()` come from bit to bit to the elements picked, for every mask of 32 bits.
* *Dates and times.*  A DATETIME is a number of 64 bits that the master makes byte by byte
  from the lowest and `dt / 1000000` takes apart from the highest.  `LeftType` is the
  division of one byte, forwards and backwards; `RestsEnd` says that eight bytes are enough
  for the year 9999.
* *DECIMAL.*  The digits are cut into groups (`GroupsTotal`: where each begins, in digits;
  `SizesTotal`: in bytes).  A group is a number whose digits are those of the group
  (`WordIs`) and that is read as it was stored, its first bit inverted and all its bits
  complemented or not (`BytesSay`, `WordRead`).  The master inverts the first bit of the
  number, which tells its sign, and the library inverts it back (`StorageIs`).
  `InitDecimal` is `_init_decimal()`: no word is out of range, and the groups it drops
  in front are zero.  What the client library then shows has lost only zeros in front,
  and the last word of the fraction, which is shifted to its start, gives its digits
  there (`DigitsShown`, `PartsShown`).

Only model-checked is what rests on fairness: `EventuallyCaughtUp` and both
`StopEndsTheLoop` need ENABLED, which the prover does not handle.  `SupportedColumn` and
`SupportedField` are hypotheses; TLC confirms that the tables and fields of the runs
satisfy them.

## 6. Not modelled

* Images that leave out a column in the middle (`binlog_row_image` NOBLOB): the
  NULL bits count the columns of the image and `update_row()` looks them up by the
  number of the column, so these images are not decoded as they were written.
  Those of the model have the first columns of the table, all or the key.
* Types the library has no size for: TIME and TIMESTAMP with fractions, JSON of
  MySQL (`calc_field_size()` gives `~0` and the rest of the row becomes NULL), and
  CHAR of more than 255 bytes.  Tables of 2041 columns and more, whose mask has
  a length that no longer fits `uint8_t`.
* Values that do not read as they were written and are left out of `values`: a TIME
  of more than 255 hours or below zero, sets of more than 32 elements, names of
  elements with a quote, the year 0, TIMESTAMP columns of MySQL 5.5, BIT columns of
  more than one byte, negative numbers read with a wider type.
* Files of the binlog of more than 4 GiB: `_binlog_pos` has 32 of the 64 bits of the
  position in a `ROTATE` event.
* JSON: `as_json()` is not compiled by default and serves no type that occurs.
* ALTER TABLE that moves columns behind `prepare()`: names then give other columns
  (see `NamesFitLongerAndShorterRows`); no test or text of the repository says
  otherwise.
* The rest of the test daemon: its options, signal handlers and output.
* Messages of exceptions, debug output, the build files, `extra/hash.h`.
