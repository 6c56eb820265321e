----------------------------- MODULE RowFormat -----------------------------
(***************************************************************************)
(* How the bytes of a transaction become rows and a position: the switch   *)
(* of dispatch_events() (src/src/mysqlslave/logparser.cpp), the tune()     *)
(* functions of EventFormat, CRowLogEvent::tune() and build_column_mask()  *)
(* (logevent.cpp), then the loops of CTable::update() and update_row()     *)
(* (src/src/mysqlslave/database.cpp).                                      *)
(*                                                                         *)
(* The decoder of rows walks over three things at once: the data, the      *)
(* metadata of the columns, and the bits of the used columns and of the    *)
(* NULL fields.  Nothing in the data says where a row or a field begins:   *)
(* one wrong size and everything behind it is read from the wrong place.   *)
(*                                                                         *)
(* A step is one event, and in a ROWS event one column.  What the master   *)
(* writes (external) is chosen in the initial state.  Ids that change and  *)
(* exceptions other than that of a wide table are in Replication.          *)
(***************************************************************************)
EXTENDS EventFormat, FiniteSets

CONSTANTS
    Written,     \* [columns, rows]: tables, and rows a master writes for each
    Kinds,       \* WRITE, UPDATE, DELETE
    Formats,     \* [v2, extra, checksum, status]: the bytes around the rows
    MaxRows,     \* bound: rows of an event
    KeyColumns   \* bound: columns of the shortest image

\* The extra data of a v2 event begin with their length.
SupportedFormat(f) ==
    /\ f.v2 \in BOOLEAN /\ f.checksum \in BOOLEAN /\ f.status \in 0..(2^16 - 1)
    /\ f.extra \in Seq(0..255)
    /\ IF f.v2 THEN Len(f.extra) >= 2 /\ f.extra[1] + 256 * f.extra[2] = Len(f.extra)
       ELSE f.extra = <<>>

ASSUME FormatsAssumption == \A f \in Formats : SupportedFormat(f)
ASSUME KindsAssumption == Kinds \subseteq {"WRITE", "UPDATE", "DELETE"}
ASSUME BoundsAssumption == MaxRows \in Nat \ {0} /\ KeyColumns \in Nat \ {0}

VARIABLES
    written,     \* what the master wrote: a table, a kind, rows and a format
    stream,      \* the packets that are still to be read
    buf,         \* the packet in hand
    resume,      \* _binlog_name and _binlog_pos
    tbl,         \* the watched CTable: _table_id, _column_types, _metadata
    pc,          \* where the decoder is
    ev,          \* _ncolumns, _used_columns_mask, _used_columns_afterimage_mask
    p, len,      \* the place in the data, and how much is left
    part,        \* the image that is read: before, after
    nulls,       \* the NULL bits of the image
    i, pmetadata,\* update_row(): the column, the place in the metadata
    row,         \* _row
    rows,        \* _rows
    new_rows     \* _new_rows

packetVars == <<written, stream, buf, resume, tbl>>
columnVars == <<i, pmetadata, row>>
vars == <<packetVars, pc, ev, p, len, part, nulls, columnVars, rows, new_rows>>

-----------------------------------------------------------------------------
(* What the master writes (external) *)

\* An image has the first columns of the table, all of them or those of the
\* key.  Its NULL bits count the columns it has.
StoredImage(columns, used, r) ==
    Bitmap({b \in 0..(used - 1) : r[b + 1].is_null}, used)
      \o FlattenSeq([k \in 1..used |-> StoredField(columns[k], r[k])])

StoredRow(w, j) ==
    IF w.kind = "UPDATE"
    THEN StoredImage(w.columns, w.used, w.before[j])
           \o StoredImage(w.columns, w.used_after, w.after[j])
    ELSE StoredImage(w.columns, w.used, w.before[j])

Db == <<100, 98>>
Name == <<116>>
OtherName == <<117, 118, 119>>
Id == <<9, 1, 0, 0, 0, 1>>
OtherId == <<9, 2, 0, 0, 0, 1>>
FileName == <<102, 46, 50>>
FileStart == 4

V2Code == [WRITE |-> EventCode.WRITE_V2, UPDATE |-> EventCode.UPDATE_V2,
           DELETE |-> EventCode.DELETE_V2]

\* A ROWS event; one of v2 begins with extra data and their length.
StoredRows(w) ==
    LET n == Len(w.columns)
        Mask(used) == Bitmap(0..(used - 1), n)
        code == IF w.format.v2 THEN V2Code[w.kind] ELSE EventCode[w.kind]
        data == w.id \o <<1, 0>> \o w.format.extra \o <<n>> \o Mask(w.used)
                  \o (IF w.kind = "UPDATE" THEN Mask(w.used_after) ELSE <<>>)
                  \o FlattenSeq([j \in DOMAIN w.before |-> StoredRow(w, j)])
    IN  StoredEvent(code, 400, data, w.format)

\* The dump begins with the name of the file; a statement changes the watched
\* table and another one; DDL follows, and the end of a transaction.
Packets(w) ==
    LET other == [w EXCEPT !.id = OtherId]
    IN  <<StoredRotate(FileName, FileStart, w.format),
          StoredTableMap(200, w.id, Db, Name, w.columns, w.format),
          StoredTableMap(300, OtherId, Db, OtherName, w.columns, w.format),
          StoredRows(other), StoredRows(w),
          StoredQuery(500, w.format.status, Db, OtherName, w.format),
          StoredXid(600, w.format)>>

\* A table of columns the library knows, with rows of its own.  The numbers of
\* columns and of bytes of metadata fit one byte.
SupportedTable(t) ==
    /\ t.columns \in Seq(Range(t.columns))
    /\ Len(t.columns) \in KeyColumns..250
    /\ \A c \in Range(t.columns) : SupportedColumn(c)
    /\ Len(FlattenSeq([k \in DOMAIN t.columns |-> t.columns[k].meta])) <= 250
    /\ \A r \in t.rows :
         /\ DOMAIN r = DOMAIN t.columns
         /\ \A k \in DOMAIN r :
              /\ r[k].is_null \in BOOLEAN
              /\ r[k].bytes \in Seq(0..255)
              /\ r[k].is_null \/ FitsColumn(t.columns[k], Len(r[k].bytes))

\* An event of one of the tables.
WrittenEvents ==
    UNION {UNION {
        [id : {Id}, columns : {t.columns}, kind : {k}, format : Formats,
         used : {KeyColumns, Len(t.columns)},
         used_after : IF k = "UPDATE" THEN {KeyColumns, Len(t.columns)} ELSE {0},
         before : [1..n -> t.rows],
         after : IF k = "UPDATE" THEN [1..n -> t.rows] ELSE {<<>>}]
        : n \in 1..MaxRows} : t \in Written, k \in Kinds}

-----------------------------------------------------------------------------
(* dispatch_events() *)

fmt == written.format

\* CTable and its names before and behind the TABLE_MAP event.
NoMap == [id |-> <<>>, types |-> <<>>, metadata |-> <<>>]
IsWatched(db, name) == db = Db /\ name = Name

RowsUnchanged ==
    UNCHANGED <<ev, p, len, part, nulls, columnVars, rows, new_rows>>

ReadPacket ==
    /\ pc = "read" /\ stream # <<>>
    /\ buf' = Head(stream) /\ stream' = Tail(stream)
    /\ pc' = "handle"
    /\ UNCHANGED <<written, resume, tbl>> /\ RowsUnchanged

Handles(codes) ==
    /\ pc = "handle" /\ TypeCode(buf) \in codes
    /\ pc' = "read"
    /\ UNCHANGED <<written, stream, buf>>

HandleRotate ==
    /\ Handles({EventCode.ROTATE})
    /\ resume' = TuneRotate(buf, fmt)
    /\ UNCHANGED tbl /\ RowsUnchanged

\* A QUERY event that is not accepted is passed over without a word.
HandleQuery ==
    /\ Handles({EventCode.QUERY})
    /\ resume' = IF QueryAccepted(buf, fmt)
                 THEN [resume EXCEPT !.pos = LogPos(buf)] ELSE resume
    /\ UNCHANGED tbl /\ RowsUnchanged

\* The names tell whether the table is watched; CTable::tune() then gives _row
\* its columns.
HandleTableMap ==
    /\ Handles({EventCode.TABLE_MAP})
    /\ \/ /\ IsWatched(DatabaseName(buf), TableName(buf))
          /\ tbl' = TuneTableMap(buf)
          /\ row' = [k \in DOMAIN tbl'.types |->
                       [NullValue EXCEPT !.type = tbl'.types[k]]]
       \/ /\ ~IsWatched(DatabaseName(buf), TableName(buf))
          /\ UNCHANGED <<tbl, row>>
    /\ UNCHANGED <<resume, ev, p, len, part, nulls, i, pmetadata, rows, new_rows>>

\* The default case.
HandleOther ==
    /\ Handles({EventCode.XID})
    /\ resume' = [resume EXCEPT !.pos = LogPos(buf)]
    /\ UNCHANGED tbl /\ RowsUnchanged

-----------------------------------------------------------------------------
(* CRowLogEvent *)

UpdateCodes == {EventCode.UPDATE, EventCode.UPDATE_V2}
V2Codes == {V2Code[k] : k \in DOMAIN V2Code}
RowsCodes == {EventCode[k] : k \in DOMAIN V2Code} \union V2Codes
IsUpdate == TypeCode(buf) \in UpdateCodes

\* Mutation: a single column has no mask.
MaskLength_Short(n) == ((n + 6) \div 8) % 256

\* The bytes of a mask, a uint8_t; build_column_mask() refuses all but 1..6.
MaskLength(n) == ((n + 7) \div 8) % 256

HasMask(n) == MaskLength(n) \in 1..6

build_column_mask(q, n) == BitsKorr(buf, q, MaskLength(n))

\* update_n1bits() keeps the number of the columns in the top byte.
update_n1bits(mask) == [bits |-> mask \intersect 0..55, n1 |-> Cardinality(mask)]

NoMask == [bits |-> {}, n1 |-> 0]

\* The checksum is not part of the rows.
RowsEnd == Len(buf) - ChecksumLen(fmt)

\* Behind the flags: the extra data of a v2 event, the number of columns, one
\* mask or two, the rows.  The caller throws when the masks are refused, and
\* passes over the rows of a table whose id it does not know.
Tune ==
    LET start == HeaderLen + PostHeaderLen.ROWS + 1
        q == start + (IF TypeCode(buf) \in V2Codes THEN UintKorr(buf, start, 2)
                      ELSE 0)
        n == NetFieldLength(buf, q).n
        m == NetFieldLength(buf, q).next
        l == MaskLength(n)
        data == IF IsUpdate THEN m + 2 * l ELSE m + l
    IN  /\ pc = "handle" /\ TypeCode(buf) \in RowsCodes
        /\ \/ /\ ~HasMask(n)
              /\ pc' = "refused"
              /\ UNCHANGED <<ev, p, len, rows, new_rows>>
           \/ /\ HasMask(n) /\ TableId(buf) # tbl.id
              /\ pc' = "read"
              /\ UNCHANGED <<ev, p, len, rows, new_rows>>
           \/ /\ HasMask(n) /\ TableId(buf) = tbl.id
              /\ ev' = [ncolumns |-> n,
                        used |-> update_n1bits(build_column_mask(m, n)),
                        used_after |->
                           IF IsUpdate
                           THEN update_n1bits(build_column_mask(m + l, n))
                           ELSE NoMask]
              /\ p' = data
              /\ len' = RowsEnd - (data - 1)
              /\ rows' = <<>> /\ new_rows' = <<>>
              /\ pc' = IF len' > 0 THEN "image" ELSE "done"
        /\ UNCHANGED <<packetVars, part, nulls, columnVars>>

-----------------------------------------------------------------------------
(* CTable::update() and update_row() *)

\* Mutation: both images have the columns of the first.
Used_OfBefore == ev.used

Used == IF part = "before" THEN ev.used ELSE ev.used_after

\* The NULL bits of the image, as many as it has columns.
BeginImage ==
    LET l == MaskLength(Used.n1)
    IN  /\ pc = "image"
        /\ \/ /\ HasMask(Used.n1)
              /\ nulls' = build_column_mask(p, Used.n1)
              /\ p' = p + l /\ len' = len - l
           \/ /\ ~HasMask(Used.n1)
              /\ nulls' = 0..63
              /\ UNCHANGED <<p, len>>
        /\ i' = 1 /\ pmetadata' = 1
        /\ pc' = "row"
        /\ UNCHANGED <<packetVars, ev, part, row, rows, new_rows>>

\* There is nothing left: the columns that follow are NULL.
SkipColumn ==
    /\ pc = "row" /\ i <= ev.ncolumns
    /\ len <= 0
    /\ row' = [row EXCEPT ![i] = NullValue]
    /\ i' = i + 1
    /\ UNCHANGED <<packetVars, pc, ev, p, len, part, nulls, pmetadata, rows,
                   new_rows>>

\* A column with a value in the data.
Present(column) == column - 1 \in Used.bits \ nulls

\* Mutation: a column that is NULL is passed over with its metadata unread.
ReadColumn_KeepsMetadata ==
    /\ pc = "row" /\ i <= ev.ncolumns
    /\ len > 0
    /\ LET type == tbl.types[i]
           msize == calc_metadata_size(type)
           metadata == UintKorr(tbl.metadata, pmetadata, msize)
           length == calc_field_size(type, buf, p, metadata)
       IN  \/ /\ Present(i)
              /\ row' = [row EXCEPT
                           ![i] = TuneValue(type, buf, p, metadata, length)]
              /\ p' = p + length /\ len' = len - length
              /\ pmetadata' = pmetadata + msize
           \/ /\ ~Present(i)
              /\ row' = [row EXCEPT ![i] = NullValue]
              /\ UNCHANGED <<p, len, pmetadata>>
    /\ i' = i + 1
    /\ UNCHANGED <<packetVars, pc, ev, part, nulls, rows, new_rows>>

\* The column takes its metadata with it, whether it has a value or not.
ReadColumn ==
    /\ pc = "row" /\ i <= ev.ncolumns
    /\ len > 0
    /\ LET type == tbl.types[i]
           msize == calc_metadata_size(type)
           metadata == UintKorr(tbl.metadata, pmetadata, msize)
           length == calc_field_size(type, buf, p, metadata)
       IN  /\ pmetadata' = pmetadata + msize
           /\ \/ /\ Present(i)
                 /\ row' = [row EXCEPT
                              ![i] = TuneValue(type, buf, p, metadata, length)]
                 /\ p' = p + length /\ len' = len - length
              \/ /\ ~Present(i)
                 /\ row' = [row EXCEPT ![i] = NullValue]
                 /\ UNCHANGED <<p, len>>
    /\ i' = i + 1
    /\ UNCHANGED <<packetVars, pc, ev, part, nulls, rows, new_rows>>

\* The image is complete.  The caller sees no negative len, and what
\* update_row() returns is not looked at.
EndImage ==
    /\ pc = "row" /\ i > ev.ncolumns
    /\ len' = IF len < 0 THEN 0 ELSE len
    /\ \/ /\ part = "before"
          /\ rows' = Append(rows, row)
          /\ part' = IF IsUpdate THEN "after" ELSE "before"
          /\ UNCHANGED new_rows
       \/ /\ part = "after"
          /\ new_rows' = Append(new_rows, row)
          /\ part' = "before"
          /\ UNCHANGED rows
    /\ pc' = IF len' = 0 THEN "done" ELSE "image"
    /\ UNCHANGED <<packetVars, ev, p, nulls, columnVars>>

-----------------------------------------------------------------------------
(* Specification *)

Init ==
    /\ written \in WrittenEvents
    /\ stream = Packets(written) /\ buf = <<>>
    /\ resume = [name |-> <<>>, pos |-> 0]
    /\ tbl = NoMap
    /\ pc = "read"
    /\ ev = [ncolumns |-> 0, used |-> NoMask, used_after |-> NoMask]
    /\ p = 1 /\ len = 0 /\ part = "before" /\ nulls = {}
    /\ i = 1 /\ pmetadata = 1
    /\ row = <<>>
    /\ rows = <<>> /\ new_rows = <<>>

\* The rows go to the callback, or the exception to the application, which
\* calls dispatch_events() again.
Continue ==
    /\ pc \in {"done", "refused"} /\ pc' = "read"
    /\ UNCHANGED packetVars /\ RowsUnchanged

AtEnd == pc = "read" /\ stream = <<>>
Ended == AtEnd /\ UNCHANGED vars

Next ==
    \/ ReadPacket \/ HandleRotate \/ HandleQuery \/ HandleTableMap \/ HandleOther
    \/ Tune \/ BeginImage \/ SkipColumn \/ ReadColumn \/ EndImage
    \/ Continue \/ Ended

Spec == Init /\ [][Next]_vars

-----------------------------------------------------------------------------
(* Properties *)

table == written.columns

\* What the application is to see of a row of which it was sent an image.
Decoded(used, r) ==
    [k \in 1..Len(table) |->
        IF k <= used /\ ~r[k].is_null
        THEN [type |-> table[k].shown, is_null |-> FALSE, bytes |-> r[k].bytes]
        ELSE NullValue]

DecodedRows(used, images) == [j \in DOMAIN images |-> Decoded(used, images[j])]

\* get_rows() and get_new_rows() are the rows that were written: as many, in
\* their order, the images not exchanged, each field with its own bytes and
\* its own type, NULL where it was NULL or not part of the image.  Nothing of
\* a row is taken from the row decoded before it (_row is used again for each),
\* and nothing from the rows of another table.  All that is refused is a table
\* with more columns than a mask of 48 bits.
RowsAsWritten ==
    pc = "done" \/ AtEnd =>
      IF Len(table) > 48 THEN rows = <<>> /\ new_rows = <<>>
      ELSE /\ rows = DecodedRows(written.used, written.before)
           /\ new_rows = DecodedRows(written.used_after, written.after)

\* The data, what is left of them and the metadata are walked over in step:
\* update_row() never reads behind the rows, into the checksum or further, and
\* the metadata it looks at are those of its column.
CursorsInStep ==
    pc \in {"image", "row"} =>
      /\ p + len = RowsEnd + 1 /\ len >= 0
      /\ pc = "row" /\ len > 0 =>
           pmetadata = 1 + Len(FlattenSeq([k \in 1..(i - 1) |-> table[k].meta]))

\* Where a reconnect would go on, once the packet in hand is handled.
PlaceBehind(packet) ==
    CASE TypeCode(packet) = EventCode.XID -> 600
      [] TypeCode(packet) = EventCode.QUERY
           /\ written.format.status <= MaxStatus -> 500
      [] OTHER -> FileStart

\* The resume point is in the file that the master named, with and without a
\* checksum behind the name.  Only the end of the transaction moves it, and a
\* QUERY event if its status variables are few enough to be accepted.
PositionAsWritten ==
    pc = "read" /\ buf # <<>> =>
      resume = [name |-> FileName, pos |-> PlaceBehind(buf)]

\* Every turn of the loop of CTable::update() takes bytes: the loop, whose only
\* condition is that there are some, comes to an end.
ImagesTakeBytes == [][pc = "image" => len' < len /\ len' >= 0]_vars

=============================================================================
