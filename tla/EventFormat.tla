---------------------------- MODULE EventFormat ----------------------------
(***************************************************************************)
(* The bytes of the events that are not rows: the header, ROTATE, QUERY    *)
(* and TABLE_MAP, as the tune() functions of                               *)
(* src/src/mysqlslave/logevent.cpp read them and as a master writes them   *)
(* (external).  A place in a packet is the index of a byte; the offsets of *)
(* logevent.hpp count from 0.                                              *)
(***************************************************************************)
EXTENDS FieldSize, SequencesExt

\* Log_event_type
EventCode ==
    [QUERY |-> 2, ROTATE |-> 4, FORMAT_DESCRIPTION |-> 15, XID |-> 16,
     TABLE_MAP |-> 19, WRITE |-> 23, UPDATE |-> 24, DELETE |-> 25,
     WRITE_V2 |-> 30, UPDATE_V2 |-> 31, DELETE_V2 |-> 32]

\* EColumnType
ColumnCode ==
    [DECIMAL |-> 0, TINY |-> 1, SHORT |-> 2, LONG |-> 3, FLOAT |-> 4, DOUBLE |-> 5,
     NULL |-> 6, TIMESTAMP |-> 7, LONGLONG |-> 8, INT24 |-> 9, DATE |-> 10,
     TIME |-> 11, DATETIME |-> 12, YEAR |-> 13, NEWDATE |-> 14, VARCHAR |-> 15,
     BIT |-> 16, TIMESTAMP2 |-> 17, DATETIME2 |-> 18, TIME2 |-> 19, JSON |-> 245,
     NEWDECIMAL |-> 246, ENUM |-> 247, SET |-> 248, TINY_BLOB |-> 249,
     MEDIUM_BLOB |-> 250, LONG_BLOB |-> 251, BLOB |-> 252, VAR_STRING |-> 253,
     STRING |-> 254, GEOMETRY |-> 255]

ColumnType(code) == CHOOSE type \in DOMAIN ColumnCode : ColumnCode[type] = code

\* LOG_EVENT_HEADER_LEN, and the post-headers of CFormatDescriptionLogEvent.
HeaderLen == 19
PostHeaderLen == [QUERY |-> 13, TABLE_MAP |-> 8, ROWS |-> 8]

\* MAX_SIZE_LOG_EVENT_STATUS
MaxStatus == 638

\* The bytes of the checksum, which no event counts as its own.
ChecksumLen(fmt) == IF fmt.checksum THEN 4 ELSE 0

-----------------------------------------------------------------------------
(* What is read *)

TypeCode(buf) == Byte(buf, 5)
LogPos(buf) == UintKorr(buf, 14, 4)

\* __net_field_length()
NetFieldLength(buf, q) ==
    LET b == Byte(buf, q)
    IN  CASE b < 251 -> [n |-> b, next |-> q + 1]
          [] b = 251 -> [n |-> UnknownSize, next |-> q + 1]
          [] b = 252 -> [n |-> UintKorr(buf, q + 1, 2), next |-> q + 3]
          [] b = 253 -> [n |-> UintKorr(buf, q + 1, 3), next |-> q + 4]
          [] OTHER -> [n |-> UintKorr(buf, q + 1, 4), next |-> q + 9]

\* Mutation: the checksum is taken for the end of the name.
TuneRotate_Untrimmed(buf, fmt) ==
    [name |-> Stretch(buf, HeaderLen + 9, Len(buf) - HeaderLen - 8),
     pos |-> UintKorr(buf, HeaderLen + 1, 4)]

\* CRotateLogEvent::tune(): the position, of which _binlog_pos keeps 32 bits of
\* 64, and the name behind it.
TuneRotate(buf, fmt) ==
    [name |-> Stretch(buf, HeaderLen + 9,
                      Len(buf) - HeaderLen - 8 - ChecksumLen(fmt)),
     pos |-> UintKorr(buf, HeaderLen + 1, 4)]

\* CQueryLogEvent::tune() refuses status variables that are too long; the
\* query itself is only shown.
QueryAccepted(buf, fmt) ==
    LET status == UintKorr(buf, HeaderLen + 12, 2)
        data_len == Len(buf) - HeaderLen - PostHeaderLen.QUERY - ChecksumLen(fmt)
    IN  status <= data_len /\ status <= MaxStatus

\* A name that ends with a zero byte.
CString(buf, q) ==
    LET end == CHOOSE e \in q..(Len(buf) + 1) :
                 Byte(buf, e) = 0 /\ \A k \in q..(e - 1) : Byte(buf, k) # 0
    IN  Stretch(buf, q, end - q)

\* get_table_id(): six bytes, kept as they are.
TableId(buf) == Stretch(buf, HeaderLen + 1, 6)

MapNames == HeaderLen + PostHeaderLen.TABLE_MAP + 1

\* get_database_name(), get_table_name()
DatabaseName(buf) == CString(buf, MapNames + 1)
TableName(buf) == CString(buf, MapNames + Byte(buf, MapNames) + 3)

\* CTableMapLogEvent::tune(): behind the two names the number of columns, their
\* types, and the metadata with their length.  The event is copied.
TuneTableMap(buf) ==
    LET q == MapNames + Byte(buf, MapNames) + 2
        r == q + Byte(buf, q) + 2
        columns == NetFieldLength(buf, r)
        metadata == NetFieldLength(buf, columns.next + columns.n)
    IN  [id |-> TableId(buf),
         types |-> [k \in 1..columns.n |->
                      ColumnType(Byte(buf, columns.next + k - 1))],
         metadata |-> Stretch(buf, metadata.next, metadata.n)]

-----------------------------------------------------------------------------
(* What the master writes (external) *)

Zeros(n) == [k \in 1..n |-> 0]

\* An event that ends at log_pos; one that is in no file is artificial.
TimeTypeServer(code) == <<7, 7, 7, 7, code, 1, 0, 0, 0>>
Flags(log_pos) == <<IF log_pos = 0 THEN 32 ELSE 0, 0>>
Checksum(fmt) == IF fmt.checksum THEN <<1, 2, 3, 4>> ELSE <<>>

StoredEvent(code, log_pos, data, fmt) ==
    LET size == HeaderLen + Len(data) + ChecksumLen(fmt)
    IN  TimeTypeServer(code) \o LengthBytes(size, 4) \o LengthBytes(log_pos, 4)
          \o Flags(log_pos) \o data \o Checksum(fmt)

StoredRotate(name, pos, fmt) ==
    StoredEvent(EventCode.ROTATE, 0, LengthBytes(pos, 4) \o Zeros(4) \o name, fmt)

\* DDL in the database db.
StoredQuery(log_pos, status, db, query, fmt) ==
    StoredEvent(EventCode.QUERY, log_pos,
        Zeros(8) \o <<Len(db), 0, 0>> \o LengthBytes(status, 2)
          \o Zeros(status) \o db \o <<0>> \o query, fmt)

StoredXid(log_pos, fmt) == StoredEvent(EventCode.XID, log_pos, Zeros(8), fmt)

StoredTableMap(log_pos, id, db, name, columns, fmt) ==
    LET Metadata == FlattenSeq([k \in DOMAIN columns |-> columns[k].meta])
        types == [k \in DOMAIN columns |-> ColumnCode[columns[k].type]]
        n == Len(columns)
    IN  StoredEvent(EventCode.TABLE_MAP, log_pos,
            id \o <<1, 0>> \o <<Len(db)>> \o db \o <<0, Len(name)>> \o name
              \o <<0, n>> \o types \o <<Len(Metadata)>> \o Metadata
              \o Bitmap({}, n), fmt)

=============================================================================
