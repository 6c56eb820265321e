----------------------------- MODULE FieldSize -----------------------------
(***************************************************************************)
(* How many bytes of an event belong to one field, and which of them are   *)
(* its value: CValue::calc_metadata_size(), calc_field_size() and tune()   *)
(* of src/src/mysqlslave/value.cpp, with the fields as a master writes     *)
(* them (external).                                                        *)
(*                                                                         *)
(* Bytes are numbers, data is a sequence of bytes, a place in it its       *)
(* index.  The bits of a byte are the set of their numbers.                *)
(***************************************************************************)
EXTENDS Integers, Sequences

\* Type codes that occur inside the metadata of a STRING column.
JSON_CODE   == 245
ENUM_CODE   == 247
SET_CODE    == 248
STRING_CODE == 254

TypeOfCode == [c \in {JSON_CODE, ENUM_CODE, SET_CODE, STRING_CODE} |->
                 CASE c = JSON_CODE -> "JSON"
                   [] c = ENUM_CODE -> "ENUM"
                   [] c = SET_CODE -> "SET"
                   [] c = STRING_CODE -> "STRING"]

-----------------------------------------------------------------------------
(* Numbers in the data *)

\* Behind the packet the client library keeps a zero byte.
Byte(data, p) == IF p \in 1..Len(data) THEN data[p] ELSE 0

\* uint1korr .. uint4korr: n bytes, the lowest first.
UintKorr(data, p, n) ==
    LET sum[k \in 0..n] ==
            IF k = 0 THEN 0 ELSE Byte(data, p + n - k) + 256 * sum[k - 1]
    IN  sum[n]

\* The numbers of the bits that are set in n bytes.
BitsKorr(data, p, n) ==
    {b \in 0..(8 * n - 1) : (Byte(data, p + b \div 8) \div 2^(b % 8)) % 2 = 1}

\* n bytes from p on.
Stretch(data, p, n) == [k \in 1..n |-> Byte(data, p + k - 1)]

-----------------------------------------------------------------------------
(* The size of a field *)

\* Bytes of metadata a TABLE_MAP event has for a column.
calc_metadata_size(type) ==
    CASE type \in {"TIMESTAMP2", "FLOAT", "DOUBLE", "BLOB", "GEOMETRY",
                   "DATETIME2"} -> 1
      [] type \in {"VARCHAR", "BIT", "NEWDECIMAL", "VAR_STRING", "STRING"} -> 2
      [] OTHER -> 0

\* Types whose size is in the switch itself.
FixedSize ==
    [YEAR |-> 1, TINY |-> 1, SHORT |-> 2, INT24 |-> 3, LONG |-> 4,
     LONGLONG |-> 8, NULL |-> 0, NEWDATE |-> 3, DATE |-> 3, TIME |-> 3,
     TIME2 |-> 3, TIMESTAMP |-> 4, TIMESTAMP2 |-> 4, DATETIME |-> 8]

\* ~(uint32_t) 0, which no event is as long as.
UnknownSize == 2^30

\* Nine decimal digits take four bytes, what is left over fewer.
DIG_PER_DEC1 == 9

dig2bytes == [n \in 0..DIG_PER_DEC1 |-> <<0, 1, 1, 2, 2, 3, 3, 4, 4, 4>>[n + 1]]

DecimalSize(precision, scale) ==
    LET intg == precision - scale
        Bytes(digits) == (digits \div DIG_PER_DEC1) * 4
                           + dig2bytes[digits % DIG_PER_DEC1]
    IN  Bytes(intg) + Bytes(scale)

\* A STRING is an ENUM, a SET, or a CHAR with its length in front.
StringSize(data, p, metadata) ==
    LET type == metadata % 256
        len == metadata \div 256
    IN  CASE type \in {SET_CODE, ENUM_CODE} -> len
          [] type \notin {SET_CODE, ENUM_CODE} /\ len < 256 ->
               Byte(data, p) + 1
          [] OTHER -> UintKorr(data, p, 2)

\* A VARCHAR and a BLOB have their length in front.
VarcharSize(data, p, metadata) ==
    LET prefix == IF metadata > 255 THEN 2 ELSE 1
    IN  prefix + UintKorr(data, p, prefix)

BlobSize(data, p, metadata) ==
    IF metadata \in 1..4 THEN metadata + UintKorr(data, p, metadata) ELSE 0

Datetime2Size(metadata) ==
    5 + (IF metadata \in 1..6 THEN (metadata + 1) \div 2 ELSE 0)

BitSize(metadata) ==
    ((metadata \div 256) % 256) + (IF metadata % 256 > 0 THEN 1 ELSE 0)

calc_field_size(type, data, p, metadata) ==
    CASE type \in DOMAIN FixedSize -> FixedSize[type]
      [] type \in {"VAR_STRING", "DECIMAL", "FLOAT", "DOUBLE"} -> metadata
      [] type = "NEWDECIMAL" -> DecimalSize(metadata % 256, metadata \div 256)
      [] type \in {"SET", "ENUM", "STRING"} -> StringSize(data, p, metadata)
      [] type = "DATETIME2" -> Datetime2Size(metadata)
      [] type = "BIT" -> BitSize(metadata)
      [] type = "VARCHAR" -> VarcharSize(data, p, metadata)
      [] type \in {"TINY_BLOB", "MEDIUM_BLOB", "LONG_BLOB", "BLOB",
                   "GEOMETRY"} -> BlobSize(data, p, metadata)
      [] OTHER -> UnknownSize

-----------------------------------------------------------------------------
(* The value of a field *)

\* CValue: the type, whether it is NULL, the bytes _storage and _size show.
NullValue == [type |-> "NULL", is_null |-> TRUE, bytes |-> <<>>]

Shows(type, data, p, n) ==
    [type |-> type, is_null |-> FALSE, bytes |-> Stretch(data, p, n)]

\* CValue::tune()
TuneString(data, p, metadata, length) ==
    LET subtype == metadata % 256
        len == metadata \div 256
    IN  CASE subtype = STRING_CODE /\ len > 255 ->
               Shows("STRING", data, p + 2, length - 2)
          [] subtype = STRING_CODE /\ len <= 255 ->
               Shows("STRING", data, p + 1, length - 1)
          [] subtype \in {JSON_CODE, ENUM_CODE, SET_CODE} ->
               Shows(TypeOfCode[subtype], data, p, len)
          [] OTHER -> [Shows("NULL", data, p, length) EXCEPT !.is_null = TRUE]

TuneValue(type, data, p, metadata, length) ==
    CASE type = "STRING" -> TuneString(data, p, metadata, length)
      [] type = "VARCHAR" ->
           LET prefix == IF metadata < 256 THEN 1 ELSE 2
           IN  Shows(type, data, p + prefix, UintKorr(data, p, prefix))
      [] type = "BLOB" /\ metadata \in 1..4 ->
           Shows(type, data, p + metadata, UintKorr(data, p, metadata))
      [] type = "BLOB" /\ metadata \notin 1..4 ->
           [NullValue EXCEPT !.type = type]
      [] OTHER -> Shows(type, data, p, length)

-----------------------------------------------------------------------------
(* Fields as the master writes them (external) *)

\* The low bytes of a number.
LengthBytes(length, n) == [k \in 1..n |-> (length \div 256^(k - 1)) % 256]

\* ceil(n / 8) bytes with the bits set.
Bitmap(bits, n) ==
    [k \in 1..((n + 7) \div 8) |->
        LET Bit(b) == IF (k - 1) * 8 + b \in bits THEN 2^b ELSE 0
        IN  Bit(0) + Bit(1) + Bit(2) + Bit(3)
              + Bit(4) + Bit(5) + Bit(6) + Bit(7)]

\* A column has its type, the metadata of its TABLE_MAP event, the number of
\* bytes that hold the length of a value, and the type a reader is shown.
StoredField(column, value) ==
    IF value.is_null THEN <<>>
    ELSE LengthBytes(Len(value.bytes), column.prefix) \o value.bytes

\* The columns of MySQL 5.5 whose type has no metadata.
PlainSize ==
    [YEAR |-> 1, TINY |-> 1, SHORT |-> 2, INT24 |-> 3, LONG |-> 4,
     LONGLONG |-> 8, NEWDATE |-> 3, DATE |-> 3, TIME |-> 3, TIMESTAMP |-> 4,
     DATETIME |-> 8]

\* n bytes of metadata, a length of so many bytes in front of each value, and
\* the type that is shown.
Layout(column, n, prefix, shown) ==
    /\ Len(column.meta) = n
    /\ column.prefix = prefix /\ column.shown = shown

\* A column of a type the library knows, as the manual describes it and its
\* TABLE_MAP event: TIMESTAMP without a fraction, CHAR up to 255 bytes.
SupportedColumn(column) ==
    LET type == column.type
        m == column.meta
    IN  /\ m \in Seq(0..255)
        /\ \/ type \in DOMAIN PlainSize /\ Layout(column, 0, 0, type)
           \/ type = "TIMESTAMP2" /\ Layout(column, 1, 0, type) /\ m[1] = 0
           \/ type = "FLOAT" /\ Layout(column, 1, 0, type) /\ m[1] = 4
           \/ type = "DOUBLE" /\ Layout(column, 1, 0, type) /\ m[1] = 8
           \/ type = "DATETIME2" /\ Layout(column, 1, 0, type) /\ m[1] <= 6
           \/ type = "BIT" /\ Layout(column, 2, 0, type)
                /\ m[1] <= 7 /\ m[1] + m[2] > 0
           \/ type = "NEWDECIMAL" /\ Layout(column, 2, 0, type)
                /\ m[1] \in 1..65 /\ m[2] <= m[1]
           \/ type = "STRING" /\ Layout(column, 2, 0, "ENUM")
                /\ m[1] = ENUM_CODE /\ m[2] > 0
           \/ type = "STRING" /\ Layout(column, 2, 0, "SET")
                /\ m[1] = SET_CODE /\ m[2] > 0
           \/ type = "STRING" /\ Layout(column, 2, 1, "STRING")
                /\ m[1] = STRING_CODE
           \/ type = "VARCHAR" /\ Layout(column, 2, IF m[2] > 0 THEN 2 ELSE 1, type)
           \/ type = "BLOB" /\ Layout(column, 1, m[1], type) /\ m[1] \in 1..4

\* How long its values are: what the length in front of a value can say, or the
\* size of the type.
FitsColumn(column, length) ==
    LET type == column.type
        m == column.meta
    IN  /\ column.prefix > 0 => length < 256 ^ column.prefix
        /\ type \in DOMAIN PlainSize => length = PlainSize[type]
        /\ type = "TIMESTAMP2" => length = 4
        /\ type \in {"FLOAT", "DOUBLE"} => length = m[1]
        /\ type = "DATETIME2" => length = 5 + (m[1] + 1) \div 2
        /\ type = "BIT" => length = (8 * m[2] + m[1] + 7) \div 8
        /\ type = "NEWDECIMAL" => length = DecimalSize(m[1], m[2])
        /\ column.shown \in {"ENUM", "SET"} => length = m[2]

=============================================================================
