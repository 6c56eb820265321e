-------------------------- MODULE RowFormatProofs --------------------------
(***************************************************************************)
(* The rows the application sees are the rows the master wrote, for every  *)
(* table of columns the library knows: where the rows, images and fields   *)
(* of an event are, and that the decoder is always at one of them.         *)
(***************************************************************************)
EXTENDS RowFormat, EventFormatProofs

\* A row of a table with these columns.
GoodRow(columns, r) ==
    /\ DOMAIN r = 1..Len(columns)
    /\ \A k \in 1..Len(columns) :
         /\ r[k].is_null \in BOOLEAN /\ r[k].bytes \in Seq(Bytes)
         /\ r[k].is_null \/ FitsColumn(columns[k], Len(r[k].bytes))

Fields(columns, used, r) == [k \in 1..used |-> StoredField(columns[k], r[k])]

NullBits(used, r) == {b \in 0..(used - 1) : r[b + 1].is_null}

\* The bytes of the bits of n columns.
BitBytes(n) == (n + 7) \div 8

LEMMA BitBytesAre ==
    ASSUME NEW n \in Nat
    PROVE  /\ BitBytes(n) \in Nat
           /\ n \in 1..48 => BitBytes(n) \in 1..6
           /\ n > 48 /\ n <= 250 => BitBytes(n) \in 7..32
<1>1. 8 * ((n + 7) \div 8) <= n + 7 /\ n + 7 < 8 * ((n + 7) \div 8) + 8
  OBVIOUS
<1>2. (n + 7) \div 8 \in Nat
  OBVIOUS
<1> QED
  BY <1>1, <1>2 DEF BitBytes

LEMMA FieldBytes ==
    ASSUME NEW c, SupportedColumn(c), NEW v, v.bytes \in Seq(Bytes)
    PROVE  StoredField(c, v) \in Seq(Bytes)
<1>1. c.prefix \in 0..4
  BY MetadataBytes
<1>2. Len(v.bytes) \in Nat
  OBVIOUS
<1> DEFINE l == Len(v.bytes)
           n == c.prefix
           x == v.bytes
           y == LengthBytes(l, n)
<1>3. l \in Nat /\ n \in 0..4 /\ x \in Seq(Bytes)
  BY <1>1, <1>2
<1> HIDE DEF l, n, x
<1>4. y \in Seq(Bytes)
  BY <1>3, LengthBytesAre
<1> HIDE DEF y
<1>5. y \o x \in Seq(Bytes)
  BY <1>3, <1>4, ConcatIs
<1>6. LengthBytes(Len(v.bytes), c.prefix) \o v.bytes \in Seq(Bytes)
  BY <1>5 DEF l, n, x, y
<1>7. <<>> \in Seq(Bytes)
  OBVIOUS
<1> QED
  BY <1>6, <1>7 DEF StoredField

LEMMA UsedIs ==
    ASSUME NEW columns, GoodColumns(columns), NEW used \in 1..Len(columns)
    PROVE  used \in 1..250 /\ used \in Nat /\ used \in 1..used
<1> DEFINE n == Len(columns)
<1>1. n \in 1..250 /\ used \in 1..n
  BY DEF GoodColumns
<1> HIDE DEF n
<1> QED
  BY <1>1

LEMMA ImageParts ==
    ASSUME NEW columns, GoodColumns(columns), NEW used \in 1..Len(columns),
           NEW r, GoodRow(columns, r)
    PROVE  /\ Fields(columns, used, r) \in [1..used -> Seq(Bytes)]
           /\ FlattenSeq(Fields(columns, used, r)) \in Seq(Bytes)
           /\ StoredImage(columns, used, r) =
                Bitmap(NullBits(used, r), used) \o FlattenSeq(Fields(columns, used, r))
           /\ StoredImage(columns, used, r) \in Seq(Bytes)
           /\ Len(StoredImage(columns, used, r)) =
                BitBytes(used) + Len(FlattenSeq(Fields(columns, used, r)))
           /\ Len(StoredImage(columns, used, r)) >= 1
<1> DEFINE fs == Fields(columns, used, r)
           bits == Bitmap(NullBits(used, r), used)
<1>1. used \in 1..250 /\ used \in Nat /\ used \in 1..used
  <2>1. GoodColumns(columns) /\ used \in 1..Len(columns)
    OBVIOUS
  <2> HIDE DEF fs, bits
  <2> QED
    BY <2>1, UsedIs, ZenonT(30)
<1>2. fs \in [1..used -> Seq(Bytes)]
  <2> SUFFICES ASSUME NEW k \in 1..used
               PROVE  StoredField(columns[k], r[k]) \in Seq(Bytes)
    BY DEF Fields
  <2>1. k \in 1..Len(columns)
    <3> DEFINE n == Len(columns)
    <3>1. n \in 1..250 /\ used \in 1..n
      BY DEF GoodColumns
    <3> HIDE DEF n
    <3>2. k \in 1..n
      BY <3>1
    <3> QED
      BY <3>2 DEF n
  <2>2. SupportedColumn(columns[k]) /\ r[k].bytes \in Seq(Bytes)
    BY <2>1 DEF GoodColumns, GoodRow
  <2> QED
    BY <2>2, FieldBytes
<1>3. StoredImage(columns, used, r) = bits \o FlattenSeq(fs)
  BY DEF StoredImage, Fields, NullBits
<1> HIDE DEF fs
<1>4. FlattenSeq(fs) \in Seq(Bytes)
  BY <1>1, <1>2, BeforeBegins
<1>5. bits \in Seq(Bytes) /\ Len(bits) = BitBytes(used)
  BY <1>1, BitmapIs DEF BitBytes
<1>6. BitBytes(used) \in Nat /\ BitBytes(used) >= 1
  BY <1>1 DEF BitBytes
<1> DEFINE rest == FlattenSeq(fs)
           image == StoredImage(columns, used, r)
<1>7. rest \in Seq(Bytes) /\ bits \in Seq(Bytes) /\ image = bits \o rest
  BY <1>3, <1>4, <1>5
<1> HIDE DEF rest, bits, image
<1>8. image \in Seq(Bytes) /\ Len(image) = Len(bits) + Len(rest)
  BY <1>7, ConcatIs
<1> DEFINE m == Len(rest)
<1>9. m \in Nat /\ Len(rest) = m
  BY <1>7
<1> HIDE DEF m
<1>10. Len(image) = BitBytes(used) + m
  BY <1>5, <1>8, <1>9
<1>11. Len(image) >= 1
  BY <1>6, <1>9, <1>10
<1> QED
  BY <1>2, <1>7, <1>8, <1>10, <1>11 DEF fs, rest, bits, image, m

\* An event of rows, or the same event with the id of another table.
GoodEvent(w) ==
    /\ GoodColumns(w.columns)
    /\ w.id \in Seq(Bytes) /\ 6 = Len(w.id)
    /\ w.kind \in {"WRITE", "UPDATE", "DELETE"}
    /\ SupportedFormat(w.format)
    /\ w.used \in 1..Len(w.columns)
    /\ Len(w.before) \in Nat \ {0} /\ DOMAIN w.before = 1..Len(w.before)
    /\ \A j \in 1..Len(w.before) : GoodRow(w.columns, w.before[j])
    /\ IF w.kind = "UPDATE"
       THEN /\ w.used_after \in 1..Len(w.columns)
            /\ DOMAIN w.after = 1..Len(w.before)
            /\ \A j \in 1..Len(w.before) : GoodRow(w.columns, w.after[j])
       ELSE w.after = <<>>

RowsCode(w) == IF w.format.v2 THEN V2Code[w.kind] ELSE EventCode[w.kind]

StoredRowsOf(w) == [j \in DOMAIN w.before |-> StoredRow(w, j)]

\* Where the masks begin, and the rows.
MasksAt(w) == 29 + Len(w.format.extra)

RowsAt(w) ==
    MasksAt(w) + BitBytes(Len(w.columns))
      + (IF w.kind = "UPDATE" THEN BitBytes(Len(w.columns)) ELSE 0)

RowsFound(w, e) ==
    /\ e \in Seq(Bytes) /\ TypeCode(e) = RowsCode(w)
    /\ TableId(e) = w.id
    /\ w.format.v2 => UintKorr(e, 28, 2) = Len(w.format.extra)
    /\ Byte(e, 28 + Len(w.format.extra)) = Len(w.columns)
    /\ At(e, MasksAt(w), Bitmap(0..(w.used - 1), Len(w.columns)))
    /\ w.kind = "UPDATE" =>
         At(e, MasksAt(w) + BitBytes(Len(w.columns)),
            Bitmap(0..(w.used_after - 1), Len(w.columns)))
    /\ At(e, RowsAt(w), FlattenSeq(StoredRowsOf(w)))
    /\ Len(e) = RowsAt(w) - 1 + Len(FlattenSeq(StoredRowsOf(w)))
                  + ChecksumLen(w.format)

LEMMA RowsCodeIs ==
    ASSUME NEW w, GoodEvent(w)
    PROVE  /\ RowsCode(w) \in Bytes /\ RowsCode(w) \in RowsCodes
           /\ RowsCode(w) \in V2Codes <=> w.format.v2
           /\ RowsCode(w) \in UpdateCodes <=> w.kind = "UPDATE"
           /\ RowsCode(w) \notin {2, 4, 16, 19}
<1>1. w.kind \in {"WRITE", "UPDATE", "DELETE"} /\ w.format.v2 \in BOOLEAN
  BY DEF GoodEvent, SupportedFormat
<1>2. V2Codes = {30, 31, 32} /\ UpdateCodes = {24, 31}
  BY Codes DEF V2Codes, V2Code, UpdateCodes
<1>3. RowsCodes = {23, 24, 25} \union {30, 31, 32}
  BY <1>2, Codes DEF RowsCodes, V2Code
<1>4. /\ w.kind = "WRITE" => RowsCode(w) = IF w.format.v2 THEN 30 ELSE 23
      /\ w.kind = "UPDATE" => RowsCode(w) = IF w.format.v2 THEN 31 ELSE 24
      /\ w.kind = "DELETE" => RowsCode(w) = IF w.format.v2 THEN 32 ELSE 25
  BY Codes DEF RowsCode, V2Code
<1> QED
  BY <1>1, <1>2, <1>3, <1>4 DEF Bytes

LEMMA RowBytes ==
    ASSUME NEW w, GoodEvent(w)
    PROVE  /\ StoredRowsOf(w) \in [1..Len(w.before) -> Seq(Bytes)]
           /\ FlattenSeq(StoredRowsOf(w)) \in Seq(Bytes)
<1> DEFINE n == Len(w.before)
           s == StoredRowsOf(w)
<1>1. n \in Nat /\ n \in 1..n
  BY DEF GoodEvent
<1>2. s \in [1..n -> Seq(Bytes)]
  <2> SUFFICES ASSUME NEW j \in 1..n
               PROVE  StoredRow(w, j) \in Seq(Bytes)
    BY DEF StoredRowsOf, GoodEvent
  <2> DEFINE a == StoredImage(w.columns, w.used, w.before[j])
             b == StoredImage(w.columns, w.used_after, w.after[j])
  <2>1. a \in Seq(Bytes)
    <3>1. /\ GoodColumns(w.columns) /\ w.used \in 1..Len(w.columns)
          /\ GoodRow(w.columns, w.before[j])
      BY DEF GoodEvent
    <3> QED
      BY <3>1, ImageParts
  <2>2. w.kind = "UPDATE" => b \in Seq(Bytes)
    <3>1. w.kind = "UPDATE" =>
            /\ GoodColumns(w.columns) /\ w.used_after \in 1..Len(w.columns)
            /\ GoodRow(w.columns, w.after[j])
      BY DEF GoodEvent
    <3> QED
      BY <3>1, ImageParts
  <2> HIDE DEF a, b
  <2>3. w.kind = "UPDATE" => a \o b \in Seq(Bytes)
    BY <2>1, <2>2, ConcatIs
  <2> QED
    BY <2>1, <2>3 DEF StoredRow, a, b
<1> HIDE DEF n, s
<1>3. FlattenSeq(s) \in Seq(Bytes)
  BY <1>1, <1>2, BeforeBegins
<1> QED
  BY <1>2, <1>3 DEF n, s

\* CRowLogEvent::tune() finds the id, the masks and the rows.
LEMMA RowsParts ==
    ASSUME NEW w, GoodEvent(w), NEW e, e = StoredRows(w)
    PROVE  RowsFound(w, e)
<1> DEFINE n == Len(w.columns)
           f == w.format
           extra == f.extra
           id == w.id
           flags == <<1, 0>>
           front == id \o flags
           ln == <<n>>
           mask == Bitmap(0..(w.used - 1), n)
           mask_after == IF w.kind = "UPDATE" THEN Bitmap(0..(w.used_after - 1), n)
                         ELSE <<>>
           all == FlattenSeq(StoredRowsOf(w))
           data == Six(front, extra, ln, mask, mask_after, all)
           x == Len(extra)
           l == BitBytes(n)
           k == IF w.kind = "UPDATE" THEN l ELSE 0
           r == Len(all)
           c == ChecksumLen(f)
<1>1. /\ n \in 1..250 /\ n \in Nat /\ f.checksum \in BOOLEAN
      /\ extra \in Seq(Bytes) /\ id \in Seq(Bytes) /\ x \in Nat
      /\ f.v2 => extra[1] + 256 * extra[2] = x /\ x >= 2
  <2>1. n \in 1..250 /\ f.checksum \in BOOLEAN /\ extra \in Seq(Bytes) /\ id \in Seq(Bytes)
    BY DEF GoodEvent, GoodColumns, SupportedFormat, Bytes
  <2>2. f.v2 => extra[1] + 256 * extra[2] = x /\ x >= 2
    BY DEF GoodEvent, SupportedFormat
  <2> HIDE DEF n
  <2> QED
    BY <2>1, <2>2
<1>2. e = StoredEvent(RowsCode(w), 400, data, f)
  BY DEF StoredRows, Six, RowsCode, StoredRowsOf
<1>3. /\ flags \in Seq(Bytes) /\ Len(flags) = 2
      /\ ln \in Seq(Bytes) /\ Len(ln) = 1
  <2>0. n \in 1..250
    BY <1>1
  <2> HIDE DEF n
  <2>1. 0 \in Bytes /\ 1 \in Bytes /\ n \in Bytes
    BY <2>0 DEF Bytes
  <2> QED
    BY <2>1
<1>4. mask \in Seq(Bytes) /\ Len(mask) = l /\ l \in Nat
  BY <1>1, BitmapIs DEF BitBytes
<1>5. mask_after \in Seq(Bytes) /\ Len(mask_after) = k /\ k \in Nat
  <2>1. CASE w.kind = "UPDATE"
    BY <1>1, <2>1, BitmapIs DEF BitBytes
  <2>2. CASE w.kind # "UPDATE"
    BY <2>2
  <2> QED
    BY <2>1, <2>2
<1>6. all \in Seq(Bytes)
  BY RowBytes
<1>7. Len(id) = 6 /\ Len(extra) = x /\ Len(all) = r /\ r \in Nat
  <2>1. Len(id) = 6
    BY DEF GoodEvent
  <2>2. r \in Nat
    <3> HIDE DEF all
    <3> QED
      BY <1>6
  <2> QED
    BY <2>1, <2>2
<1>8. c \in Nat
  <2>1. f.checksum \in BOOLEAN
    BY <1>1
  <2> HIDE DEF f
  <2> QED
    BY <2>1, ChecksumIs
<1> HIDE DEF n, f, extra, id, flags, ln, mask, mask_after, all, x, l, k, r, c
<1>9. front \in Seq(Bytes) /\ Len(front) = 8
  <2>0. id \in Seq(Bytes) /\ flags \in Seq(Bytes)
    BY <1>1, <1>3
  <2>1. front \in Seq(Bytes) /\ Len(front) = Len(id) + Len(flags)
    BY <2>0, ConcatIs
  <2> HIDE DEF front
  <2> QED
    BY <1>3, <1>7, <2>1
<1>10. /\ front \in Seq(Bytes) /\ ln \in Seq(Bytes) /\ mask \in Seq(Bytes)
       /\ mask_after \in Seq(Bytes)
  BY <1>3, <1>4, <1>5, <1>9
<1>11. data \in Seq(Bytes) /\ Len(data) = 9 + x + l + k + r
  <2>1. /\ data \in Seq(Bytes)
        /\ Len(data) = Len(front) + Len(extra) + Len(ln) + Len(mask)
                         + Len(mask_after) + Len(all)
    <3> HIDE DEF front
    <3> QED
      BY <1>1, <1>6, <1>10, SixLength
  <2> HIDE DEF data, front
  <2> QED
    BY <1>1, <1>3, <1>4, <1>5, <1>7, <1>9, <2>1
<1>12. /\ e \in Seq(Bytes) /\ TypeCode(e) = RowsCode(w)
       /\ Len(e) = 19 + Len(data) + c
       /\ At(e, 20, data)
  <2> DEFINE code == RowsCode(w)
             z == 400
  <2>1. code \in Bytes /\ data \in Seq(Bytes)
    BY <1>11, RowsCodeIs
  <2>2. z \in Nat /\ z < 256^4
    BY SMT
  <2> HIDE DEF data, code, z
  <2>3. e = StoredEvent(code, z, data, f)
    BY <1>2 DEF code, z
  <2>4. /\ e \in Seq(Bytes) /\ TypeCode(e) = code
        /\ Len(e) = 19 + Len(data) + ChecksumLen(f)
        /\ At(e, 20, data)
    BY <1>1, <2>1, <2>2, <2>3, EventParts
  <2> QED
    BY <2>4 DEF code, c
<1>13. /\ At(e, 20, front) /\ At(e, 28, extra) /\ At(e, 28 + x, ln)
       /\ At(e, 29 + x, mask) /\ At(e, 29 + x + l, mask_after)
       /\ At(e, 29 + x + l + k, all)
  <2> DEFINE q == 20
  <2>1. q \in Nat /\ At(e, q, data)
    BY <1>12
  <2> HIDE DEF q, front
  <2>2. SixAt(e, q, front, extra, ln, mask, mask_after, all)
    BY <1>1, <1>6, <1>10, <2>1, SixParts
  <2>3. /\ q + Len(front) = 28
        /\ q + Len(front) + Len(extra) = 28 + x
        /\ q + Len(front) + Len(extra) + Len(ln) = 29 + x
        /\ q + Len(front) + Len(extra) + Len(ln) + Len(mask) = 29 + x + l
        /\ q + Len(front) + Len(extra) + Len(ln) + Len(mask) + Len(mask_after)
             = 29 + x + l + k
    BY <1>1, <1>3, <1>4, <1>5, <1>7, <1>9 DEF q
  <2> QED
    BY <2>2, <2>3 DEF q, SixAt
<1>14. TableId(e) = w.id
  <2> DEFINE q == 20
  <2>1. q \in Nat /\ At(e, q, id \o flags) /\ HeaderLen + 1 = q
    BY <1>13 DEF HeaderLen
  <2> HIDE DEF q
  <2>2. At(e, q, id)
    BY <1>1, <1>3, <2>1, AtSplit
  <2>3. Stretch(e, q, Len(id)) = id
    BY <1>1, <2>1, <2>2, AtStretch
  <2> QED
    BY <1>7, <2>1, <2>3 DEF TableId, id
<1>15. f.v2 => UintKorr(e, 28, 2) = x
  <2> SUFFICES ASSUME f.v2 PROVE UintKorr(e, 28, 2) = x
    OBVIOUS
  <2> DEFINE q == 28
  <2>1. 1 \in 1..x /\ 2 \in 1..x /\ q + 1 - 1 = q /\ q + 2 - 1 = q + 1 /\ q \in Nat
    BY <1>1
  <2>2. At(e, q, extra)
    BY <1>13
  <2> HIDE DEF q
  <2>3. Byte(e, q + 1 - 1) = extra[1] /\ Byte(e, q + 2 - 1) = extra[2]
    BY <1>7, <2>1, <2>2 DEF At
  <2>4. UintKorr(e, q, 2) = Byte(e, q) + 256 * Byte(e, q + 1)
    BY <1>12, <2>1, UintKorrIs
  <2> QED
    BY <1>1, <2>1, <2>3, <2>4 DEF q
<1>16. Byte(e, 28 + x) = n
  <2> DEFINE q == 28 + x
  <2>1. q \in Nat /\ At(e, q, ln)
    BY <1>1, <1>13
  <2> HIDE DEF q
  <2>2. Byte(e, q) = n
    BY <2>1, AtOne DEF ln
  <2> QED
    BY <2>2 DEF q
<1>17. RowsAt(w) = 29 + x + l + k /\ MasksAt(w) = 29 + x
  BY DEF RowsAt, MasksAt, x, l, k, n, extra, f
<1>18. Len(e) = RowsAt(w) - 1 + r + c
  <2> DEFINE d == Len(data)
  <2>1. d = 9 + x + l + k + r /\ Len(e) = 19 + d + c
    BY <1>11, <1>12
  <2> HIDE DEF d, data
  <2> QED
    BY <1>1, <1>4, <1>5, <1>7, <1>8, <1>17, <2>1
<1>19. /\ w.kind = "UPDATE" =>
            At(e, MasksAt(w) + l, Bitmap(0..(w.used_after - 1), n))
       /\ At(e, MasksAt(w), Bitmap(0..(w.used - 1), n))
       /\ At(e, RowsAt(w), all)
  BY <1>13, <1>17 DEF mask, mask_after
<1> QED
  BY <1>12, <1>14, <1>15, <1>16, <1>18, <1>19
  DEF RowsFound, n, f, extra, x, l, r, c, all

-----------------------------------------------------------------------------
(* Where the images of an event are *)

Halves(w) == IF w.kind = "UPDATE" THEN {"before", "after"} ELSE {"before"}
LastHalf(w) == IF w.kind = "UPDATE" THEN "after" ELSE "before"

ImageUsed(w, half) == IF half = "before" THEN w.used ELSE w.used_after
ImageRow(w, half, j) == IF half = "before" THEN w.before[j] ELSE w.after[j]
ImageOf(w, half, j) ==
    StoredImage(w.columns, ImageUsed(w, half), ImageRow(w, half, j))
FieldsOf(w, half, j) ==
    Fields(w.columns, ImageUsed(w, half), ImageRow(w, half, j))

\* Where the rows end, a row begins, an image begins and ends, and in it the
\* fields and a field begin.
RowsLimit(w) == RowsAt(w) + Len(FlattenSeq(StoredRowsOf(w)))
RowBase(w, j) == RowsAt(w) + Len(Before(StoredRowsOf(w), j))
ImageBase(w, half, j) ==
    RowBase(w, j) + (IF half = "after" THEN Len(ImageOf(w, "before", j)) ELSE 0)
ImageEnd(w, half, j) == ImageBase(w, half, j) + Len(ImageOf(w, half, j))
FieldsBase(w, half, j) == ImageBase(w, half, j) + BitBytes(ImageUsed(w, half))
FieldBase(w, half, j, k) ==
    FieldsBase(w, half, j) + Len(Before(FieldsOf(w, half, j), k))

LEMMA ImageIs ==
    ASSUME NEW w, GoodEvent(w), NEW half \in Halves(w), NEW j \in 1..Len(w.before)
    PROVE  /\ half \in {"before", "after"}
           /\ ImageUsed(w, half) \in 1..Len(w.columns)
           /\ ImageUsed(w, half) \in 1..250
           /\ GoodRow(w.columns, ImageRow(w, half, j))
           /\ FieldsOf(w, half, j) \in [1..ImageUsed(w, half) -> Seq(Bytes)]
           /\ ImageOf(w, half, j) \in Seq(Bytes)
           /\ ImageOf(w, half, j) =
                Bitmap(NullBits(ImageUsed(w, half), ImageRow(w, half, j)),
                       ImageUsed(w, half))
                  \o FlattenSeq(FieldsOf(w, half, j))
           /\ FlattenSeq(FieldsOf(w, half, j)) \in Seq(Bytes)
           /\ Len(ImageOf(w, half, j)) =
                BitBytes(ImageUsed(w, half)) + Len(FlattenSeq(FieldsOf(w, half, j)))
           /\ Len(ImageOf(w, half, j)) >= 1
<1> DEFINE u == ImageUsed(w, half)
           r == ImageRow(w, half, j)
           columns == w.columns
<1>1. /\ half \in {"before", "after"} /\ GoodColumns(columns)
      /\ u \in 1..Len(columns) /\ GoodRow(columns, r)
  BY DEF GoodEvent, Halves, ImageUsed, ImageRow
<1> HIDE DEF u, r, columns
<1>2. u \in 1..250
  BY <1>1, UsedIs
<1>3. /\ Fields(columns, u, r) \in [1..u -> Seq(Bytes)]
      /\ FlattenSeq(Fields(columns, u, r)) \in Seq(Bytes)
      /\ StoredImage(columns, u, r) =
           Bitmap(NullBits(u, r), u) \o FlattenSeq(Fields(columns, u, r))
      /\ StoredImage(columns, u, r) \in Seq(Bytes)
      /\ Len(StoredImage(columns, u, r)) =
           BitBytes(u) + Len(FlattenSeq(Fields(columns, u, r)))
      /\ Len(StoredImage(columns, u, r)) >= 1
  BY <1>1, ImageParts
<1> QED
  BY <1>1, <1>2, <1>3 DEF u, r, columns, ImageOf, FieldsOf

LEMMA RowIs ==
    ASSUME NEW w, GoodEvent(w), NEW j \in 1..Len(w.before)
    PROVE  StoredRow(w, j) =
             IF w.kind = "UPDATE" THEN ImageOf(w, "before", j) \o ImageOf(w, "after", j)
             ELSE ImageOf(w, "before", j)
BY DEF StoredRow, ImageOf, ImageUsed, ImageRow

\* Places in an event are numbers.
LEMMA RowsAtIs ==
    ASSUME NEW w, GoodEvent(w)
    PROVE  /\ RowsAt(w) \in Nat /\ MasksAt(w) \in Nat
           /\ Len(FlattenSeq(StoredRowsOf(w))) \in Nat
           /\ RowsLimit(w) \in Nat
<1>1. Len(w.columns) \in Nat /\ Len(w.format.extra) \in Nat
  <2>1. w.format.extra \in Seq(0..255) /\ Len(w.columns) \in 1..250
    BY DEF GoodEvent, GoodColumns, SupportedFormat
  <2> DEFINE n == Len(w.columns)
  <2>2. n \in Nat
    <3>1. n \in 1..250
      BY <2>1
    <3> HIDE DEF n
    <3> QED
      BY <3>1
  <2>3. Len(w.format.extra) \in Nat
    BY <2>1
  <2> QED
    BY <2>2, <2>3
<1>2. BitBytes(Len(w.columns)) \in Nat
  BY <1>1, BitBytesAre
<1> DEFINE x == Len(w.format.extra)
           l == BitBytes(Len(w.columns))
           m == Len(FlattenSeq(StoredRowsOf(w)))
<1>3. FlattenSeq(StoredRowsOf(w)) \in Seq(Bytes)
  BY RowBytes
<1>4. x \in Nat /\ l \in Nat /\ m \in Nat
  BY <1>1, <1>2, <1>3
<1>5. MasksAt(w) = 29 + x /\ RowsAt(w) = 29 + x + l + (IF w.kind = "UPDATE" THEN l ELSE 0)
  BY DEF MasksAt, RowsAt
<1>6. RowsLimit(w) = RowsAt(w) + m
  BY DEF RowsLimit
<1> HIDE DEF x, l, m
<1>7. MasksAt(w) \in Nat /\ RowsAt(w) \in Nat
  BY <1>4, <1>5
<1>8. RowsLimit(w) \in Nat
  BY <1>4, <1>6, <1>7
<1> QED
  BY <1>4, <1>7, <1>8 DEF m

\* A row in the event: where it begins, and the next one.
RowFound(w, e, j) ==
    /\ RowBase(w, j) \in Nat
    /\ At(e, RowBase(w, j), StoredRow(w, j))
    /\ RowBase(w, j + 1) = RowBase(w, j) + Len(StoredRow(w, j))
    /\ RowBase(w, j + 1) <= RowsLimit(w)

LEMMA RowsAreFound ==
    ASSUME NEW w, GoodEvent(w), NEW e, RowsFound(w, e), NEW j \in 1..Len(w.before)
    PROVE  RowFound(w, e, j)
<1> DEFINE s == StoredRowsOf(w)
           n == Len(w.before)
           q == RowsAt(w)
<1>1. n \in Nat /\ s \in [1..n -> Seq(Bytes)] /\ q \in Nat /\ j \in 1..n
  BY RowBytes, RowsAtIs DEF GoodEvent
<1>2. s[j] = StoredRow(w, j)
  BY DEF StoredRowsOf, GoodEvent
<1>3. At(e, q, FlattenSeq(s))
  BY DEF RowsFound
<1> HIDE DEF s, n, q
<1>4. /\ Len(Before(s, j)) \in Nat /\ Len(s[j]) \in Nat
      /\ Len(Before(s, j)) + Len(s[j]) <= Len(FlattenSeq(s))
      /\ At(e, q + Len(Before(s, j)), s[j])
  BY <1>1, <1>3, AtJoined
<1>5. Len(Before(s, j + 1)) = Len(Before(s, j)) + Len(s[j])
  <2>1. Grows(Bytes, s, j)
    BY <1>1, BeforeGrows
  <2> QED
    BY <2>1 DEF Grows
<1> DEFINE a == Len(Before(s, j))
           b == Len(s[j])
           c == Len(FlattenSeq(s))
           d == Len(Before(s, j + 1))
<1>6. /\ a \in Nat /\ b \in Nat /\ a + b <= c /\ d = a + b
      /\ At(e, q + a, s[j])
  BY <1>4, <1>5
<1>7. c \in Nat
  BY RowsAtIs DEF s
<1>8. /\ RowBase(w, j) = q + a /\ RowBase(w, j + 1) = q + d
      /\ RowsLimit(w) = q + c
  BY DEF RowBase, RowsLimit, q, s
<1>9. b = Len(StoredRow(w, j))
  BY <1>2
<1> HIDE DEF a, b, c, d
<1>10. q + a \in Nat /\ q + d = q + a + b /\ q + d <= q + c
  BY <1>1, <1>6, <1>7
<1> QED
  BY <1>2, <1>6, <1>8, <1>9, <1>10 DEF RowFound

LEMMA RowBases ==
    ASSUME NEW w, GoodEvent(w)
    PROVE  /\ RowBase(w, 1) = RowsAt(w)
           /\ RowBase(w, Len(w.before) + 1) = RowsLimit(w)
<1> DEFINE s == StoredRowsOf(w)
           n == Len(w.before)
<1>1. n \in Nat /\ n \in 1..n /\ s \in [1..n -> Seq(Bytes)]
  BY RowBytes DEF GoodEvent
<1>2. Len(Before(s, 1)) = 0
  BY BeforeNone
<1> HIDE DEF s, n
<1>3. FlattenSeq(s) = Before(s, n + 1)
  BY <1>1, BeforeBegins
<1>4. RowsAt(w) + 0 = RowsAt(w)
  BY RowsAtIs
<1> QED
  BY <1>2, <1>3, <1>4 DEF RowBase, RowsLimit, s, n

\* An image: it is where ImageBase says, and there is a byte of it at least.
ImageFound(w, e, half, j) ==
    /\ ImageBase(w, half, j) \in Nat
    /\ At(e, ImageBase(w, half, j), ImageOf(w, half, j))
    /\ ImageEnd(w, half, j) \in Nat
    /\ ImageBase(w, half, j) < ImageEnd(w, half, j)
    /\ ImageEnd(w, half, j) <= RowsLimit(w)
    /\ half # LastHalf(w) => ImageEnd(w, half, j) = ImageBase(w, "after", j)
    /\ half = LastHalf(w) => ImageEnd(w, half, j) = RowBase(w, j + 1)

LEMMA ImagesFound ==
    ASSUME NEW w, GoodEvent(w), NEW e, RowsFound(w, e),
           NEW j \in 1..Len(w.before), NEW half \in Halves(w)
    PROVE  ImageFound(w, e, half, j)
<1> DEFINE a == ImageOf(w, "before", j)
           b == ImageOf(w, "after", j)
           q == RowBase(w, j)
           r == RowBase(w, j + 1)
           z == RowsLimit(w)
           n == Len(a)
           m == Len(b)
<1>1. /\ q \in Nat /\ At(e, q, StoredRow(w, j))
      /\ r = q + Len(StoredRow(w, j)) /\ r <= z /\ z \in Nat
  BY RowsAreFound, RowsAtIs DEF RowFound
<1>2. a \in Seq(Bytes) /\ n >= 1
  <2>1. "before" \in Halves(w)
    BY DEF Halves
  <2> QED
    BY <2>1, ImageIs
<1>3. w.kind = "UPDATE" => b \in Seq(Bytes) /\ m >= 1
  <2>1. w.kind = "UPDATE" => "after" \in Halves(w)
    BY DEF Halves
  <2> QED
    BY <2>1, ImageIs
<1>4. /\ ImageBase(w, "before", j) = q
      /\ ImageBase(w, "after", j) = q + n
      /\ ImageEnd(w, "before", j) = ImageBase(w, "before", j) + n
      /\ ImageEnd(w, "after", j) = q + n + m
  <2>1. q + 0 = q
    BY <1>1
  <2> QED
    BY <2>1 DEF ImageBase, ImageEnd
<1>5. n \in Nat
  BY <1>2
<1>6. CASE w.kind # "UPDATE"
  <2>1. StoredRow(w, j) = a
    BY <1>6, RowIs
  <2>2. half = "before" /\ LastHalf(w) = "before"
    BY <1>6 DEF Halves, LastHalf
  <2>3. At(e, q, a) /\ r = q + n
    BY <1>1, <2>1
  <2>4. ImageBase(w, half, j) = q /\ ImageEnd(w, half, j) = q + n
    BY <1>4, <2>2
  <2>5. ImageOf(w, half, j) = a
    BY <2>2
  <2> HIDE DEF a, b, q, r, z, n, m
  <2>6. q + n \in Nat /\ q < q + n /\ q + n <= z
    BY <1>1, <1>2, <1>5, <2>3
  <2>7. q + n = RowBase(w, j + 1)
    BY <2>3 DEF r
  <2> QED
    BY <1>1, <2>2, <2>3, <2>4, <2>5, <2>6, <2>7 DEF ImageFound, z
<1>7. CASE w.kind = "UPDATE"
  <2>1. StoredRow(w, j) = a \o b
    BY <1>7, RowIs
  <2>2. half \in {"before", "after"} /\ LastHalf(w) = "after"
    BY <1>7 DEF Halves, LastHalf
  <2>3. b \in Seq(Bytes) /\ m >= 1 /\ m \in Nat
    BY <1>3, <1>7
  <2> HIDE DEF a, b, q, r, z
  <2>4. Len(a \o b) = n + m
    <3>1. Len(a \o b) = Len(a) + Len(b)
      BY <1>2, <2>3, ConcatIs
    <3> QED
      BY <3>1
  <2>5. At(e, q, a) /\ At(e, q + n, b)
    <3>1. At(e, q, a) /\ At(e, q + Len(a), b)
      BY <1>1, <1>2, <2>1, <2>3, AtSplit
    <3> QED
      BY <3>1
  <2> HIDE DEF n, m
  <2>6. r = q + (n + m)
    BY <1>1, <2>1, <2>4
  <2>7. /\ q + n \in Nat /\ q + n + m \in Nat /\ q < q + n /\ q + n < q + n + m
        /\ q + n <= z /\ q + n + m <= z /\ r = q + n + m
    BY <1>1, <1>2, <1>5, <2>3, <2>6
  <2>8. CASE half = "before"
    <3>1. /\ ImageBase(w, half, j) = q /\ ImageEnd(w, half, j) = q + n
          /\ ImageOf(w, half, j) = a
          /\ ImageEnd(w, half, j) = ImageBase(w, "after", j)
      BY <1>4, <2>8 DEF a
    <3> QED
      BY <1>1, <2>2, <2>5, <2>7, <2>8, <3>1 DEF ImageFound, z
  <2>9. CASE half = "after"
    <3>1. /\ ImageBase(w, half, j) = q + n /\ ImageEnd(w, half, j) = q + n + m
          /\ ImageOf(w, half, j) = b
          /\ ImageEnd(w, half, j) = RowBase(w, j + 1)
      BY <1>4, <2>7, <2>9 DEF b, r
    <3> QED
      BY <2>2, <2>5, <2>7, <2>9, <3>1 DEF ImageFound, z
  <2> QED
    BY <2>2, <2>8, <2>9
<1> QED
  BY <1>6, <1>7

\* The NULL bits and the fields of an image.
BodyFound(w, e, half, j) ==
    LET u == ImageUsed(w, half)
    IN  /\ At(e, ImageBase(w, half, j),
              Bitmap(NullBits(u, ImageRow(w, half, j)), u))
        /\ At(e, FieldsBase(w, half, j), FlattenSeq(FieldsOf(w, half, j)))
        /\ FieldsBase(w, half, j) \in Nat
        /\ FieldsBase(w, half, j) + Len(FlattenSeq(FieldsOf(w, half, j)))
             = ImageEnd(w, half, j)
        /\ FieldBase(w, half, j, 1) = FieldsBase(w, half, j)
        /\ FieldBase(w, half, j, u + 1) = ImageEnd(w, half, j)

LEMMA BodiesFound ==
    ASSUME NEW w, GoodEvent(w), NEW e, RowsFound(w, e),
           NEW j \in 1..Len(w.before), NEW half \in Halves(w)
    PROVE  BodyFound(w, e, half, j)
<1> DEFINE u == ImageUsed(w, half)
           r == ImageRow(w, half, j)
           fs == FieldsOf(w, half, j)
           bits == Bitmap(NullBits(u, r), u)
           all == FlattenSeq(fs)
           image == ImageOf(w, half, j)
           q == ImageBase(w, half, j)
           l == BitBytes(u)
           m == Len(all)
<1>1. /\ u \in 1..250 /\ fs \in [1..u -> Seq(Bytes)] /\ image = bits \o all
      /\ all \in Seq(Bytes) /\ Len(image) = l + m
  BY ImageIs
<1>2. /\ q \in Nat /\ At(e, q, image) /\ ImageEnd(w, half, j) = q + Len(image)
  BY ImagesFound DEF ImageFound, ImageEnd
<1>3. FieldsBase(w, half, j) = q + l
  BY DEF FieldsBase
<1>4. Len(Before(fs, 1)) = 0
  BY BeforeNone
<1> HIDE DEF u, r, fs
<1>5. u \in Nat /\ u \in 1..u
  BY <1>1
<1>6. bits \in Seq(Bytes) /\ Len(bits) = l /\ l \in Nat
  BY <1>5, BitmapIs DEF BitBytes
<1>7. all = Before(fs, u + 1)
  BY <1>1, <1>5, BeforeBegins
<1>8. m \in Nat
  BY <1>1
<1> HIDE DEF bits, all, image, q, l
<1>9. At(e, q, bits) /\ At(e, q + l, all)
  <2>1. bits \in Seq(Bytes) /\ all \in Seq(Bytes) /\ At(e, q, bits \o all)
    BY <1>1, <1>2, <1>6
  <2>2. At(e, q, bits) /\ At(e, q + Len(bits), all)
    BY <1>2, <2>1, AtSplit
  <2> QED
    BY <1>6, <2>2
<1>10. Len(Before(fs, u + 1)) = m
  BY <1>7
<1> HIDE DEF m
<1>11. ImageEnd(w, half, j) = q + l + m /\ q + l \in Nat
  BY <1>1, <1>2, <1>6, <1>8
<1>12. /\ FieldBase(w, half, j, 1) = q + l + 0
       /\ FieldBase(w, half, j, u + 1) = q + l + m
  BY <1>3, <1>4, <1>10 DEF FieldBase, fs
<1>13. q + l + 0 = q + l
  BY <1>11
<1> QED
  BY <1>3, <1>9, <1>11, <1>12, <1>13 DEF BodyFound, u, r, bits, q, all, fs, m

FieldIsAt(w, e, half, j, k) ==
    LET field == StoredField(w.columns[k], ImageRow(w, half, j)[k])
    IN  /\ FieldBase(w, half, j, k) \in Nat
        /\ At(e, FieldBase(w, half, j, k), field)
        /\ Len(field) \in Nat
        /\ FieldBase(w, half, j, k + 1) = FieldBase(w, half, j, k) + Len(field)
        /\ FieldBase(w, half, j, k + 1) <= ImageEnd(w, half, j)

LEMMA FieldsAreAt ==
    ASSUME NEW w, GoodEvent(w), NEW e, RowsFound(w, e),
           NEW j \in 1..Len(w.before), NEW half \in Halves(w),
           NEW k \in 1..ImageUsed(w, half)
    PROVE  FieldIsAt(w, e, half, j, k)
<1> DEFINE u == ImageUsed(w, half)
           fs == FieldsOf(w, half, j)
           q == FieldsBase(w, half, j)
<1>1. u \in 1..250 /\ fs \in [1..u -> Seq(Bytes)] /\ k \in 1..u
  BY ImageIs
<1>2. /\ At(e, q, FlattenSeq(fs)) /\ q \in Nat
      /\ q + Len(FlattenSeq(fs)) = ImageEnd(w, half, j)
      /\ FlattenSeq(fs) \in Seq(Bytes)
  BY BodiesFound, ImageIs DEF BodyFound
<1>3. fs[k] = StoredField(w.columns[k], ImageRow(w, half, j)[k])
  BY DEF FieldsOf, Fields
<1> HIDE DEF u, fs, q
<1>4. u \in Nat
  BY <1>1
<1>5. /\ Len(Before(fs, k)) \in Nat /\ Len(fs[k]) \in Nat
      /\ Len(Before(fs, k)) + Len(fs[k]) <= Len(FlattenSeq(fs))
      /\ At(e, q + Len(Before(fs, k)), fs[k])
  BY <1>1, <1>2, <1>4, AtJoined
<1>6. Len(Before(fs, k + 1)) = Len(Before(fs, k)) + Len(fs[k])
  <2>1. Grows(Bytes, fs, k)
    BY <1>1, <1>4, BeforeGrows
  <2> QED
    BY <2>1 DEF Grows
<1> DEFINE a == Len(Before(fs, k))
           b == Len(fs[k])
           c == Len(FlattenSeq(fs))
           d == Len(Before(fs, k + 1))
<1>7. /\ a \in Nat /\ b \in Nat /\ a + b <= c /\ d = a + b
      /\ At(e, q + a, fs[k]) /\ q + c = ImageEnd(w, half, j)
  BY <1>2, <1>5, <1>6
<1>8. c \in Nat
  BY <1>2
<1>9. /\ FieldBase(w, half, j, k) = q + a
      /\ FieldBase(w, half, j, k + 1) = q + d
  BY DEF FieldBase, q, fs
<1>10. b = Len(StoredField(w.columns[k], ImageRow(w, half, j)[k]))
  BY <1>3
<1> HIDE DEF a, b, c, d
<1>11. q + a \in Nat /\ q + d = q + a + b /\ q + d <= q + c
  BY <1>2, <1>7, <1>8
<1> QED
  BY <1>3, <1>7, <1>9, <1>10, <1>11 DEF FieldIsAt

\* The metadata of a column are where the columns before it end.
MetaAt(columns, k) ==
    LET q == 1 + Len(Before(Metas(columns), k))
        n == calc_metadata_size(columns[k].type)
    IN  /\ UintKorr(FlattenSeq(Metas(columns)), q, n) = Metadata(columns[k])
        /\ q + n = 1 + Len(Before(Metas(columns), k + 1))

LEMMA MetasAreAt ==
    ASSUME NEW columns, GoodColumns(columns), NEW k \in 1..Len(columns)
    PROVE  MetaAt(columns, k)
<1> DEFINE N == Len(columns)
           ms == Metas(columns)
           M == FlattenSeq(ms)
           c == columns[k]
           n == calc_metadata_size(c.type)
<1>1. /\ N \in Nat /\ ms \in [1..N -> Seq(Bytes)] /\ M \in Seq(Bytes) /\ k \in 1..N
  BY ColumnFacts
<1>2. SupportedColumn(c) /\ ms[k] = c.meta
  BY DEF GoodColumns, Metas
<1>3. /\ c.meta \in Seq(Bytes) /\ Len(c.meta) \in 0..2 /\ n = Len(c.meta)
      /\ \A b \in 1..Len(c.meta) : c.meta[b] \in Bytes
  BY <1>2, MetadataBytes
<1> HIDE DEF N, ms, M, c, n
<1> DEFINE one == 1
<1>4. At(M, one, M) /\ one \in Nat
  BY <1>1, AtItself
<1> HIDE DEF one
<1>5. /\ Len(Before(ms, k)) \in Nat
      /\ At(M, one + Len(Before(ms, k)), ms[k])
  BY <1>1, <1>4, AtJoined DEF M
<1>6. Len(Before(ms, k + 1)) = Len(Before(ms, k)) + Len(ms[k])
  <2>1. Grows(Bytes, ms, k)
    BY <1>1, BeforeGrows
  <2> QED
    BY <2>1 DEF Grows
<1> DEFINE a == Len(Before(ms, k))
           q == 1 + a
<1>7. q \in Nat /\ At(M, q, c.meta) /\ a \in Nat
  BY <1>2, <1>5 DEF one
<1>8. q + n = 1 + Len(Before(ms, k + 1))
  <2>1. Len(Before(ms, k + 1)) = a + n
    BY <1>2, <1>3, <1>6
  <2> HIDE DEF a
  <2>2. n \in Nat
    BY <1>3
  <2> QED
    BY <1>7, <2>1, <2>2
<1> HIDE DEF a, q
<1>9. UintKorr(M, q, n) = Metadata(c)
  <2>1. /\ UintKorr(M, q, 0) = 0 /\ UintKorr(M, q, 1) = Byte(M, q)
        /\ UintKorr(M, q, 2) = Byte(M, q) + 256 * Byte(M, q + 1)
    BY <1>1, <1>7, UintKorrIs
  <2>2. CASE n = 0
    BY <1>3, <2>1, <2>2 DEF Metadata
  <2>3. CASE n = 1
    <3>1. 1 \in 1..Len(c.meta) /\ q + 1 - 1 = q
      BY <1>3, <1>7, <2>3
    <3>2. Byte(M, q + 1 - 1) = c.meta[1]
      BY <1>7, <3>1 DEF At
    <3> QED
      BY <1>3, <2>1, <2>3, <3>1, <3>2 DEF Metadata
  <2>4. CASE n = 2
    <3>1. /\ 1 \in 1..Len(c.meta) /\ q + 1 - 1 = q
          /\ 2 \in 1..Len(c.meta) /\ q + 2 - 1 = q + 1
      BY <1>3, <1>7, <2>4
    <3>2. Byte(M, q + 1 - 1) = c.meta[1] /\ Byte(M, q + 2 - 1) = c.meta[2]
      BY <1>7, <3>1 DEF At
    <3> QED
      BY <1>3, <2>1, <2>4, <3>1, <3>2 DEF Metadata
  <2> QED
    BY <1>3, <2>2, <2>3, <2>4
<1> QED
  BY <1>8, <1>9 DEF MetaAt, N, ms, M, c, n, q, a

-----------------------------------------------------------------------------
(* What a column of an image is to become *)

DecodedOf(columns, used, r) ==
    [k \in 1..Len(columns) |->
        IF k <= used /\ ~r[k].is_null THEN Shown(columns[k], r[k]) ELSE NullValue]

DecodedImage(w, half, j) ==
    DecodedOf(w.columns, ImageUsed(w, half), ImageRow(w, half, j))

\* Whether the column k has a value in the image.
HasValue(w, half, j, k) ==
    k <= ImageUsed(w, half) /\ ~ImageRow(w, half, j)[k].is_null

\* Where update_row() is when it comes to the column k.
PlaceOf(w, half, j, k) ==
    FieldBase(w, half, j,
              IF k <= ImageUsed(w, half) THEN k ELSE ImageUsed(w, half) + 1)

ColumnStep(w, e, half, j, k) ==
    LET type == w.columns[k].type
        metadata == Metadata(w.columns[k])
        q == PlaceOf(w, half, j, k)
        length == calc_field_size(type, e, q, metadata)
    IN  /\ q \in Nat /\ q <= RowsLimit(w)
        /\ PlaceOf(w, half, j, k + 1) <= RowsLimit(w)
        /\ IF HasValue(w, half, j, k)
           THEN /\ length \in Nat \ {0}
                /\ PlaceOf(w, half, j, k + 1) = q + length
                /\ TuneValue(type, e, q, metadata, length) = DecodedImage(w, half, j)[k]
           ELSE /\ PlaceOf(w, half, j, k + 1) = q
                /\ DecodedImage(w, half, j)[k] = NullValue

LEMMA ColumnSteps ==
    ASSUME NEW w, GoodEvent(w), NEW e, RowsFound(w, e),
           NEW j \in 1..Len(w.before), NEW half \in Halves(w),
           NEW k \in 1..Len(w.columns)
    PROVE  ColumnStep(w, e, half, j, k)
<1> DEFINE n == Len(w.columns)
           u == ImageUsed(w, half)
           c == w.columns[k]
           v == ImageRow(w, half, j)[k]
           q == PlaceOf(w, half, j, k)
           r == PlaceOf(w, half, j, k + 1)
           field == StoredField(c, v)
           z == RowsLimit(w)
           y == ImageEnd(w, half, j)
           here == FieldBase(w, half, j, k)
           there == FieldBase(w, half, j, k + 1)
           behind == FieldBase(w, half, j, u + 1)
           decoded == DecodedImage(w, half, j)[k]
<1>1. /\ u \in 1..n /\ u \in Nat /\ n \in Nat /\ k \in 1..n
      /\ SupportedColumn(c) /\ v.is_null \in BOOLEAN /\ v.bytes \in Seq(Bytes)
      /\ v.is_null \/ FitsColumn(c, Len(v.bytes))
  <2>1. u \in 1..n /\ u \in 1..250 /\ GoodRow(w.columns, ImageRow(w, half, j))
    BY ImageIs
  <2>2. GoodColumns(w.columns)
    BY DEF GoodEvent
  <2>4. n \in Nat
    BY <2>2, ColumnFacts
  <2> HIDE DEF u
  <2>3. n \in Nat /\ u \in Nat
    BY <2>1, <2>4
  <2> QED
    BY <2>1, <2>2, <2>3 DEF GoodColumns, GoodRow
<1>2. decoded = IF HasValue(w, half, j, k) THEN Shown(c, v) ELSE NullValue
  BY DEF DecodedImage, DecodedOf, HasValue
<1>3. HasValue(w, half, j, k) <=> k <= u /\ ~v.is_null
  BY DEF HasValue
<1>4. y <= z /\ y \in Nat /\ z \in Nat /\ behind = y
  BY ImagesFound, BodiesFound, RowsAtIs DEF ImageFound, BodyFound
<1>5. k <= u => /\ here \in Nat /\ At(e, here, field) /\ Len(field) \in Nat
                /\ there = here + Len(field) /\ there <= y
  <2> SUFFICES ASSUME k <= u
               PROVE  /\ here \in Nat /\ At(e, here, field) /\ Len(field) \in Nat
                      /\ there = here + Len(field) /\ there <= y
    OBVIOUS
  <2>1. k \in 1..u
    <3> HIDE DEF n, u
    <3> QED
      BY <1>1
  <2>2. FieldIsAt(w, e, half, j, k)
    BY <2>1, FieldsAreAt
  <2> QED
    BY <2>2 DEF FieldIsAt
<1>6. q = IF k <= u THEN here ELSE behind
  BY DEF PlaceOf
<1>7. k <= u => r = there
  <2> SUFFICES ASSUME k <= u PROVE r = there
    OBVIOUS
  <2>1. k + 1 <= u \/ k + 1 = u + 1
    <3> HIDE DEF n, u
    <3> QED
      BY <1>1
  <2> QED
    BY <2>1 DEF PlaceOf
<1>8. ~(k <= u) => r = behind
  <2> SUFFICES ASSUME ~(k <= u) PROVE r = behind
    OBVIOUS
  <2>1. ~(k + 1 <= u)
    <3> HIDE DEF n, u
    <3> QED
      BY <1>1
  <2> QED
    BY <2>1 DEF PlaceOf
<1>9. e \in Seq(Bytes)
  BY DEF RowsFound
<1> HIDE DEF n, u, c, v, q, r, field, z, y, here, there, behind, decoded
<1>10. q \in Nat /\ q <= z /\ r <= z
  <2>1. CASE k <= u
    <3>1. q = here /\ r = there
      BY <1>6, <1>7, <2>1
    <3> DEFINE m == Len(field)
    <3>2. /\ here \in Nat /\ m \in Nat /\ there = here + m /\ there <= y
      BY <1>5, <2>1
    <3> HIDE DEF m
    <3> QED
      BY <1>4, <3>1, <3>2
  <2>2. CASE ~(k <= u)
    BY <1>4, <1>6, <1>8, <2>2
  <2> QED
    BY <2>1, <2>2
<1> DEFINE meta == Metadata(c)
           size == calc_field_size(c.type, e, q, meta)
<1>11. CASE HasValue(w, half, j, k)
  <2>1. k <= u /\ ~v.is_null
    BY <1>3, <1>11
  <2>2. q = here /\ r = there /\ At(e, q, field) /\ Len(field) \in Nat
        /\ r = q + Len(field)
    BY <1>5, <1>6, <1>7, <2>1
  <2>3. Fits(c, v)
    BY <1>1, <2>1 DEF Fits
  <2>4. At(e, q, StoredField(c, v))
    BY <2>2 DEF field
  <2>5. FieldFound(c, v, e, q)
    BY <1>1, <1>9, <1>10, <2>3, <2>4, FieldsFound
  <2>6. /\ size = Len(field) /\ Len(field) >= 1
        /\ TuneValue(c.type, e, q, meta, Len(field)) = Shown(c, v)
    BY <2>5 DEF FieldFound, field
  <2>7. decoded = Shown(c, v)
    BY <1>2, <1>11
  <2> DEFINE m == Len(field)
  <2>8. /\ size = m /\ m >= 1 /\ m \in Nat /\ r = q + m
        /\ TuneValue(c.type, e, q, meta, m) = decoded
    BY <2>2, <2>6, <2>7
  <2> HIDE DEF m, size, meta
  <2>9. size \in Nat \ {0} /\ r = q + size /\ TuneValue(c.type, e, q, meta, size) = decoded
    BY <2>8
  <2> QED
    BY <1>10, <1>11, <2>9 DEF ColumnStep, c, q, r, z, decoded, meta, size
<1>12. CASE ~HasValue(w, half, j, k)
  <2>1. decoded = NullValue
    BY <1>2, <1>12
  <2>2. r = q
    <3>1. CASE k <= u
      <4>1. v.is_null
        BY <1>1, <1>3, <1>12, <3>1
      <4>2. field = <<>> /\ Len(<<>>) = 0
        BY <4>1 DEF field, StoredField
      <4>3. here \in Nat /\ there = here + Len(field)
        BY <1>5, <3>1
      <4>4. there = here + 0
        BY <4>2, <4>3
      <4>5. there = here
        BY <4>3, <4>4
      <4> QED
        BY <1>6, <1>7, <3>1, <4>5
    <3>2. CASE ~(k <= u)
      BY <1>6, <1>8, <3>2
    <3> QED
      BY <3>1, <3>2
  <2> QED
    BY <1>10, <1>12, <2>1, <2>2 DEF ColumnStep, c, q, r, z, decoded
<1> QED
  BY <1>11, <1>12

-----------------------------------------------------------------------------
(* What is written, and its packets *)

OtherEvent(w) == [w EXCEPT !.id = OtherId]

LEMMA ShortNames ==
    /\ Db \in Seq(Bytes) /\ Len(Db) \in Bytes /\ \A k \in 1..Len(Db) : Db[k] # 0
    /\ Name \in Seq(Bytes) /\ Len(Name) \in Bytes
    /\ \A k \in 1..Len(Name) : Name[k] # 0
    /\ OtherName \in Seq(Bytes) /\ Len(OtherName) \in Bytes
    /\ \A k \in 1..Len(OtherName) : OtherName[k] # 0
    /\ Name # OtherName
    /\ FileName \in Seq(Bytes)
    /\ Id \in Seq(Bytes) /\ 6 = Len(Id)
    /\ OtherId \in Seq(Bytes) /\ 6 = Len(OtherId)
    /\ Id # OtherId
<1>1. Db \in Seq(Bytes) /\ Len(Db) \in Bytes /\ \A k \in 1..Len(Db) : Db[k] # 0
  BY DEF Db, Bytes
<1>2. /\ Name \in Seq(Bytes) /\ Len(Name) \in Bytes
      /\ \A k \in 1..Len(Name) : Name[k] # 0
  BY DEF Name, Bytes
<1>3. /\ OtherName \in Seq(Bytes) /\ Len(OtherName) \in Bytes
      /\ \A k \in 1..Len(OtherName) : OtherName[k] # 0
  BY DEF OtherName, Bytes
<1>4. Name # OtherName
  BY DEF Name, OtherName
<1>5. FileName \in Seq(Bytes)
  BY DEF FileName, Bytes
<1>6. Id \in Seq(Bytes) /\ 6 = Len(Id)
  BY DEF Id, Bytes
<1>7. OtherId \in Seq(Bytes) /\ 6 = Len(OtherId)
  BY DEF OtherId, Bytes
<1>8. Id # OtherId
  BY DEF Id, OtherId
<1> QED
  BY <1>1, <1>2, <1>3, <1>4, <1>5, <1>6, <1>7, <1>8

GoodWritten(w) ==
    /\ GoodEvent(w) /\ w.id = Id
    /\ GoodEvent(OtherEvent(w)) /\ OtherEvent(w).id = OtherId
    /\ OtherEvent(w).columns = w.columns /\ OtherEvent(w).format = w.format

LEMMA FunctionIsSequence ==
    ASSUME NEW T, NEW n \in Nat, NEW f \in [1..n -> T]
    PROVE  Len(f) = n /\ DOMAIN f = 1..Len(f)
<1>1. f \in Seq(T)
  OBVIOUS
<1>2. DOMAIN f = 1..n
  OBVIOUS
<1> QED
  BY <1>1, <1>2

LEMMA TableIsGood ==
    ASSUME NEW t, SupportedTable(t)
    PROVE  /\ GoodColumns(t.columns)
           /\ KeyColumns \in 1..Len(t.columns)
           /\ \A r \in t.rows : GoodRow(t.columns, r)
<1> DEFINE columns == t.columns
           n == Len(columns)
<1>1. columns \in Seq(Range(columns))
  BY DEF SupportedTable
<1>2. n \in Nat /\ DOMAIN columns = 1..n
  BY <1>1
<1>3. n \in KeyColumns..250 /\ KeyColumns \in Nat \ {0}
  BY BoundsAssumption DEF SupportedTable
<1>4. n \in 1..250 /\ KeyColumns \in 1..n
  <2> HIDE DEF n
  <2> QED
    BY <1>2, <1>3
<1>5. \A k \in 1..n : SupportedColumn(columns[k])
  <2> SUFFICES ASSUME NEW k \in 1..n PROVE SupportedColumn(columns[k])
    OBVIOUS
  <2>1. columns[k] \in Range(columns)
    BY <1>2 DEF Range
  <2> QED
    BY <2>1 DEF SupportedTable
<1>6. Len(FlattenSeq(Metas(columns))) <= 250
  BY DEF SupportedTable, Metas
<1>7. \A r \in t.rows : GoodRow(columns, r)
  BY <1>2 DEF SupportedTable, GoodRow, Bytes
<1> QED
  BY <1>2, <1>4, <1>5, <1>6, <1>7 DEF GoodColumns

LEMMA WrittenIsGood ==
    ASSUME \A t \in Written : SupportedTable(t), NEW w \in WrittenEvents
    PROVE  GoodWritten(w)
<1>1. PICK t \in Written, kind \in Kinds, n \in 1..MaxRows :
        w \in [id : {Id}, columns : {t.columns}, kind : {kind}, format : Formats,
               used : {KeyColumns, Len(t.columns)},
               used_after : IF kind = "UPDATE" THEN {KeyColumns, Len(t.columns)}
                            ELSE {0},
               before : [1..n -> t.rows],
               after : IF kind = "UPDATE" THEN [1..n -> t.rows] ELSE {<<>>}]
  BY DEF WrittenEvents
<1>2. SupportedTable(t) /\ n \in Nat \ {0} /\ kind \in {"WRITE", "UPDATE", "DELETE"}
  BY <1>1, KindsAssumption, BoundsAssumption
<1>3. /\ GoodColumns(t.columns)
      /\ KeyColumns \in 1..Len(t.columns)
      /\ Len(t.columns) \in 1..Len(t.columns)
      /\ \A r \in t.rows : GoodRow(t.columns, r)
  <2>1. /\ GoodColumns(t.columns) /\ KeyColumns \in 1..Len(t.columns)
        /\ \A r \in t.rows : GoodRow(t.columns, r)
    BY <1>2, TableIsGood
  <2> DEFINE l == Len(t.columns)
  <2>2. l \in 1..250
    BY <2>1 DEF GoodColumns
  <2> HIDE DEF l
  <2>3. l \in 1..l
    BY <2>2
  <2> QED
    BY <2>1, <2>3 DEF l
<1>4. SupportedFormat(w.format)
  BY <1>1, FormatsAssumption
<1>5. /\ w.id = Id /\ w.columns = t.columns /\ w.kind = kind
      /\ w.used \in 1..Len(t.columns)
      /\ w.before \in [1..n -> t.rows]
  BY <1>1, <1>3
<1>6. IF w.kind = "UPDATE"
      THEN w.used_after \in 1..Len(t.columns) /\ w.after \in [1..n -> t.rows]
      ELSE w.after = <<>>
  BY <1>1, <1>3
<1>7. Len(w.before) = n /\ DOMAIN w.before = 1..n
  BY <1>2, <1>5, FunctionIsSequence
<1>8. \A j \in 1..n : GoodRow(w.columns, w.before[j])
  BY <1>3, <1>5
<1>9. w.kind = "UPDATE" =>
        DOMAIN w.after = 1..n /\ \A j \in 1..n : GoodRow(w.columns, w.after[j])
  BY <1>3, <1>5, <1>6
<1>10. GoodEvent(w)
  BY <1>2, <1>3, <1>4, <1>5, <1>6, <1>7, <1>8, <1>9, ShortNames DEF GoodEvent
<1> DEFINE o == OtherEvent(w)
<1>11. /\ o.id = OtherId /\ o.columns = w.columns /\ o.format = w.format
       /\ o.kind = w.kind /\ o.used = w.used /\ o.used_after = w.used_after
       /\ o.before = w.before /\ o.after = w.after
  BY <1>1 DEF OtherEvent
<1>12. GoodEvent(o)
  <2> HIDE DEF o
  <2> QED
    BY <1>10, <1>11, ShortNames DEF GoodEvent
<1> QED
  BY <1>5, <1>10, <1>11, <1>12 DEF GoodWritten

\* What is to be known of the packet k.
PacketIs(w, k, e) ==
    CASE k = 1 -> /\ TypeCode(e) = 4
                  /\ TuneRotate(e, w.format) = [name |-> FileName, pos |-> FileStart]
      [] k = 2 -> /\ TypeCode(e) = 19
                  /\ DatabaseName(e) = Db /\ TableName(e) = Name
                  /\ TuneTableMap(e) = MapOf(Id, w.columns)
      [] k = 3 -> /\ TypeCode(e) = 19
                  /\ DatabaseName(e) = Db /\ TableName(e) = OtherName
      [] k = 4 -> RowsFound(OtherEvent(w), e)
      [] k = 5 -> RowsFound(w, e)
      [] k = 6 -> /\ TypeCode(e) = 2 /\ LogPos(e) = 500
                  /\ QueryAccepted(e, w.format) <=> w.format.status <= MaxStatus
      [] k = 7 -> TypeCode(e) = 16 /\ LogPos(e) = 600

LEMMA PacketsAre ==
    ASSUME NEW w, GoodWritten(w), NEW k \in 1..7
    PROVE  PacketIs(w, k, Packets(w)[k])
<1> DEFINE e == Packets(w)[k]
<1>1. /\ GoodEvent(w) /\ w.id = Id
      /\ w.format.checksum \in BOOLEAN
      /\ w.format.status \in Nat /\ w.format.status < 256^2
      /\ GoodColumns(w.columns)
  <2>1. 2^16 - 1 < 256^2 /\ 2^16 - 1 \in Nat /\ 256^2 \in Nat
    BY SMT
  <2>2. /\ GoodEvent(w) /\ w.id = Id /\ w.format.checksum \in BOOLEAN
        /\ w.format.status \in 0..(2^16 - 1) /\ GoodColumns(w.columns)
    BY DEF GoodWritten, GoodEvent, SupportedFormat
  <2> QED
    BY <2>1, <2>2
<1>2. /\ k = 1 => e = StoredRotate(FileName, FileStart, w.format)
      /\ k = 2 => e = StoredTableMap(200, Id, Db, Name, w.columns, w.format)
      /\ k = 3 => e = StoredTableMap(300, OtherId, Db, OtherName, w.columns, w.format)
      /\ k = 4 => e = StoredRows(OtherEvent(w))
      /\ k = 5 => e = StoredRows(w)
      /\ k = 6 => e = StoredQuery(500, w.format.status, Db, OtherName, w.format)
      /\ k = 7 => e = StoredXid(600, w.format)
  BY <1>1 DEF Packets, OtherEvent
<1> HIDE DEF e
<1>3. k = 1 => PacketIs(w, k, e)
  <2> SUFFICES ASSUME k = 1 PROVE PacketIs(w, k, e)
    OBVIOUS
  <2>1. FileStart \in Nat /\ FileStart < 256^4
    BY SmallPositions DEF FileStart
  <2>2. /\ TypeCode(e) = 4
        /\ TuneRotate(e, w.format) = [name |-> FileName, pos |-> FileStart]
    <3>1. /\ FileName \in Seq(Bytes) /\ w.format.checksum \in BOOLEAN
          /\ e = StoredRotate(FileName, FileStart, w.format)
      BY <1>1, <1>2, ShortNames
    <3> QED
      BY <2>1, <3>1, RotateParts
  <2> QED
    BY <2>2 DEF PacketIs
<1>4. k = 2 => PacketIs(w, k, e)
  <2> SUFFICES ASSUME k = 2 PROVE PacketIs(w, k, e)
    OBVIOUS
  <2> DEFINE z == 200
  <2>1. z \in Nat /\ z < 256^4
    BY SmallPositions
  <2>2. e = StoredTableMap(z, Id, Db, Name, w.columns, w.format)
    BY <1>2
  <2> HIDE DEF z
  <2>3. /\ TypeCode(e) = 19
        /\ DatabaseName(e) = Db /\ TableName(e) = Name
        /\ TuneTableMap(e) = MapOf(Id, w.columns)
    <3>1. /\ Id \in Seq(Bytes) /\ 6 = Len(Id)
          /\ Db \in Seq(Bytes) /\ Len(Db) \in Bytes
          /\ \A b \in 1..Len(Db) : Db[b] # 0
          /\ Name \in Seq(Bytes) /\ Len(Name) \in Bytes
          /\ \A b \in 1..Len(Name) : Name[b] # 0
      BY ShortNames
    <3>2. GoodColumns(w.columns) /\ w.format.checksum \in BOOLEAN
      BY <1>1
    <3> QED
      BY <2>1, <2>2, <3>1, <3>2, TableMapParts
  <2> QED
    BY <2>3 DEF PacketIs
<1>5. k = 3 => PacketIs(w, k, e)
  <2> SUFFICES ASSUME k = 3 PROVE PacketIs(w, k, e)
    OBVIOUS
  <2> DEFINE z == 300
  <2>1. z \in Nat /\ z < 256^4
    BY SmallPositions
  <2>2. e = StoredTableMap(z, OtherId, Db, OtherName, w.columns, w.format)
    BY <1>2
  <2> HIDE DEF z
  <2>3. /\ TypeCode(e) = 19
        /\ DatabaseName(e) = Db /\ TableName(e) = OtherName
    <3>1. /\ OtherId \in Seq(Bytes) /\ 6 = Len(OtherId)
          /\ Db \in Seq(Bytes) /\ Len(Db) \in Bytes
          /\ \A b \in 1..Len(Db) : Db[b] # 0
          /\ OtherName \in Seq(Bytes) /\ Len(OtherName) \in Bytes
          /\ \A b \in 1..Len(OtherName) : OtherName[b] # 0
      BY ShortNames
    <3>2. GoodColumns(w.columns) /\ w.format.checksum \in BOOLEAN
      BY <1>1
    <3> QED
      BY <2>1, <2>2, <3>1, <3>2, TableMapParts
  <2> QED
    BY <2>3 DEF PacketIs
<1>6. k = 4 => PacketIs(w, k, e)
  <2>1. GoodEvent(OtherEvent(w))
    BY DEF GoodWritten
  <2>2. k = 4 => RowsFound(OtherEvent(w), e)
    BY <1>2, <2>1, RowsParts
  <2> QED
    BY <2>2 DEF PacketIs
<1>7. k = 5 => PacketIs(w, k, e)
  <2>1. k = 5 => RowsFound(w, e)
    BY <1>1, <1>2, RowsParts
  <2> QED
    BY <2>1 DEF PacketIs
<1>8. k = 6 => PacketIs(w, k, e)
  <2> SUFFICES ASSUME k = 6 PROVE PacketIs(w, k, e)
    OBVIOUS
  <2> DEFINE z == 500
  <2>1. z \in Nat /\ z < 256^4
    BY SmallPositions
  <2>2. e = StoredQuery(z, w.format.status, Db, OtherName, w.format)
    BY <1>2
  <2> HIDE DEF z
  <2>3. /\ TypeCode(e) = 2 /\ LogPos(e) = z
        /\ QueryAccepted(e, w.format) <=> w.format.status <= MaxStatus
    <3>1. /\ Db \in Seq(Bytes) /\ Len(Db) \in Bytes /\ OtherName \in Seq(Bytes)
          /\ w.format.status \in Nat /\ w.format.status < 256^2
          /\ w.format.checksum \in BOOLEAN
      BY <1>1, ShortNames
    <3> QED
      BY <2>1, <2>2, <3>1, QueryParts
  <2> QED
    BY <2>3 DEF PacketIs, z
<1>9. k = 7 => PacketIs(w, k, e)
  <2> SUFFICES ASSUME k = 7 PROVE PacketIs(w, k, e)
    OBVIOUS
  <2> DEFINE z == 600
  <2>1. z \in Nat /\ z < 256^4
    BY SmallPositions
  <2>2. e = StoredXid(z, w.format)
    BY <1>2
  <2> HIDE DEF z
  <2>3. TypeCode(e) = 16 /\ LogPos(e) = z
    BY <1>1, <2>1, <2>2, XidParts
  <2> QED
    BY <2>3 DEF PacketIs, z
<1> QED
  BY <1>3, <1>4, <1>5, <1>6, <1>7, <1>8, <1>9 DEF e

-----------------------------------------------------------------------------
(* The masks of an event *)

LEMMA MaskIs ==
    ASSUME NEW n, n \in 1..250
    PROVE  MaskLength(n) = BitBytes(n) /\ (HasMask(n) <=> n <= 48)
<1>1. n \in Nat /\ n <= 250
  BY DEF MaskLength
<1>2. BitBytes(n) \in Nat /\ (n <= 48 => BitBytes(n) \in 1..6)
      /\ (n > 48 => BitBytes(n) \in 7..32)
  BY <1>1, BitBytesAre
<1> DEFINE l == BitBytes(n)
<1>3. MaskLength(n) = l % 256
  BY DEF MaskLength, BitBytes
<1> HIDE DEF l
<1>4. l \in Nat /\ l <= 32
  BY <1>1, <1>2 DEF l
<1>5. l % 256 = l
  BY <1>4
<1>6. MaskLength(n) = l
  BY <1>3, <1>5
<1>7. HasMask(n) <=> l \in 1..6
  BY <1>6 DEF HasMask
<1>8. l \in 1..6 <=> n <= 48
  BY <1>1, <1>2 DEF l
<1> QED
  BY <1>6, <1>7, <1>8 DEF l

LEMMA MaskKept ==
    ASSUME NEW u, u \in 1..48
    PROVE  update_n1bits(0..(u - 1)) = [bits |-> 0..(u - 1), n1 |-> u]
<1>1. Cardinality(0..(u - 1)) = u
  <2>1. 0 \in Int /\ u - 1 \in Int /\ ~(0 > u - 1) /\ u - 1 - 0 + 1 = u
    OBVIOUS
  <2> QED
    BY <2>1, FS_Interval
<1>2. (0..(u - 1)) \intersect 0..55 = 0..(u - 1)
  OBVIOUS
<1> QED
  BY <1>1, <1>2 DEF update_n1bits

LEMMA MaskRead ==
    ASSUME NEW n, NEW bits, NEW q, n \in 1..48, bits \subseteq 0..(n - 1), q \in Nat,
           At(buf, q, Bitmap(bits, n))
    PROVE  build_column_mask(q, n) = bits
<1>1. n \in Nat /\ n \in 1..250
  OBVIOUS
<1>2. MaskLength(n) = (n + 7) \div 8
  BY <1>1, MaskIs DEF BitBytes
<1>3. BitsKorr(buf, q, (n + 7) \div 8) = bits
  BY <1>1, BitsAt
<1> QED
  BY <1>2, <1>3 DEF build_column_mask

\* The fields of CRowLogEvent.
MaskOf(u) == [bits |-> 0..(u - 1), n1 |-> u]

EventOf(w) ==
    [ncolumns |-> Len(w.columns), used |-> MaskOf(w.used),
     used_after |-> IF w.kind = "UPDATE" THEN MaskOf(w.used_after) ELSE NoMask]

\* What CRowLogEvent::tune() looks at in the packet in hand.
TuneSees(w) ==
    /\ TypeCode(buf) \in RowsCodes /\ (IsUpdate <=> w.kind = "UPDATE")
    /\ HeaderLen + PostHeaderLen.ROWS + 1
         + (IF TypeCode(buf) \in V2Codes
            THEN UintKorr(buf, HeaderLen + PostHeaderLen.ROWS + 1, 2) ELSE 0)
         = 28 + Len(w.format.extra)
    /\ NetFieldLength(buf, 28 + Len(w.format.extra)).n = Len(w.columns)
    /\ NetFieldLength(buf, 28 + Len(w.format.extra)).next = MasksAt(w)
    /\ MaskLength(Len(w.columns)) = BitBytes(Len(w.columns))
    /\ HasMask(Len(w.columns)) <=> Len(w.columns) <= 48
    /\ TableId(buf) = w.id
    /\ Len(w.columns) <= 48 =>
         /\ update_n1bits(build_column_mask(MasksAt(w), Len(w.columns)))
              = MaskOf(w.used)
         /\ w.kind = "UPDATE" =>
              update_n1bits(build_column_mask(
                  MasksAt(w) + BitBytes(Len(w.columns)), Len(w.columns)))
                = MaskOf(w.used_after)

LEMMA MaskSeen ==
    ASSUME NEW n, NEW u, NEW q, n \in 1..48, u \in 1..n, q \in Nat,
           At(buf, q, Bitmap(0..(u - 1), n))
    PROVE  update_n1bits(build_column_mask(q, n)) = MaskOf(u)
<1>1. 0..(u - 1) \subseteq 0..(n - 1) /\ u \in 1..48
  OBVIOUS
<1>2. build_column_mask(q, n) = 0..(u - 1)
  BY <1>1, MaskRead
<1>3. update_n1bits(0..(u - 1)) = [bits |-> 0..(u - 1), n1 |-> u]
  BY <1>1, MaskKept
<1> QED
  BY <1>2, <1>3 DEF MaskOf

LEMMA TuneSeesRows ==
    ASSUME NEW w, GoodEvent(w), RowsFound(w, buf)
    PROVE  TuneSees(w)
<1> DEFINE n == Len(w.columns)
           x == Len(w.format.extra)
           q == MasksAt(w)
           l == BitBytes(n)
           U == w.kind = "UPDATE"
           u == w.used
           v == w.used_after
<1>1. /\ n \in 1..250 /\ u \in 1..n /\ (U => v \in 1..n)
      /\ w.format.v2 \in BOOLEAN /\ w.format.extra \in Seq(0..255)
      /\ (~w.format.v2 => w.format.extra = <<>>)
  BY DEF GoodEvent, GoodColumns, SupportedFormat
<1>2. x \in Nat /\ (~w.format.v2 => x = 0)
  <2>1. x \in Nat
    BY <1>1
  <2>2. ~w.format.v2 => x = 0
    BY <1>1
  <2> QED
    BY <2>1, <2>2
<1>3. /\ TypeCode(buf) = RowsCode(w) /\ TableId(buf) = w.id
      /\ (w.format.v2 => UintKorr(buf, 28, 2) = x)
      /\ Byte(buf, 28 + x) = n
      /\ At(buf, q, Bitmap(0..(u - 1), n))
      /\ (U => At(buf, q + l, Bitmap(0..(v - 1), n)))
  BY DEF RowsFound
<1>4. /\ RowsCode(w) \in RowsCodes
      /\ RowsCode(w) \in V2Codes <=> w.format.v2
      /\ RowsCode(w) \in UpdateCodes <=> U
  BY RowsCodeIs
<1>5. q = 29 + x
  BY DEF MasksAt
<1>6. HeaderLen + PostHeaderLen.ROWS + 1 = 28
  BY DEF HeaderLen, PostHeaderLen
<1>7. MaskLength(n) = l /\ (HasMask(n) <=> n <= 48)
  <2> HIDE DEF n
  <2> QED
    BY <1>1, MaskIs
<1> HIDE DEF n, x, q, l, U, u, v
<1>8. 28 + (IF TypeCode(buf) \in V2Codes THEN UintKorr(buf, 28, 2) ELSE 0) = 28 + x
  BY <1>2, <1>3, <1>4
<1>9. NetFieldLength(buf, 28 + x).n = n /\ NetFieldLength(buf, 28 + x).next = q
  <2>1. 28 + x \in Nat /\ n \in Nat /\ n <= 250 /\ 28 + x + 1 = q
    BY <1>1, <1>2, <1>5
  <2> DEFINE a == 28 + x
  <2>2. a \in Nat /\ Byte(buf, a) = n /\ a + 1 = q
    BY <1>3, <2>1
  <2> HIDE DEF a
  <2>3. NetFieldLength(buf, a).n = n /\ NetFieldLength(buf, a).next = a + 1
    BY <2>1, <2>2, OneByteAt
  <2> QED
    BY <2>2, <2>3 DEF a
<1>10. ASSUME n <= 48
       PROVE  /\ update_n1bits(build_column_mask(q, n)) = MaskOf(u)
              /\ U => update_n1bits(build_column_mask(q + l, n)) = MaskOf(v)
  <2>1. n \in 1..48 /\ q \in Nat /\ n \in Nat
    BY <1>1, <1>2, <1>5, <1>10
  <2>2. q + l \in Nat
    BY <2>1, BitBytesAre DEF l
  <2>3. update_n1bits(build_column_mask(q, n)) = MaskOf(u)
    BY <1>1, <1>3, <2>1, MaskSeen
  <2>4. U => update_n1bits(build_column_mask(q + l, n)) = MaskOf(v)
    <3> DEFINE a == q + l
    <3>1. a \in Nat /\ (U => At(buf, a, Bitmap(0..(v - 1), n)))
      BY <1>3, <2>2
    <3> HIDE DEF a
    <3>2. U => update_n1bits(build_column_mask(a, n)) = MaskOf(v)
      BY <1>1, <2>1, <3>1, MaskSeen
    <3> QED
      BY <3>2 DEF a
  <2> QED
    BY <2>3, <2>4
<1>11. IsUpdate <=> U
  BY <1>3, <1>4 DEF IsUpdate
<1> QED
  BY <1>3, <1>4, <1>6, <1>7, <1>8, <1>9, <1>10, <1>11
  DEF TuneSees, n, x, q, l, U, u, v

\* What is left of the data behind the masks are the rows.
LEMMA RowsEndIs ==
    ASSUME NEW w, GoodEvent(w), RowsFound(w, buf), fmt = w.format
    PROVE  /\ RowsEnd + 1 = RowsLimit(w) /\ RowsEnd \in Int
           /\ RowsLimit(w) \in Nat /\ RowsAt(w) \in Nat
           /\ RowsEnd - (RowsAt(w) - 1) = RowsLimit(w) - RowsAt(w)
<1> DEFINE r == RowsAt(w)
           m == Len(FlattenSeq(StoredRowsOf(w)))
           c == ChecksumLen(w.format)
           l == Len(buf)
           z == RowsLimit(w)
<1>1. r \in Nat /\ m \in Nat /\ z \in Nat /\ z = r + m
  BY RowsAtIs DEF RowsLimit
<1>2. c \in Nat
  <2>1. w.format.checksum \in BOOLEAN
    BY DEF GoodEvent, SupportedFormat
  <2> QED
    BY <2>1, ChecksumIs
<1>3. l = r - 1 + m + c
  BY DEF RowsFound
<1>4. RowsEnd = l - c
  BY DEF RowsEnd
<1> HIDE DEF r, m, c, l, z
<1>5. /\ RowsEnd + 1 = z /\ RowsEnd \in Int /\ z \in Nat /\ r \in Nat
      /\ RowsEnd - (r - 1) = z - r
  BY <1>1, <1>2, <1>3, <1>4
<1> QED
  BY <1>5 DEF z, r

TuneDoes(w) ==
    /\ pc = "handle"
    /\ \/ Len(w.columns) > 48 /\ pc' = "refused"
            /\ UNCHANGED <<ev, p, len, rows, new_rows>>
       \/ Len(w.columns) <= 48 /\ w.id # tbl.id /\ pc' = "read"
            /\ UNCHANGED <<ev, p, len, rows, new_rows>>
       \/ Len(w.columns) <= 48 /\ w.id = tbl.id
            /\ ev' = EventOf(w) /\ p' = RowsAt(w)
            /\ len' = RowsLimit(w) - RowsAt(w)
            /\ rows' = <<>> /\ new_rows' = <<>>
            /\ pc' = IF len' > 0 THEN "image" ELSE "done"
    /\ UNCHANGED <<packetVars, part, nulls, columnVars>>

LEMMA TuneIs ==
    ASSUME NEW w, GoodEvent(w), RowsFound(w, buf), fmt = w.format, Tune
    PROVE  TuneDoes(w)
<1> DEFINE n == Len(w.columns)
           start == HeaderLen + PostHeaderLen.ROWS + 1
           q == start + (IF TypeCode(buf) \in V2Codes THEN UintKorr(buf, start, 2)
                         ELSE 0)
           m == MasksAt(w)
           l == BitBytes(n)
           a == 28 + Len(w.format.extra)
<1>1. TuneSees(w)
  BY TuneSeesRows
<1>2. /\ q = a
      /\ NetFieldLength(buf, a).n = n /\ NetFieldLength(buf, a).next = m
      /\ MaskLength(n) = l /\ (HasMask(n) <=> n <= 48)
      /\ TableId(buf) = w.id /\ (IsUpdate <=> w.kind = "UPDATE")
  BY <1>1 DEF TuneSees
<1>3. /\ n <= 48 => update_n1bits(build_column_mask(m, n)) = MaskOf(w.used)
      /\ n <= 48 /\ w.kind = "UPDATE" =>
           update_n1bits(build_column_mask(m + l, n)) = MaskOf(w.used_after)
  BY <1>1 DEF TuneSees
<1>4. /\ NetFieldLength(buf, q).n = n /\ NetFieldLength(buf, q).next = m
  BY <1>2
<1> DEFINE data == IF IsUpdate THEN m + 2 * l ELSE m + l
<1>5. data = RowsAt(w)
  <2>1. l \in Nat /\ m \in Nat
    <3>1. n \in Nat
      BY ColumnFacts DEF GoodEvent
    <3> QED
      BY <3>1, BitBytesAre, RowsAtIs
  <2> HIDE DEF l, m
  <2>2. m + 2 * l = m + l + l /\ m + l = m + l + 0
    BY <2>1
  <2> QED
    BY <1>2, <2>2 DEF RowsAt, l, m, n
<1>6. n \in Nat
  BY ColumnFacts DEF GoodEvent
<1>7. /\ pc = "handle"
      /\ \/ ~HasMask(n) /\ pc' = "refused"
              /\ UNCHANGED <<ev, p, len, rows, new_rows>>
         \/ HasMask(n) /\ TableId(buf) # tbl.id /\ pc' = "read"
              /\ UNCHANGED <<ev, p, len, rows, new_rows>>
         \/ HasMask(n) /\ TableId(buf) = tbl.id
              /\ ev' = [ncolumns |-> n,
                        used |-> update_n1bits(build_column_mask(m, n)),
                        used_after |->
                           IF IsUpdate
                           THEN update_n1bits(build_column_mask(m + l, n))
                           ELSE NoMask]
              /\ p' = data
              /\ len' = RowsEnd - (data - 1)
              /\ rows' = <<>> /\ new_rows' = <<>>
              /\ pc' = IF len' > 0 THEN "image" ELSE "done"
      /\ UNCHANGED <<packetVars, part, nulls, columnVars>>
  <2> DEFINE nn == NetFieldLength(buf, q).n
             mm == NetFieldLength(buf, q).next
             ll == MaskLength(nn)
             dd == IF IsUpdate THEN mm + 2 * ll ELSE mm + ll
  <2>1. /\ pc = "handle"
        /\ \/ ~HasMask(nn) /\ pc' = "refused"
                /\ UNCHANGED <<ev, p, len, rows, new_rows>>
           \/ HasMask(nn) /\ TableId(buf) # tbl.id /\ pc' = "read"
                /\ UNCHANGED <<ev, p, len, rows, new_rows>>
           \/ HasMask(nn) /\ TableId(buf) = tbl.id
                /\ ev' = [ncolumns |-> nn,
                          used |-> update_n1bits(build_column_mask(mm, nn)),
                          used_after |->
                             IF IsUpdate
                             THEN update_n1bits(build_column_mask(mm + ll, nn))
                             ELSE NoMask]
                /\ p' = dd
                /\ len' = RowsEnd - (dd - 1)
                /\ rows' = <<>> /\ new_rows' = <<>>
                /\ pc' = IF len' > 0 THEN "image" ELSE "done"
        /\ UNCHANGED <<packetVars, part, nulls, columnVars>>
    BY DEF Tune
  <2>2. nn = n /\ mm = m /\ ll = l
    BY <1>2, <1>4
  <2> HIDE DEF nn, mm, ll
  <2> QED
    BY <2>1, <2>2, Zenon
<1>8. RowsEnd - (RowsAt(w) - 1) = RowsLimit(w) - RowsAt(w)
  BY RowsEndIs
<1> HIDE DEF data, q, start, m, l
<1>9. ASSUME HasMask(n)
      PROVE  [ncolumns |-> n,
              used |-> update_n1bits(build_column_mask(m, n)),
              used_after |-> IF IsUpdate
                             THEN update_n1bits(build_column_mask(m + l, n))
                             ELSE NoMask] = EventOf(w)
  BY <1>2, <1>3, <1>9 DEF EventOf
<1>10. CASE ~HasMask(n)
  BY <1>2, <1>6, <1>7, <1>10 DEF TuneDoes
<1>11. CASE HasMask(n)
  <2>1. n <= 48
    BY <1>2, <1>11
  <2> QED
    BY <1>2, <1>5, <1>7, <1>8, <1>9, <1>11, <2>1 DEF TuneDoes
<1> QED
  BY <1>10, <1>11

-----------------------------------------------------------------------------
(* The rows so far *)

FirstRows(w, half, m) == [j \in 1..m |-> DecodedImage(w, half, j)]

LEMMA AppendLast ==
    ASSUME NEW T, NEW m, NEW f, NEW g,
           m \in Nat, f \in [1..m -> T], g \in [1..(m + 1) -> T],
           \A j \in 1..m : f[j] = g[j]
    PROVE  Append(f, g[m + 1]) = g
<1>1. f \in Seq(T) /\ Len(f) = m /\ g[m + 1] \in T
  <2>1. f \in Seq(T) /\ Len(f) = m
    OBVIOUS
  <2>2. m + 1 \in 1..(m + 1)
    OBVIOUS
  <2> QED
    BY <2>1, <2>2
<1>2. g \in Seq(T) /\ Len(g) = m + 1
  BY <1>1
<1> DEFINE h == Append(f, g[m + 1])
<1>3. h \in Seq(T) /\ Len(h) = m + 1
  BY <1>1
<1>4. \A j \in 1..(m + 1) : h[j] = g[j]
  BY <1>1
<1> HIDE DEF h
<1>5. h = g
  BY <1>2, <1>3, <1>4
<1> QED
  BY <1>5 DEF h

LEMMA RowsGrow ==
    ASSUME NEW w, NEW half, NEW m \in Nat, NEW r, r = DecodedImage(w, half, m + 1)
    PROVE  Append(FirstRows(w, half, m), r) = FirstRows(w, half, m + 1)
<1> DEFINE T == {DecodedImage(w, half, j) : j \in 1..(m + 1)}
           f == FirstRows(w, half, m)
           g == FirstRows(w, half, m + 1)
<1>1. f \in [1..m -> T]
  BY DEF FirstRows
<1>2. g \in [1..(m + 1) -> T]
  BY DEF FirstRows
<1>3. \A j \in 1..m : f[j] = g[j]
  BY DEF FirstRows
<1>4. g[m + 1] = r
  BY DEF FirstRows
<1> HIDE DEF f, g, T
<1>5. Append(f, g[m + 1]) = g
  BY <1>1, <1>2, <1>3, AppendLast
<1> QED
  BY <1>4, <1>5 DEF f, g

LEMMA NoRows ==
    ASSUME NEW w, NEW half
    PROVE  FirstRows(w, half, 0) = <<>>
BY DEF FirstRows

\* What RowsAsWritten asks for.
LEMMA AllRows ==
    ASSUME GoodEvent(written)
    PROVE  /\ FirstRows(written, "before", Len(written.before))
                = DecodedRows(written.used, written.before)
           /\ IF written.kind = "UPDATE"
              THEN FirstRows(written, "after", Len(written.before))
                     = DecodedRows(written.used_after, written.after)
              ELSE <<>> = DecodedRows(written.used_after, written.after)
<1>1. \A used, r : Decoded(used, r) = DecodedOf(table, used, r)
  BY DEF Decoded, DecodedOf, Shown
<1>2. /\ DOMAIN written.before = 1..Len(written.before)
      /\ IF written.kind = "UPDATE"
         THEN DOMAIN written.after = 1..Len(written.before)
         ELSE written.after = <<>>
  BY DEF GoodEvent
<1>3. \A j : /\ DecodedImage(written, "before", j)
                  = DecodedOf(table, written.used, written.before[j])
             /\ DecodedImage(written, "after", j)
                  = DecodedOf(table, written.used_after, written.after[j])
  BY DEF DecodedImage, ImageUsed, ImageRow, table
<1>4. FirstRows(written, "before", Len(written.before))
        = DecodedRows(written.used, written.before)
  BY <1>1, <1>2, <1>3 DEF FirstRows, DecodedRows
<1>5. CASE written.kind = "UPDATE"
  BY <1>1, <1>2, <1>3, <1>4, <1>5 DEF FirstRows, DecodedRows
<1>6. CASE written.kind # "UPDATE"
  BY <1>2, <1>4, <1>6 DEF DecodedRows
<1> QED
  BY <1>5, <1>6

\* The metadata before a column, as CursorsInStep has them.
LEMMA MetadataBefore ==
    ASSUME NEW columns, GoodColumns(columns), NEW k \in 1..(Len(columns) + 1)
    PROVE  Before(Metas(columns), k) = FlattenSeq([c \in 1..(k - 1) |-> columns[c].meta])
<1> DEFINE n == Len(columns)
<1>1. n \in Nat /\ DOMAIN columns = 1..n /\ k \in 1..(n + 1)
  BY ColumnFacts DEF GoodColumns
<1>2. \A c \in 1..(k - 1) : c \in 1..n
  <2> HIDE DEF n
  <2> QED
    BY <1>1
<1>3. \A c \in 1..(k - 1) : Metas(columns)[c] = columns[c].meta
  BY <1>1, <1>2 DEF Metas
<1> QED
  BY <1>3 DEF Before

-----------------------------------------------------------------------------
(* The inductive invariant *)

\* The packets in the order of the stream: the one in hand is the last that was
\* read.
Current == 7 - Len(stream)

StreamAsWritten ==
    /\ pc \in {"read", "handle", "image", "row", "done", "refused"}
    /\ GoodWritten(written)
    /\ stream \in Seq({Packets(written)[k] : k \in 1..7})
    /\ Len(stream) \in 0..7
    /\ \A j \in 1..Len(stream) : stream[j] = Packets(written)[Current + j]
    /\ IF Current = 0 THEN pc = "read" /\ buf = <<>>
       ELSE PacketIs(written, Current, buf)
    /\ pc \in {"image", "row", "done"} => Current = 5
    /\ pc = "refused" => Current \in {4, 5}

\* Events that are done with.
Handled == IF pc = "handle" THEN Current - 1 ELSE Current

PlaceReached ==
    /\ resume = [name |-> resume.name, pos |-> resume.pos]
    /\ Handled >= 1 => resume.name = FileName
    /\ Handled \in 1..5 => resume.pos = FileStart
    /\ Handled = 6 => resume.pos = IF written.format.status <= MaxStatus
                                   THEN 500 ELSE FileStart
    /\ Handled = 7 => resume.pos = 600

TableKnown ==
    Handled >= 2 =>
      /\ tbl = MapOf(Id, table)
      /\ row = [k \in 1..Len(table) |-> row[k]]

\* Outside the loop of CTable::update() there are all rows or none.
RowsComplete ==
    pc \notin {"image", "row"} =>
      /\ part = "before"
      /\ IF Handled < 5 \/ Len(table) > 48
         THEN rows = <<>> /\ new_rows = <<>>
         ELSE /\ rows = DecodedRows(written.used, written.before)
              /\ new_rows = DecodedRows(written.used_after, written.after)

\* In the image part of the row j.
InImage(j) ==
    /\ rows = FirstRows(written, "before", IF part = "after" THEN j ELSE j - 1)
    /\ new_rows = IF written.kind = "UPDATE"
                  THEN FirstRows(written, "after", j - 1) ELSE <<>>
    /\ p + len = RowsLimit(written) /\ p \in Nat /\ len \in Nat
    /\ pc = "image" => p = ImageBase(written, part, j)
    /\ pc = "row" =>
         /\ i \in 1..(Len(table) + 1)
         /\ p = PlaceOf(written, part, j, i)
         /\ nulls = NullBits(ImageUsed(written, part), ImageRow(written, part, j))
         /\ \A k \in 1..(i - 1) : row[k] = DecodedImage(written, part, j)[k]
         /\ len > 0 => pmetadata = 1 + Len(Before(Metas(table), i))

ImagesInStep ==
    pc \in {"image", "row"} =>
      /\ Len(table) <= 48
      /\ part \in Halves(written)
      /\ ev = EventOf(written)
      /\ \E j \in 1..Len(written.before) : InImage(j)

\* The inductive invariant: which event is in hand, what those before it have
\* left, and where in the rows the decoder is.
IInv ==
    StreamAsWritten /\ PlaceReached /\ TableKnown /\ RowsComplete /\ ImagesInStep

LEMMA SevenPackets ==
    ASSUME NEW w
    PROVE  /\ Packets(w) \in Seq({Packets(w)[k] : k \in 1..7})
           /\ Len(Packets(w)) = 7
<1>1. ASSUME NEW a, NEW b, NEW c, NEW d, NEW e, NEW f, NEW g, NEW s,
             s = <<a, b, c, d, e, f, g>>
      PROVE  s \in Seq({s[k] : k \in 1..7}) /\ Len(s) = 7
  <2>1. Len(s) = 7 /\ DOMAIN s = 1..7 /\ s = [k \in 1..7 |-> s[k]]
    BY <1>1
  <2> DEFINE T == {s[k] : k \in 1..7}
  <2>2. \A k \in 1..7 : s[k] \in T
    OBVIOUS
  <2> HIDE DEF T
  <2>3. [k \in 1..7 |-> s[k]] \in Seq(T)
    BY <2>2
  <2> QED
    BY <2>1, <2>3 DEF T
<1> QED
  BY <1>1 DEF Packets

LEMMA Started ==
    ASSUME \A t \in Written : SupportedTable(t), Init
    PROVE  IInv
<1>1. GoodWritten(written)
  BY WrittenIsGood DEF Init
<1>2. /\ stream \in Seq({Packets(written)[k] : k \in 1..7})
      /\ Len(stream) = 7
  BY SevenPackets DEF Init
<1>3. Current = 0 /\ Handled = 0
  BY <1>2 DEF Init, Current, Handled
<1>4. \A j \in 1..Len(stream) : stream[j] = Packets(written)[Current + j]
  BY <1>2, <1>3 DEF Init
<1>5. pc = "read" /\ buf = <<>> /\ part = "before" /\ rows = <<>> /\ new_rows = <<>>
      /\ resume = [name |-> <<>>, pos |-> 0]
  BY DEF Init
<1>6. StreamAsWritten
  BY <1>1, <1>2, <1>3, <1>4, <1>5 DEF StreamAsWritten
<1>7. PlaceReached
  BY <1>3, <1>5 DEF PlaceReached
<1>8. TableKnown
  BY <1>3 DEF TableKnown
<1>9. RowsComplete
  BY <1>3, <1>5 DEF RowsComplete
<1>10. ImagesInStep
  BY <1>5 DEF ImagesInStep
<1> QED
  BY <1>6, <1>7, <1>8, <1>9, <1>10 DEF IInv

\* The type of an event tells which one it is.
LEMMA PacketInHand ==
    ASSUME StreamAsWritten
    PROVE  /\ Current \in 0..7
           /\ pc # "read" => Current \in 1..7
           /\ Current \in 1..7 => PacketIs(written, Current, buf)
           /\ Current \in 1..7 /\ TypeCode(buf) = 4 => Current = 1
           /\ Current \in 1..7 /\ TypeCode(buf) = 19 => Current \in {2, 3}
           /\ Current \in 1..7 /\ TypeCode(buf) = 2 => Current = 6
           /\ Current \in 1..7 /\ TypeCode(buf) = 16 => Current = 7
           /\ Current \in 1..7 /\ TypeCode(buf) \in RowsCodes => Current \in {4, 5}
           /\ Current = 4 => RowsFound(OtherEvent(written), buf)
           /\ Current = 5 => RowsFound(written, buf)
<1>1. Current \in 0..7
  <2> DEFINE l == Len(stream)
  <2>1. l \in 0..7
    BY DEF StreamAsWritten
  <2> HIDE DEF l
  <2>2. 7 - l \in 0..7
    BY <2>1
  <2> QED
    BY <2>2 DEF Current, l
<1> DEFINE k == Current
<1>2. k # 0 => PacketIs(written, k, buf)
  BY DEF StreamAsWritten
<1>3. pc # "read" => k # 0
  BY DEF StreamAsWritten
<1>4. GoodEvent(written) /\ GoodEvent(OtherEvent(written))
  BY DEF StreamAsWritten, GoodWritten
<1>5. k \in 0..7
  BY <1>1
<1> HIDE DEF k
<1>6. /\ k = 1 => TypeCode(buf) = 4
      /\ k = 2 \/ k = 3 => TypeCode(buf) = 19
      /\ k = 4 => RowsFound(OtherEvent(written), buf)
      /\ k = 5 => RowsFound(written, buf)
      /\ k = 6 => TypeCode(buf) = 2
      /\ k = 7 => TypeCode(buf) = 16
  <2>1. ASSUME NEW e, PacketIs(written, 1, e) PROVE TypeCode(e) = 4
    BY <2>1 DEF PacketIs
  <2>2. ASSUME NEW e, PacketIs(written, 2, e) \/ PacketIs(written, 3, e)
        PROVE  TypeCode(e) = 19
    BY <2>2 DEF PacketIs
  <2>3. ASSUME NEW e, PacketIs(written, 4, e) PROVE RowsFound(OtherEvent(written), e)
    BY <2>3 DEF PacketIs
  <2>4. ASSUME NEW e, PacketIs(written, 5, e) PROVE RowsFound(written, e)
    BY <2>4 DEF PacketIs
  <2>5. ASSUME NEW e, PacketIs(written, 6, e) PROVE TypeCode(e) = 2
    BY <2>5 DEF PacketIs
  <2>6. ASSUME NEW e, PacketIs(written, 7, e) PROVE TypeCode(e) = 16
    BY <2>6 DEF PacketIs
  <2>7. \A m \in {1, 2, 3, 4, 5, 6, 7} : k = m => PacketIs(written, m, buf)
    BY <1>2
  <2> QED
    BY <2>1, <2>2, <2>3, <2>4, <2>5, <2>6, <2>7
<1>7. k = 4 \/ k = 5 => TypeCode(buf) \notin {2, 4, 16, 19}
  <2>1. k = 4 => TypeCode(buf) = RowsCode(OtherEvent(written))
    BY <1>6 DEF RowsFound
  <2>2. k = 5 => TypeCode(buf) = RowsCode(written)
    BY <1>6 DEF RowsFound
  <2>3. RowsCode(OtherEvent(written)) \notin {2, 4, 16, 19}
    BY <1>4, RowsCodeIs
  <2>4. RowsCode(written) \notin {2, 4, 16, 19}
    BY <1>4, RowsCodeIs
  <2> QED
    BY <2>1, <2>2, <2>3, <2>4
<1>8. TypeCode(buf) \in RowsCodes => TypeCode(buf) \notin {2, 4, 16, 19}
  BY Codes DEF RowsCodes, V2Codes, V2Code
<1>9. k \in 1..7 <=> k # 0
  BY <1>5
<1>10. k # 0 /\ TypeCode(buf) = 4 => k = 1
  BY <1>5, <1>6, <1>7
<1>11. k # 0 /\ TypeCode(buf) = 19 => k \in {2, 3}
  BY <1>5, <1>6, <1>7
<1>12. k # 0 /\ TypeCode(buf) = 2 => k = 6
  BY <1>5, <1>6, <1>7
<1>13. k # 0 /\ TypeCode(buf) = 16 => k = 7
  BY <1>5, <1>6, <1>7
<1>14. k # 0 /\ TypeCode(buf) \in RowsCodes => k \in {4, 5}
  BY <1>5, <1>6, <1>8
<1>15. k \in 0..7 /\ (k # 0 => PacketIs(written, k, buf))
  BY <1>2, <1>5
<1> QED
  BY <1>3, <1>6, <1>9, <1>10, <1>11, <1>12, <1>13, <1>14, <1>15 DEF k

\* A step that stays with the packet.
LEMMA SamePacket ==
    ASSUME StreamAsWritten, pc # "read", UNCHANGED <<written, stream, buf>>,
           pc' \in {"read", "handle", "image", "row", "done", "refused"},
           pc' \in {"image", "row", "done"} => Current = 5,
           pc' = "refused" => Current \in {4, 5}
    PROVE  StreamAsWritten' /\ Current' = Current
<1>1. Current' = Current
  BY DEF Current
<1>2. Current # 0
  BY DEF StreamAsWritten
<1> QED
  BY <1>1, <1>2 DEF StreamAsWritten

LEMMA TailIs ==
    ASSUME NEW T, NEW s \in Seq(T), s # <<>>
    PROVE  /\ Tail(s) \in Seq(T) /\ Len(Tail(s)) = Len(s) - 1 /\ Len(s) >= 1
           /\ Head(s) = s[1]
           /\ \A j \in 1..(Len(s) - 1) : Tail(s)[j] = s[j + 1]
OBVIOUS

LEMMA PacketRead ==
    ASSUME IInv, ReadPacket
    PROVE  IInv'
<1>1. /\ StreamAsWritten /\ pc = "read" /\ pc' = "handle"
      /\ stream # <<>> /\ buf' = Head(stream) /\ stream' = Tail(stream)
      /\ UNCHANGED <<written, resume, tbl>> /\ RowsUnchanged
  BY DEF IInv, ReadPacket
<1> DEFINE T == {Packets(written)[k] : k \in 1..7}
           l == Len(stream)
<1>2. /\ stream \in Seq(T) /\ l \in 0..7 /\ GoodWritten(written)
      /\ \A j \in 1..l : stream[j] = Packets(written)[7 - l + j]
  BY <1>1 DEF StreamAsWritten, Current
<1>3. /\ stream' \in Seq(T) /\ Len(stream') = l - 1 /\ l >= 1
      /\ buf' = stream[1]
      /\ \A j \in 1..(l - 1) : stream'[j] = stream[j + 1]
  <2> HIDE DEF T
  <2> QED
    BY <1>1, <1>2, TailIs
<1>4. Current' = Current + 1 /\ Current' = 8 - l /\ Current = 7 - l
  BY <1>2, <1>3 DEF Current
<1> HIDE DEF l, T
<1>5. 8 - l \in 1..7 /\ 7 - l + 1 = 8 - l /\ 1 \in 1..l
  BY <1>2, <1>3
<1>6. buf' = Packets(written)[8 - l]
  BY <1>2, <1>3, <1>5
<1>7. PacketIs(written, 8 - l, buf')
  BY <1>2, <1>5, <1>6, PacketsAre
<1>8. \A j \in 1..(l - 1) : stream'[j] = Packets(written)[8 - l + j]
  <2> SUFFICES ASSUME NEW j \in 1..(l - 1)
               PROVE  stream'[j] = Packets(written)[8 - l + j]
    OBVIOUS
  <2>1. j + 1 \in 1..l /\ 7 - l + (j + 1) = 8 - l + j
    BY <1>2, <1>3
  <2>2. stream'[j] = stream[j + 1]
    BY <1>3
  <2>3. stream[j + 1] = Packets(written)[7 - l + (j + 1)]
    BY <1>2, <2>1
  <2> QED
    BY <2>1, <2>2, <2>3
<1>9. StreamAsWritten'
  <2>1. written' = written /\ pc' = "handle"
    BY <1>1
  <2>2. stream' \in Seq({Packets(written')[k] : k \in 1..7})
    BY <1>3, <2>1 DEF T
  <2>3. Len(stream') \in 0..7 /\ Current' # 0
    BY <1>2, <1>3, <1>4, <1>5
  <2>4. \A j \in 1..Len(stream') : stream'[j] = Packets(written')[Current' + j]
    BY <1>3, <1>4, <1>8, <2>1
  <2>5. PacketIs(written', Current', buf')
    BY <1>4, <1>7, <2>1
  <2> QED
    BY <1>2, <2>1, <2>2, <2>3, <2>4, <2>5 DEF StreamAsWritten
<1>10. Handled' = Handled
  <2>1. Current \in Int
    BY <1>2, <1>4
  <2> QED
    BY <1>1, <1>4, <2>1 DEF Handled
<1>11. PlaceReached'
  BY <1>1, <1>10 DEF IInv, PlaceReached
<1>12. TableKnown'
  BY <1>1, <1>10 DEF IInv, TableKnown, RowsUnchanged, columnVars, table
<1>13. RowsComplete'
  BY <1>1, <1>10
  DEF IInv, RowsComplete, RowsUnchanged, columnVars, table, DecodedRows, Decoded
<1>14. ImagesInStep'
  BY <1>1 DEF ImagesInStep
<1> QED
  BY <1>9, <1>11, <1>12, <1>13, <1>14 DEF IInv

\* An event that is not one of rows is done with.
LEMMA EventHandled ==
    ASSUME IInv, NEW codes, Handles(codes), RowsCodes \intersect codes = {}
    PROVE  /\ StreamAsWritten' /\ Current' = Current /\ Current \in 1..7
           /\ pc = "handle" /\ TypeCode(buf) \in codes
           /\ Handled = Current - 1 /\ Handled' = Current
           /\ written' = written
<1>1. /\ StreamAsWritten /\ pc = "handle" /\ pc' = "read"
      /\ TypeCode(buf) \in codes
      /\ UNCHANGED <<written, stream, buf>>
  BY DEF IInv, Handles
<1>2. StreamAsWritten' /\ Current' = Current
  BY <1>1, SamePacket
<1>3. Current \in 1..7
  BY <1>1, PacketInHand
<1> QED
  BY <1>1, <1>2, <1>3 DEF Handled

\* The rows are not touched between the events of rows.
LEMMA RowsKept ==
    ASSUME IInv, pc = "handle", pc' = "read", written' = written,
           UNCHANGED <<part, rows, new_rows>>, Handled' < 5 <=> Handled < 5
    PROVE  RowsComplete' /\ ImagesInStep'
<1>1. RowsComplete'
  BY DEF IInv, RowsComplete, table, DecodedRows, Decoded
<1>2. ImagesInStep'
  BY DEF ImagesInStep
<1> QED
  BY <1>1, <1>2

LEMMA RotateHandled ==
    ASSUME IInv, HandleRotate
    PROVE  IInv'
<1>1. Handles({4}) /\ resume' = TuneRotate(buf, fmt)
      /\ UNCHANGED tbl /\ RowsUnchanged
  BY Codes DEF HandleRotate
<1>2. RowsCodes \intersect {4} = {}
  BY Codes DEF RowsCodes, V2Codes, V2Code
<1>3. /\ StreamAsWritten' /\ Current \in 1..7 /\ TypeCode(buf) = 4
      /\ Handled = Current - 1 /\ Handled' = Current /\ written' = written
      /\ pc = "handle"
  BY <1>1, <1>2, EventHandled
<1>4. Current = 1 /\ PacketIs(written, 1, buf)
  BY <1>3, PacketInHand DEF IInv
<1>5. Handled = 0 /\ Handled' = 1
  BY <1>3, <1>4
<1>6. TuneRotate(buf, fmt) = [name |-> FileName, pos |-> FileStart]
  BY <1>4 DEF PacketIs, fmt
<1>7. resume' = [name |-> FileName, pos |-> FileStart]
  BY <1>1, <1>6
<1>8. PlaceReached'
  BY <1>5, <1>7 DEF PlaceReached
<1>9. TableKnown'
  BY <1>5 DEF TableKnown
<1>10. pc' = "read" /\ UNCHANGED <<part, rows, new_rows>>
  BY <1>1 DEF Handles, RowsUnchanged
<1>11. RowsComplete' /\ ImagesInStep'
  BY <1>3, <1>5, <1>10, RowsKept
<1> QED
  BY <1>3, <1>8, <1>9, <1>11 DEF IInv

\* The position is moved, or not when the event is not accepted.
LEMMA QueryHandled ==
    ASSUME IInv, HandleQuery
    PROVE  IInv'
<1>1. /\ Handles({2}) /\ UNCHANGED tbl /\ RowsUnchanged
      /\ resume' = IF QueryAccepted(buf, fmt)
                   THEN [resume EXCEPT !.pos = LogPos(buf)] ELSE resume
  BY Codes DEF HandleQuery
<1>2. RowsCodes \intersect {2} = {}
  BY Codes DEF RowsCodes, V2Codes, V2Code
<1>3. /\ StreamAsWritten' /\ Current \in 1..7 /\ TypeCode(buf) = 2
      /\ Handled = Current - 1 /\ Handled' = Current /\ written' = written
      /\ pc = "handle"
  BY <1>1, <1>2, EventHandled
<1>4. Current = 6 /\ PacketIs(written, 6, buf)
  BY <1>3, PacketInHand DEF IInv
<1>5. Handled = 5 /\ Handled' = 6
  BY <1>3, <1>4
<1>6. LogPos(buf) = 500 /\ (QueryAccepted(buf, fmt) <=> written.format.status <= MaxStatus)
  BY <1>4 DEF PacketIs, fmt
<1>7. /\ resume = [name |-> resume.name, pos |-> resume.pos]
      /\ resume.name = FileName /\ resume.pos = FileStart
  BY <1>5 DEF IInv, PlaceReached
<1>8. PlaceReached'
  <2>1. resume' = [name |-> FileName,
                   pos |-> IF written.format.status <= MaxStatus
                           THEN 500 ELSE FileStart]
    BY <1>1, <1>6, <1>7
  <2> QED
    BY <1>3, <1>5, <2>1 DEF PlaceReached
<1>9. TableKnown'
  BY <1>1, <1>3, <1>5
  DEF IInv, TableKnown, RowsUnchanged, columnVars, table
<1>10. pc' = "read" /\ UNCHANGED <<part, rows, new_rows>>
  BY <1>1 DEF Handles, RowsUnchanged
<1>11. RowsComplete' /\ ImagesInStep'
  BY <1>3, <1>5, <1>10, RowsKept
<1> QED
  BY <1>3, <1>8, <1>9, <1>11 DEF IInv

LEMMA OtherHandled ==
    ASSUME IInv, HandleOther
    PROVE  IInv'
<1>1. /\ Handles({16}) /\ UNCHANGED tbl /\ RowsUnchanged
      /\ resume' = [resume EXCEPT !.pos = LogPos(buf)]
  BY Codes DEF HandleOther
<1>2. RowsCodes \intersect {16} = {}
  BY Codes DEF RowsCodes, V2Codes, V2Code
<1>3. /\ StreamAsWritten' /\ Current \in 1..7 /\ TypeCode(buf) = 16
      /\ Handled = Current - 1 /\ Handled' = Current /\ written' = written
      /\ pc = "handle"
  BY <1>1, <1>2, EventHandled
<1>4. Current = 7 /\ PacketIs(written, 7, buf)
  BY <1>3, PacketInHand DEF IInv
<1>5. Handled = 6 /\ Handled' = 7
  BY <1>3, <1>4
<1>6. LogPos(buf) = 600
  BY <1>4 DEF PacketIs
<1>7. /\ resume = [name |-> resume.name, pos |-> resume.pos]
      /\ resume.name = FileName
  BY <1>5 DEF IInv, PlaceReached
<1>8. PlaceReached'
  <2>1. resume' = [name |-> FileName, pos |-> 600]
    BY <1>1, <1>6, <1>7
  <2> QED
    BY <1>5, <2>1 DEF PlaceReached
<1>9. TableKnown'
  BY <1>1, <1>3, <1>5
  DEF IInv, TableKnown, RowsUnchanged, columnVars, table
<1>10. pc' = "read" /\ UNCHANGED <<part, rows, new_rows>>
  BY <1>1 DEF Handles, RowsUnchanged
<1>11. RowsComplete' /\ ImagesInStep'
  BY <1>3, <1>5, <1>10, RowsKept
<1> QED
  BY <1>3, <1>8, <1>9, <1>11 DEF IInv

\* The names of the first TABLE_MAP event are those of the watched table, those
\* of the second are not.
LEMMA TableMapHandled ==
    ASSUME IInv, HandleTableMap
    PROVE  IInv'
<1>1. /\ Handles({19})
      /\ \/ /\ IsWatched(DatabaseName(buf), TableName(buf))
            /\ tbl' = TuneTableMap(buf)
            /\ row' = [k \in DOMAIN tbl'.types |->
                         [NullValue EXCEPT !.type = tbl'.types[k]]]
         \/ /\ ~IsWatched(DatabaseName(buf), TableName(buf))
            /\ UNCHANGED <<tbl, row>>
      /\ UNCHANGED <<resume, ev, p, len, part, nulls, i, pmetadata, rows, new_rows>>
  BY Codes DEF HandleTableMap
<1>2. RowsCodes \intersect {19} = {}
  BY Codes DEF RowsCodes, V2Codes, V2Code
<1>3. /\ StreamAsWritten' /\ Current \in 1..7 /\ TypeCode(buf) = 19
      /\ Handled = Current - 1 /\ Handled' = Current /\ written' = written
      /\ pc = "handle"
  BY <1>1, <1>2, EventHandled
<1>4. (Current = 2 \/ Current = 3) /\ PacketIs(written, Current, buf)
  BY <1>3, PacketInHand DEF IInv
<1>5. /\ \/ Handled = 1 /\ Handled' = 2
         \/ Handled = 2 /\ Handled' = 3
      /\ Handled < 5 /\ Handled' < 5
  BY <1>3, <1>4
<1>6. PlaceReached'
  BY <1>1, <1>5 DEF IInv, PlaceReached
<1>7. ASSUME Current = 2 PROVE TableKnown'
  <2>1. PacketIs(written, 2, buf)
    BY <1>4, <1>7
  <2>2. /\ DatabaseName(buf) = Db /\ TableName(buf) = Name
        /\ TuneTableMap(buf) = MapOf(Id, written.columns)
    BY <2>1 DEF PacketIs
  <2>3. tbl' = MapOf(Id, table)
    BY <1>1, <2>2 DEF IsWatched, table
  <2>4. DOMAIN tbl'.types = 1..Len(table)
    BY <2>3 DEF MapOf
  <2>5. row' = [k \in 1..Len(table) |-> row'[k]]
    BY <1>1, <2>2, <2>4 DEF IsWatched
  <2> QED
    BY <1>3, <2>3, <2>5 DEF TableKnown, table
<1>8. ASSUME Current = 3 PROVE TableKnown'
  <2>1. PacketIs(written, 3, buf)
    BY <1>4, <1>8
  <2>2. DatabaseName(buf) = Db /\ TableName(buf) = OtherName
    BY <2>1 DEF PacketIs
  <2>3. Name # OtherName
    BY ShortNames
  <2>4. UNCHANGED <<tbl, row>>
    BY <1>1, <2>2, <2>3 DEF IsWatched
  <2>5. tbl = MapOf(Id, table) /\ row = [k \in 1..Len(table) |-> row[k]]
    BY <1>3, <1>8 DEF IInv, TableKnown
  <2> QED
    BY <1>3, <2>4, <2>5 DEF TableKnown, table
<1>9. TableKnown'
  BY <1>4, <1>7, <1>8
<1>10. pc' = "read" /\ UNCHANGED <<part, rows, new_rows>>
  BY <1>1 DEF Handles
<1>11. RowsComplete' /\ ImagesInStep'
  BY <1>3, <1>5, <1>10, RowsKept
<1> QED
  BY <1>3, <1>6, <1>9, <1>11 DEF IInv

LEMMA FirstImage ==
    ASSUME NEW w, GoodEvent(w), NEW e, RowsFound(w, e), NEW j \in 1..Len(w.before)
    PROVE  /\ ImageBase(w, "before", j) = RowBase(w, j)
           /\ RowBase(w, j) < RowsLimit(w)
<1>1. RowBase(w, j) \in Nat
  BY RowsAreFound DEF RowFound
<1>2. ImageBase(w, "before", j) = RowBase(w, j)
  BY <1>1 DEF ImageBase
<1>3. "before" \in Halves(w)
  BY DEF Halves
<1>4. ImageFound(w, e, "before", j)
  BY <1>3, ImagesFound
<1> DEFINE a == ImageBase(w, "before", j)
           b == ImageEnd(w, "before", j)
           z == RowsLimit(w)
<1>5. a \in Nat /\ b \in Nat /\ a < b /\ b <= z /\ z \in Nat
  BY <1>4, RowsAtIs DEF ImageFound
<1> HIDE DEF a, b, z
<1>6. a < z
  BY <1>5
<1> QED
  BY <1>2, <1>6 DEF a, z

LEMMA OtherRowsTuned ==
    ASSUME IInv, Tune, Current = 4
    PROVE  IInv'
<1> DEFINE o == OtherEvent(written)
<1>1. StreamAsWritten /\ GoodEvent(o) /\ o.id = OtherId /\ fmt = o.format
  BY DEF IInv, StreamAsWritten, GoodWritten, fmt
<1>2. RowsFound(o, buf)
  BY <1>1, PacketInHand
<1> HIDE DEF o
<1>3. TuneDoes(o)
  BY <1>1, <1>2, TuneIs
<1>4. pc = "handle" /\ Handled = 3
  BY <1>3 DEF TuneDoes, Handled
<1>5. tbl.id # o.id
  <2>1. tbl = MapOf(Id, table)
    BY <1>4 DEF IInv, TableKnown
  <2>2. tbl.id = Id
    BY <2>1 DEF MapOf
  <2> QED
    BY <1>1, <2>2, ShortNames
<1>6. pc' \in {"refused", "read"} /\ UNCHANGED <<ev, p, len, rows, new_rows>>
      /\ UNCHANGED <<packetVars, part, nulls, columnVars>>
  BY <1>3, <1>5 DEF TuneDoes
<1>7. UNCHANGED <<written, stream, buf, resume, tbl, part, row, rows, new_rows>>
  BY <1>6 DEF packetVars, columnVars
<1>8. StreamAsWritten' /\ Current' = 4
  BY <1>1, <1>4, <1>6, <1>7, SamePacket
<1>9. Handled' = 4
  BY <1>6, <1>8 DEF Handled
<1>10. PlaceReached'
  BY <1>4, <1>7, <1>9 DEF IInv, PlaceReached
<1>11. TableKnown'
  BY <1>4, <1>7, <1>9 DEF IInv, TableKnown, table
<1>12. RowsComplete'
  BY <1>4, <1>7, <1>9 DEF IInv, RowsComplete
<1>13. ImagesInStep'
  BY <1>6 DEF ImagesInStep
<1> QED
  BY <1>8, <1>10, <1>11, <1>12, <1>13 DEF IInv

LEMMA RowsTuned ==
    ASSUME IInv, Tune, Current = 5
    PROVE  IInv'
<1> DEFINE w == written
<1>1. StreamAsWritten /\ GoodEvent(w) /\ w.id = Id /\ fmt = w.format
  BY DEF IInv, StreamAsWritten, GoodWritten, fmt
<1>2. RowsFound(w, buf)
  BY <1>1, PacketInHand
<1>3. TuneDoes(w)
  BY <1>1, <1>2, TuneIs
<1>4. pc = "handle" /\ Handled = 4
  BY <1>3 DEF TuneDoes, Handled
<1>5. tbl.id = w.id
  <2>1. tbl = MapOf(Id, table)
    BY <1>4 DEF IInv, TableKnown
  <2> QED
    BY <1>1, <2>1 DEF MapOf
<1>6. UNCHANGED <<written, stream, buf, resume, tbl, part, row>>
  BY <1>3 DEF TuneDoes, packetVars, columnVars
<1>7. rows = <<>> /\ new_rows = <<>> /\ part = "before"
  BY <1>4 DEF IInv, RowsComplete
<1>8. \/ Len(table) > 48 /\ pc' = "refused" /\ UNCHANGED <<rows, new_rows>>
      \/ Len(table) <= 48 /\ ev' = EventOf(w) /\ p' = RowsAt(w)
           /\ len' = RowsLimit(w) - RowsAt(w)
           /\ rows' = <<>> /\ new_rows' = <<>>
           /\ pc' = IF len' > 0 THEN "image" ELSE "done"
  BY <1>3, <1>5 DEF TuneDoes, table
<1>9. /\ RowBase(w, 1) = RowsAt(w) /\ ImageBase(w, "before", 1) = RowsAt(w)
      /\ RowsAt(w) < RowsLimit(w) /\ RowsAt(w) \in Nat /\ RowsLimit(w) \in Nat
      /\ 1 \in 1..Len(w.before)
  <2> DEFINE N == Len(w.before)
  <2>1. N \in Nat \ {0}
    BY <1>1 DEF GoodEvent
  <2> HIDE DEF N
  <2>2. 1 \in 1..N
    BY <2>1
  <2>3. 1 \in 1..Len(w.before)
    BY <2>2 DEF N
  <2>4. ImageBase(w, "before", 1) = RowBase(w, 1) /\ RowBase(w, 1) < RowsLimit(w)
    BY <1>1, <1>2, <2>3, FirstImage
  <2>5. RowBase(w, 1) = RowsAt(w) /\ RowsAt(w) \in Nat /\ RowsLimit(w) \in Nat
    BY <1>1, RowBases, RowsAtIs
  <2> QED
    BY <2>3, <2>4, <2>5
<1> DEFINE q == RowsAt(w)
           z == RowsLimit(w)
<1>10. q \in Nat /\ z \in Nat /\ q < z /\ ImageBase(w, "before", 1) = q
  BY <1>9
<1>11. \/ Len(table) > 48 /\ pc' = "refused" /\ UNCHANGED <<rows, new_rows>>
       \/ Len(table) <= 48 /\ ev' = EventOf(w) /\ p' = q /\ len' = z - q
            /\ rows' = <<>> /\ new_rows' = <<>> /\ pc' = "image"
  <2> HIDE DEF q, z
  <2>1. z - q > 0
    BY <1>10
  <2> QED
    BY <1>8, <2>1 DEF q, z
<1>12. pc' \in {"refused", "image"}
  BY <1>11
<1>13. StreamAsWritten' /\ Current' = 5
  BY <1>1, <1>4, <1>6, <1>12, SamePacket
<1>14. Handled' = 5
  BY <1>12, <1>13 DEF Handled
<1>15. PlaceReached'
  BY <1>4, <1>6, <1>14 DEF IInv, PlaceReached
<1>16. TableKnown'
  BY <1>4, <1>6, <1>14 DEF IInv, TableKnown, table
<1>17. RowsComplete'
  BY <1>6, <1>7, <1>11 DEF RowsComplete, table
<1>18. ImagesInStep'
  <2> SUFFICES ASSUME pc' = "image" PROVE ImagesInStep'
    BY <1>12 DEF ImagesInStep
  <2>1. /\ Len(table) <= 48 /\ ev' = EventOf(w) /\ p' = q /\ len' = z - q
        /\ rows' = <<>> /\ new_rows' = <<>> /\ part' = "before" /\ written' = w
    BY <1>6, <1>7, <1>11
  <2>2. /\ p' + len' = z /\ p' \in Nat /\ len' \in Nat
    <3> HIDE DEF q, z
    <3> QED
      BY <1>10, <2>1
  <2>3. /\ FirstRows(w, "before", 1 - 1) = <<>>
        /\ FirstRows(w, "after", 1 - 1) = <<>>
    BY NoRows
  <2>4. InImage(1)'
    BY <1>10, <2>1, <2>2, <2>3 DEF InImage
  <2>5. \E j \in 1..Len(written'.before) : InImage(j)'
    BY <1>9, <2>1, <2>4
  <2>6. part' \in Halves(written') /\ ev' = EventOf(written') /\ Len(table)' <= 48
    BY <2>1 DEF Halves, table
  <2> QED
    BY <2>5, <2>6 DEF ImagesInStep
<1> QED
  BY <1>13, <1>15, <1>16, <1>17, <1>18 DEF IInv

LEMMA Tuned ==
    ASSUME IInv, Tune
    PROVE  IInv'
<1>1. pc = "handle" /\ TypeCode(buf) \in RowsCodes
  BY DEF Tune
<1>2. Current \in {4, 5}
  BY <1>1, PacketInHand DEF IInv
<1> QED
  BY <1>2, OtherRowsTuned, RowsTuned

LEMMA Continued ==
    ASSUME IInv, Continue
    PROVE  IInv'
<1>1. /\ StreamAsWritten /\ pc \in {"done", "refused"} /\ pc' = "read"
      /\ UNCHANGED <<written, stream, buf, resume, tbl, part, row, rows, new_rows>>
  BY DEF IInv, Continue, packetVars, RowsUnchanged, columnVars
<1>2. StreamAsWritten' /\ Current' = Current
  BY <1>1, SamePacket
<1>3. Handled' = Handled
  BY <1>1, <1>2 DEF Handled
<1>4. PlaceReached'
  BY <1>1, <1>3 DEF IInv, PlaceReached
<1>5. TableKnown'
  BY <1>1, <1>3 DEF IInv, TableKnown, table
<1>6. RowsComplete'
  BY <1>1, <1>3 DEF IInv, RowsComplete, table, DecodedRows, Decoded
<1>7. ImagesInStep'
  BY <1>1 DEF ImagesInStep
<1> QED
  BY <1>2, <1>4, <1>5, <1>6, <1>7 DEF IInv

-----------------------------------------------------------------------------
(* The loop of CTable::update() *)

LEMMA InLoop ==
    ASSUME IInv, pc \in {"image", "row"}
    PROVE  /\ StreamAsWritten /\ Current = 5 /\ Handled = 5
           /\ GoodEvent(written) /\ GoodColumns(table)
           /\ RowsFound(written, buf) /\ fmt = written.format
           /\ tbl = MapOf(Id, table) /\ row = [k \in 1..Len(table) |-> row[k]]
           /\ Len(table) <= 48 /\ part \in Halves(written) /\ ev = EventOf(written)
           /\ part \in {"before", "after"}
           /\ \E j \in 1..Len(written.before) : InImage(j)
<1>1. StreamAsWritten /\ Current = 5 /\ GoodEvent(written)
  BY DEF IInv, StreamAsWritten, GoodWritten
<1>2. RowsFound(written, buf)
  BY <1>1, PacketInHand
<1>3. Handled = 5
  BY <1>1 DEF Handled
<1>4. tbl = MapOf(Id, table) /\ row = [k \in 1..Len(table) |-> row[k]]
  BY <1>3 DEF IInv, TableKnown
<1>5. /\ Len(table) <= 48 /\ part \in Halves(written) /\ ev = EventOf(written)
      /\ \E j \in 1..Len(written.before) : InImage(j)
  BY DEF IInv, ImagesInStep
<1>6. part \in {"before", "after"}
  BY <1>5 DEF Halves
<1>7. GoodColumns(table) /\ fmt = written.format
  BY <1>1 DEF GoodEvent, table, fmt
<1> QED
  BY <1>1, <1>2, <1>3, <1>4, <1>5, <1>6, <1>7

LEMMA LoopStep ==
    ASSUME IInv, pc \in {"image", "row"}, pc' \in {"image", "row", "done"},
           UNCHANGED packetVars, row' = [k \in 1..Len(table) |-> row'[k]],
           ImagesInStep', RowsComplete'
    PROVE  IInv'
<1>1. UNCHANGED <<written, stream, buf, resume, tbl>>
  BY DEF packetVars
<1>2. StreamAsWritten /\ Current = 5 /\ Handled = 5 /\ tbl = MapOf(Id, table)
  BY InLoop
<1>3. StreamAsWritten' /\ Current' = Current
  BY <1>1, <1>2, SamePacket
<1>4. Handled' = Handled
  BY <1>2, <1>3 DEF Handled
<1>5. PlaceReached'
  BY <1>1, <1>2, <1>4 DEF IInv, PlaceReached
<1>6. TableKnown'
  BY <1>1, <1>2 DEF TableKnown, table
<1> QED
  BY <1>3, <1>5, <1>6 DEF IInv

LEMMA UsedIsMask ==
    ASSUME NEW w, ev = EventOf(w), part \in Halves(w)
    PROVE  Used = MaskOf(ImageUsed(w, part))
BY DEF EventOf, Halves, Used, ImageUsed

LEMMA ImageBegun ==
    ASSUME IInv, BeginImage
    PROVE  IInv' /\ len' < len /\ len' \in Nat
<1> DEFINE w == written
           n == Len(table)
           u == ImageUsed(w, part)
<1>1. pc = "image" /\ pc' = "row"
  BY DEF BeginImage
<1>2. /\ GoodEvent(w) /\ GoodColumns(table) /\ RowsFound(w, buf)
      /\ row = [k \in 1..n |-> row[k]]
      /\ n <= 48 /\ part \in Halves(w) /\ ev = EventOf(w)
      /\ \E j \in 1..Len(w.before) : InImage(j)
  BY <1>1, InLoop
<1>3. PICK j \in 1..Len(w.before) : InImage(j)
  BY <1>2
<1> DEFINE r == ImageRow(w, part, j)
           a == ImageBase(w, part, j)
           b == PlaceOf(w, part, j, 1)
           l == BitBytes(u)
           z == RowsLimit(w)
<1>4. u \in 1..n /\ n \in Nat
  <2>1. u \in 1..Len(w.columns)
    BY <1>2, ImageIs
  <2>2. n \in Nat
    BY <1>2, ColumnFacts
  <2> QED
    BY <2>1, <2>2 DEF table
<1>5. Used = MaskOf(u)
  BY <1>2, UsedIsMask
<1>6. Used.n1 = u
  BY <1>5 DEF MaskOf
<1>7. u \in 1..48 /\ u \in 1..250 /\ u \in Nat /\ 1 <= u /\ 1 \in 1..n
  <2>1. n <= 48
    BY <1>2
  <2> HIDE DEF u, n
  <2> QED
    BY <1>4, <2>1
<1>8. MaskLength(u) = l /\ HasMask(u) /\ l \in 1..6
  <2> HIDE DEF u
  <2>1. u <= 48
    BY <1>7
  <2> QED
    BY <1>7, <2>1, MaskIs, BitBytesAre
<1>9. /\ p + len = z /\ p = a /\ len \in Nat /\ a \in Nat /\ z \in Nat
      /\ rows = FirstRows(w, "before", IF part = "after" THEN j ELSE j - 1)
      /\ new_rows = IF w.kind = "UPDATE" THEN FirstRows(w, "after", j - 1) ELSE <<>>
  BY <1>1, <1>2, <1>3, RowsAtIs DEF InImage
<1>10. /\ At(buf, a, Bitmap(NullBits(u, r), u))
       /\ b = a + l /\ b <= z
  <2>1. BodyFound(w, buf, part, j)
    BY <1>2, BodiesFound
  <2>2. ColumnStep(w, buf, part, j, 1)
    <3>1. 1 \in 1..Len(w.columns)
      BY <1>7 DEF table
    <3> QED
      BY <1>2, <3>1, ColumnSteps
  <2>3. b = FieldsBase(w, part, j)
    BY <1>7, <2>1 DEF BodyFound, PlaceOf
  <2>4. FieldsBase(w, part, j) = a + l
    BY DEF FieldsBase
  <2> QED
    BY <2>1, <2>2, <2>3, <2>4 DEF BodyFound, ColumnStep
<1>11. /\ nulls' = build_column_mask(p, u) /\ p' = p + l /\ len' = len - l
       /\ i' = 1 /\ pmetadata' = 1
       /\ UNCHANGED <<packetVars, ev, part, row, rows, new_rows>>
  BY <1>6, <1>8 DEF BeginImage
<1>12. NullBits(u, r) \subseteq 0..(u - 1)
  BY DEF NullBits
<1>13. written' = w /\ UNCHANGED <<ev, part, row, rows, new_rows>>
  BY <1>11 DEF packetVars
<1> HIDE DEF u, n, r, a, b, l, z
<1>14. build_column_mask(p, u) = NullBits(u, r)
  <2>1. p \in Nat /\ At(buf, p, Bitmap(NullBits(u, r), u))
    BY <1>9, <1>10
  <2> QED
    BY <1>7, <1>12, <2>1, MaskRead
<1>15. /\ p' + len' = z /\ p' = b /\ p' \in Nat /\ len' \in Nat /\ len' < len
       /\ 1 \in 1..(n + 1)
  BY <1>4, <1>8, <1>9, <1>10, <1>11
<1>16. pmetadata' = 1 + Len(Before(Metas(table), 1))
  BY <1>11, BeforeNone
<1>17. InImage(j)'
  <2>1. /\ i' \in 1..(Len(table') + 1)
        /\ p' = PlaceOf(written', part', j, i')
        /\ p' + len' = RowsLimit(written')
    BY <1>11, <1>13, <1>15 DEF b, z, n, table
  <2>2. nulls' = NullBits(ImageUsed(written', part'), ImageRow(written', part', j))
    BY <1>11, <1>13, <1>14 DEF u, r
  <2>3. \A k \in 1..(i' - 1) :
          row'[k] = DecodedImage(written', part', j)[k]
    BY <1>11
  <2>4. pmetadata' = 1 + Len(Before(Metas(table'), i'))
    BY <1>11, <1>13, <1>16 DEF table
  <2> QED
    BY <1>1, <1>9, <1>13, <1>15, <2>1, <2>2, <2>3, <2>4 DEF InImage
<1>18. ImagesInStep'
  BY <1>2, <1>13, <1>17 DEF ImagesInStep, table, n
<1>19. RowsComplete'
  BY <1>1 DEF RowsComplete
<1>20. row' = [k \in 1..Len(table) |-> row'[k]] /\ UNCHANGED packetVars
  BY <1>2, <1>11, <1>13 DEF n
<1>21. IInv'
  BY <1>1, <1>18, <1>19, <1>20, LoopStep
<1> QED
  BY <1>15, <1>21

\* A step that leaves a column behind.
LEMMA ColumnDone ==
    ASSUME IInv, pc = "row", pc' = "row", NEW j, j \in 1..Len(written.before),
           InImage(j), i \in 1..Len(table),
           UNCHANGED <<packetVars, ev, part, nulls, rows, new_rows>>,
           i' = i + 1,
           row' = [row EXCEPT ![i] = DecodedImage(written, part, j)[i]],
           p' = PlaceOf(written, part, j, i + 1),
           p' + len' = RowsLimit(written), p' \in Nat, len' \in Nat,
           len' > 0 => pmetadata' = 1 + Len(Before(Metas(table), i + 1))
    PROVE  IInv'
<1> DEFINE w == written
           n == Len(table)
           d == DecodedImage(w, part, j)
<1>1. /\ GoodEvent(w) /\ GoodColumns(table) /\ row = [k \in 1..n |-> row[k]]
      /\ n <= 48 /\ part \in Halves(w) /\ ev = EventOf(w)
  BY InLoop
<1>2. n \in Nat
  BY <1>1, ColumnFacts
<1>3. written' = w /\ UNCHANGED <<ev, part, nulls, rows, new_rows>>
  BY DEF packetVars
<1>4. /\ rows = FirstRows(w, "before", IF part = "after" THEN j ELSE j - 1)
      /\ new_rows = IF w.kind = "UPDATE" THEN FirstRows(w, "after", j - 1) ELSE <<>>
      /\ nulls = NullBits(ImageUsed(w, part), ImageRow(w, part, j))
      /\ \A k \in 1..(i - 1) : row[k] = d[k]
  BY DEF InImage
<1>5. i \in 1..n /\ row' = [row EXCEPT ![i] = d[i]]
  OBVIOUS
<1> HIDE DEF n, d
<1>6. row' = [k \in 1..n |-> row'[k]]
  BY <1>1, <1>5
<1>7. i + 1 \in 1..(n + 1) /\ i + 1 - 1 = i
  BY <1>2, <1>5
<1>8. \A k \in 1..i : row'[k] = d[k]
  <2> SUFFICES ASSUME NEW k \in 1..i PROVE row'[k] = d[k]
    OBVIOUS
  <2>1. k \in 1..n /\ (k = i \/ k \in 1..(i - 1))
    BY <1>2, <1>5
  <2>2. row'[k] = IF k = i THEN d[i] ELSE row[k]
    BY <1>1, <1>5, <2>1
  <2> QED
    BY <1>4, <2>1, <2>2
<1>9. InImage(j)'
  <2>1. /\ i' \in 1..(Len(table') + 1)
        /\ p' = PlaceOf(written', part', j, i')
        /\ p' + len' = RowsLimit(written')
    BY <1>3, <1>7 DEF n, table
  <2>2. nulls' = NullBits(ImageUsed(written', part'), ImageRow(written', part', j))
    BY <1>3, <1>4
  <2>3. \A k \in 1..(i' - 1) :
          row'[k] = DecodedImage(written', part', j)[k]
    BY <1>3, <1>7, <1>8 DEF d
  <2>4. len' > 0 => pmetadata' = 1 + Len(Before(Metas(table'), i'))
    BY <1>3 DEF table
  <2> QED
    BY <1>3, <1>4, <2>1, <2>2, <2>3, <2>4 DEF InImage
<1>10. ImagesInStep'
  BY <1>1, <1>3, <1>9 DEF ImagesInStep, table, n
<1>11. RowsComplete'
  BY DEF RowsComplete
<1> QED
  BY <1>6, <1>10, <1>11, LoopStep DEF n

\* The column update_row() is at.
AtColumn(j) ==
    /\ GoodColumns(table) /\ tbl = MapOf(Id, table)
    /\ InImage(j) /\ part \in Halves(written)
    /\ i \in 1..Len(table) /\ Len(table) \in Nat
    /\ ColumnStep(written, buf, part, j, i)
    /\ Used = MaskOf(ImageUsed(written, part))
    /\ p = PlaceOf(written, part, j, i)
    /\ nulls = NullBits(ImageUsed(written, part), ImageRow(written, part, j))
    /\ p + len = RowsLimit(written) /\ RowsLimit(written) \in Nat
    /\ p \in Nat /\ len \in Nat

LEMMA ColumnReached ==
    ASSUME IInv, pc = "row", i <= ev.ncolumns
    PROVE  \E j \in 1..Len(written.before) : AtColumn(j)
<1> DEFINE w == written
           n == Len(table)
<1>1. /\ GoodEvent(w) /\ GoodColumns(table) /\ RowsFound(w, buf)
      /\ tbl = MapOf(Id, table) /\ part \in Halves(w) /\ ev = EventOf(w)
      /\ \E j \in 1..Len(w.before) : InImage(j)
  BY InLoop
<1>2. PICK j \in 1..Len(w.before) : InImage(j)
  BY <1>1
<1>3. n \in Nat /\ RowsLimit(w) \in Nat
  BY <1>1, ColumnFacts, RowsAtIs
<1>4. i <= n
  BY <1>1 DEF EventOf, table
<1>5. /\ i \in 1..(n + 1) /\ p = PlaceOf(w, part, j, i)
      /\ nulls = NullBits(ImageUsed(w, part), ImageRow(w, part, j))
      /\ p + len = RowsLimit(w) /\ p \in Nat /\ len \in Nat
  BY <1>2 DEF InImage
<1>6. i \in 1..n
  <2> HIDE DEF n
  <2> QED
    BY <1>3, <1>4, <1>5
<1>7. ColumnStep(w, buf, part, j, i)
  <2>1. i \in 1..Len(w.columns)
    BY <1>6 DEF table
  <2> QED
    BY <1>1, <2>1, ColumnSteps
<1>8. Used = MaskOf(ImageUsed(w, part))
  BY <1>1, UsedIsMask
<1> QED
  BY <1>1, <1>2, <1>3, <1>5, <1>6, <1>7, <1>8 DEF AtColumn

LEMMA ColumnSkipped ==
    ASSUME IInv, SkipColumn
    PROVE  IInv'
<1>1. /\ pc = "row" /\ i <= ev.ncolumns /\ len <= 0
      /\ row' = [row EXCEPT ![i] = NullValue] /\ i' = i + 1
      /\ UNCHANGED <<packetVars, pc, ev, p, len, part, nulls, pmetadata, rows,
                     new_rows>>
  BY DEF SkipColumn
<1>2. PICK j \in 1..Len(written.before) : AtColumn(j)
  BY <1>1, ColumnReached
<1> DEFINE w == written
           z == RowsLimit(w)
           q == PlaceOf(w, part, j, i)
           r == PlaceOf(w, part, j, i + 1)
           d == DecodedImage(w, part, j)[i]
           size == calc_field_size(w.columns[i].type, buf, q, Metadata(w.columns[i]))
<1>3. /\ InImage(j) /\ i \in 1..Len(table)
      /\ p = q /\ p + len = z /\ z \in Nat /\ p \in Nat /\ len \in Nat
  BY <1>2 DEF AtColumn
<1>4. /\ r <= z
      /\ IF HasValue(w, part, j, i)
         THEN size \in Nat \ {0} /\ r = q + size
         ELSE r = q /\ d = NullValue
  BY <1>2 DEF AtColumn, ColumnStep
<1>5. r = q /\ d = NullValue
  <2> HIDE DEF z, q, r, d, size
  <2>1. len = 0 /\ q = z
    BY <1>1, <1>3
  <2>2. ~HasValue(w, part, j, i)
    BY <1>3, <1>4, <2>1
  <2> QED
    BY <1>4, <2>2
<1>6. row' = [row EXCEPT ![i] = d] /\ p' = r
  BY <1>1, <1>3, <1>5
<1>7. p' + len' = z /\ p' \in Nat /\ len' \in Nat /\ ~(len' > 0)
  <2> HIDE DEF z
  <2> QED
    BY <1>1, <1>3
<1>8. pc' = "row" /\ UNCHANGED <<packetVars, ev, part, nulls, rows, new_rows>>
  BY <1>1
<1>9. j \in 1..Len(written.before)
  BY <1>2
<1> QED
  BY <1>1, <1>3, <1>6, <1>7, <1>8, <1>9, ColumnDone

\* The metadata update_row() looks at are those of the column.
LEMMA MetadataSeen ==
    ASSUME NEW j, AtColumn(j), pc = "row", len > 0
    PROVE  LET msize == calc_metadata_size(tbl.types[i])
           IN  /\ tbl.types[i] = written.columns[i].type
               /\ UintKorr(tbl.metadata, pmetadata, msize) = Metadata(written.columns[i])
               /\ pmetadata + msize = 1 + Len(Before(Metas(table), i + 1))
<1>1. /\ GoodColumns(table) /\ tbl = MapOf(Id, table) /\ i \in 1..Len(table)
      /\ InImage(j)
  BY DEF AtColumn
<1>2. /\ tbl.types[i] = table[i].type
      /\ tbl.metadata = FlattenSeq(Metas(table))
  BY <1>1 DEF MapOf
<1>3. MetaAt(table, i)
  BY <1>1, MetasAreAt
<1>4. pc = "row" => pmetadata = 1 + Len(Before(Metas(table), i))
  BY <1>1 DEF InImage
<1> QED
  BY <1>2, <1>3, <1>4 DEF MetaAt, table

LEMMA ColumnRead ==
    ASSUME IInv, ReadColumn
    PROVE  IInv'
<1> DEFINE w == written
           z == RowsLimit(w)
           q == p
           type == tbl.types[i]
           msize == calc_metadata_size(type)
           metadata == UintKorr(tbl.metadata, pmetadata, msize)
           size == calc_field_size(type, buf, q, metadata)
<1>1. /\ pc = "row" /\ i <= ev.ncolumns /\ len > 0 /\ i' = i + 1
      /\ UNCHANGED <<packetVars, pc, ev, part, nulls, rows, new_rows>>
      /\ pmetadata' = pmetadata + msize
      /\ \/ /\ Present(i)
            /\ row' = [row EXCEPT
                         ![i] = TuneValue(type, buf, q, metadata, size)]
            /\ p' = q + size /\ len' = len - size
         \/ /\ ~Present(i)
            /\ row' = [row EXCEPT ![i] = NullValue]
            /\ UNCHANGED <<p, len>>
  BY DEF ReadColumn
<1>2. PICK j \in 1..Len(written.before) : AtColumn(j)
  BY <1>1, ColumnReached
<1> DEFINE r == PlaceOf(w, part, j, i + 1)
           d == DecodedImage(w, part, j)[i]
           u == ImageUsed(w, part)
           cells == ImageRow(w, part, j)
<1>3. /\ InImage(j) /\ i \in 1..Len(table) /\ Len(table) \in Nat
      /\ q = PlaceOf(w, part, j, i) /\ q + len = z /\ z \in Nat
      /\ q \in Nat /\ len \in Nat
      /\ Used = MaskOf(u) /\ nulls = NullBits(u, cells)
      /\ GoodColumns(table) /\ part \in Halves(w)
  BY <1>2 DEF AtColumn
<1>4. /\ type = w.columns[i].type /\ metadata = Metadata(w.columns[i])
      /\ pmetadata + msize = 1 + Len(Before(Metas(table), i + 1))
  BY <1>1, <1>2, MetadataSeen
<1>5. /\ r <= z
      /\ IF HasValue(w, part, j, i)
         THEN /\ size \in Nat \ {0} /\ r = q + size
              /\ TuneValue(type, buf, q, metadata, size) = d
         ELSE r = q /\ d = NullValue
  <2>1. ColumnStep(w, buf, part, j, i)
    BY <1>2 DEF AtColumn
  <2> HIDE DEF type, metadata
  <2> QED
    BY <1>3, <1>4, <2>1 DEF ColumnStep
<1>6. Present(i) <=> HasValue(w, part, j, i)
  <2>1. GoodEvent(w)
    BY <1>1, InLoop
  <2>2. u \in 1..Len(table)
    BY <1>3, <2>1, ImageIs DEF table
  <2>3. /\ HasValue(w, part, j, i) <=> i <= u /\ ~cells[i].is_null
        /\ Present(i) <=> i - 1 \in 0..(u - 1) /\ i - 1 \notin NullBits(u, cells)
    BY <1>3 DEF HasValue, Present, MaskOf
  <2> DEFINE n == Len(table)
  <2>4. n \in Nat /\ i \in 1..n /\ u \in 1..n
    BY <1>3, <2>2
  <2> HIDE DEF u, cells, n
  <2>5. i - 1 + 1 = i /\ (i - 1 \in 0..(u - 1) <=> i <= u)
    BY <2>4
  <2>6. i - 1 \in 0..(u - 1) => (i - 1 \in NullBits(u, cells) <=> cells[i].is_null)
    BY <2>5 DEF NullBits
  <2> QED
    BY <2>3, <2>5, <2>6
<1> HIDE DEF type, msize, metadata, size, z, r, d, q
<1>7. /\ row' = [row EXCEPT ![i] = d] /\ p' = r
      /\ p' + len' = z /\ p' \in Nat /\ len' \in Nat
  <2>1. q = p
    BY DEF q
  <2>2. CASE Present(i)
    <3>1. /\ size \in Nat \ {0} /\ r = q + size
          /\ TuneValue(type, buf, q, metadata, size) = d
      BY <1>5, <1>6, <2>2
    <3>2. /\ row' = [row EXCEPT ![i] = TuneValue(type, buf, q, metadata, size)]
          /\ p' = q + size /\ len' = len - size
      BY <1>1, <2>2
    <3>3. p' + len' = z /\ p' \in Nat /\ len' \in Nat
      BY <1>3, <1>5, <3>1, <3>2
    <3> QED
      BY <3>1, <3>2, <3>3
  <2>3. CASE ~Present(i)
    <3>1. r = q /\ d = NullValue
      BY <1>5, <1>6, <2>3
    <3>2. row' = [row EXCEPT ![i] = NullValue] /\ UNCHANGED <<p, len>>
      BY <1>1, <2>3
    <3>3. p' + len' = z /\ p' \in Nat /\ len' \in Nat
      BY <1>3, <2>1, <3>2
    <3> QED
      BY <2>1, <3>1, <3>2, <3>3
  <2> QED
    BY <2>2, <2>3
<1>8. pmetadata' = 1 + Len(Before(Metas(table), i + 1))
  BY <1>1, <1>4
<1>9. pc' = "row" /\ UNCHANGED <<packetVars, ev, part, nulls, rows, new_rows>>
  BY <1>1
<1>10. j \in 1..Len(written.before)
  BY <1>2
<1>11. /\ row' = [row EXCEPT ![i] = DecodedImage(written, part, j)[i]]
       /\ p' = PlaceOf(written, part, j, i + 1)
       /\ p' + len' = RowsLimit(written)
  BY <1>7 DEF d, r, z
<1> QED
  BY <1>1, <1>3, <1>7, <1>8, <1>9, <1>10, <1>11, ColumnDone

\* An image of which the last column was read.
ImageRead(j) ==
    /\ InImage(j) /\ row = DecodedImage(written, part, j)
    /\ p = ImageEnd(written, part, j)
    /\ p + len = RowsLimit(written) /\ p \in Nat /\ len \in Nat
    /\ RowsLimit(written) \in Nat

LEMMA ImageComplete ==
    ASSUME IInv, pc = "row", i > ev.ncolumns
    PROVE  \E j \in 1..Len(written.before) : ImageRead(j)
<1> DEFINE w == written
           n == Len(table)
           u == ImageUsed(w, part)
<1>1. /\ GoodEvent(w) /\ GoodColumns(table) /\ RowsFound(w, buf)
      /\ row = [k \in 1..n |-> row[k]]
      /\ part \in Halves(w) /\ ev = EventOf(w)
      /\ \E j \in 1..Len(w.before) : InImage(j)
  BY InLoop
<1>2. PICK j \in 1..Len(w.before) : InImage(j)
  BY <1>1
<1>3. n \in Nat /\ RowsLimit(w) \in Nat
  BY <1>1, ColumnFacts, RowsAtIs
<1>4. i > n
  BY <1>1 DEF EventOf, table
<1> DEFINE d == DecodedImage(w, part, j)
<1>5. /\ i \in 1..(n + 1) /\ p = PlaceOf(w, part, j, i)
      /\ \A k \in 1..(i - 1) : row[k] = d[k]
      /\ p + len = RowsLimit(w) /\ p \in Nat /\ len \in Nat
  BY <1>2 DEF InImage
<1>6. u \in 1..n
  BY <1>1, ImageIs DEF table
<1>7. d = [k \in 1..n |-> d[k]]
  BY DEF DecodedImage, DecodedOf, table
<1> HIDE DEF n, u, d
<1>8. i = n + 1 /\ ~(n + 1 <= u) /\ i - 1 = n
  BY <1>3, <1>4, <1>5, <1>6
<1>9. row = d
  <2>1. \A k \in 1..n : row[k] = d[k]
    BY <1>5, <1>8
  <2>2. [k \in 1..n |-> row[k]] = [k \in 1..n |-> d[k]]
    BY <2>1
  <2> QED
    BY <1>1, <1>7, <2>2 DEF n
<1>10. p = FieldBase(w, part, j, u + 1)
  BY <1>5, <1>8 DEF PlaceOf, u
<1>11. BodyFound(w, buf, part, j)
  BY <1>1, BodiesFound
<1>12. p = ImageEnd(w, part, j)
  BY <1>10, <1>11 DEF BodyFound, u
<1> QED
  BY <1>2, <1>3, <1>5, <1>9, <1>12 DEF ImageRead, d

\* The first image of a row that has two.
FirstHalfEnds == part = "before" /\ written.kind = "UPDATE"

LEMMA HalfEnded ==
    ASSUME IInv, EndImage, FirstHalfEnds
    PROVE  IInv'
<1> DEFINE w == written
<1>1. /\ pc = "row" /\ i > ev.ncolumns /\ part = "before" /\ w.kind = "UPDATE"
      /\ UNCHANGED <<packetVars, ev, p, nulls, columnVars>>
  BY DEF EndImage, FirstHalfEnds
<1>2. PICK j \in 1..Len(w.before) : ImageRead(j)
  BY <1>1, ImageComplete
<1>3. /\ GoodEvent(w) /\ RowsFound(w, buf) /\ Len(table) <= 48 /\ ev = EventOf(w)
      /\ row = [k \in 1..Len(table) |-> row[k]]
  BY <1>1, InLoop
<1>4. IsUpdate
  <2>1. TuneSees(w)
    BY <1>3, TuneSeesRows
  <2> QED
    BY <1>1, <2>1 DEF TuneSees
<1> DEFINE z == RowsLimit(w)
           q == ImageBase(w, "after", j)
           y == ImageEnd(w, "after", j)
<1>5. /\ InImage(j) /\ row = DecodedImage(w, "before", j)
      /\ p = ImageEnd(w, "before", j)
      /\ p + len = z /\ p \in Nat /\ len \in Nat /\ z \in Nat
  BY <1>1, <1>2 DEF ImageRead
<1>6. ImageFound(w, buf, "before", j) /\ ImageFound(w, buf, "after", j)
  <2>1. "before" \in Halves(w) /\ "after" \in Halves(w)
    BY <1>1 DEF Halves
  <2> QED
    BY <1>3, <2>1, ImagesFound
<1>7. p = q /\ q < y /\ y <= z /\ q \in Nat /\ y \in Nat
  <2>1. "before" # LastHalf(w)
    BY <1>1 DEF LastHalf
  <2> QED
    BY <1>5, <1>6, <2>1 DEF ImageFound
<1>8. /\ rows = FirstRows(w, "before", j - 1)
      /\ new_rows = FirstRows(w, "after", j - 1)
  BY <1>1, <1>5 DEF InImage
<1>9. j - 1 \in Nat /\ j - 1 + 1 = j
  <2> DEFINE N == Len(w.before)
  <2>1. N \in Nat /\ j \in 1..N
    BY <1>3 DEF GoodEvent
  <2> HIDE DEF N
  <2> QED
    BY <2>1
<1>10. Append(rows, row) = FirstRows(w, "before", j)
  <2>1. row = DecodedImage(w, "before", j - 1 + 1)
    BY <1>5, <1>9
  <2>2. Append(FirstRows(w, "before", j - 1), row) = FirstRows(w, "before", j - 1 + 1)
    BY <1>9, <2>1, RowsGrow
  <2> QED
    BY <1>8, <1>9, <2>2
<1>11. len > 0 /\ ~(len < 0) /\ len # 0
  <2> HIDE DEF z, q, y
  <2> QED
    BY <1>5, <1>7
<1>12. /\ len' = len /\ rows' = FirstRows(w, "before", j) /\ part' = "after"
       /\ new_rows' = new_rows /\ pc' = "image"
  BY <1>1, <1>4, <1>10, <1>11 DEF EndImage
<1>13. written' = w /\ UNCHANGED <<ev, p, nulls, i, pmetadata, row>>
  BY <1>1 DEF packetVars, columnVars
<1>14. InImage(j)'
  BY <1>1, <1>5, <1>7, <1>8, <1>12, <1>13 DEF InImage
<1>15. ImagesInStep'
  <2>1. part' \in Halves(written') /\ ev' = EventOf(written') /\ Len(table') <= 48
    BY <1>1, <1>3, <1>12, <1>13 DEF Halves, table
  <2> QED
    BY <1>2, <1>13, <1>14, <2>1 DEF ImagesInStep, table
<1>16. RowsComplete'
  BY <1>12 DEF RowsComplete
<1>17. row' = [k \in 1..Len(table) |-> row'[k]]
  BY <1>3, <1>13
<1> QED
  BY <1>1, <1>12, <1>15, <1>16, <1>17, LoopStep

\* The last image of a row: another row, or the end.
LEMMA RowEnded ==
    ASSUME IInv, EndImage, ~FirstHalfEnds
    PROVE  IInv'
<1> DEFINE w == written
           N == Len(w.before)
           U == w.kind = "UPDATE"
           z == RowsLimit(w)
<1>1. /\ pc = "row" /\ i > ev.ncolumns
      /\ UNCHANGED <<packetVars, ev, p, nulls, columnVars>>
  BY DEF EndImage
<1>2. PICK j \in 1..N : ImageRead(j)
  BY <1>1, ImageComplete
<1>3. /\ GoodEvent(w) /\ RowsFound(w, buf) /\ Len(table) <= 48 /\ ev = EventOf(w)
      /\ row = [k \in 1..Len(table) |-> row[k]]
      /\ part \in Halves(w) /\ StreamAsWritten /\ Current = 5
  BY <1>1, InLoop
<1>4. IsUpdate <=> U
  <2>1. TuneSees(w)
    BY <1>3, TuneSeesRows
  <2> QED
    BY <2>1 DEF TuneSees
<1>5. part = LastHalf(w) /\ part = (IF U THEN "after" ELSE "before")
  BY <1>3 DEF Halves, LastHalf, FirstHalfEnds
<1>6. /\ InImage(j) /\ row = DecodedImage(w, part, j)
      /\ p = ImageEnd(w, part, j)
      /\ p + len = z /\ p \in Nat /\ len \in Nat /\ z \in Nat
  BY <1>2 DEF ImageRead
<1>7. p = RowBase(w, j + 1)
  <2>1. ImageFound(w, buf, part, j)
    BY <1>3, ImagesFound
  <2> QED
    BY <1>5, <1>6, <2>1 DEF ImageFound
<1>8. /\ N \in Nat /\ j \in 1..N
  BY <1>2, <1>3 DEF GoodEvent
<1>9. /\ rows = FirstRows(w, "before", IF U THEN j ELSE j - 1)
      /\ new_rows = IF U THEN FirstRows(w, "after", j - 1) ELSE <<>>
  BY <1>5, <1>6 DEF InImage
<1>10. j - 1 \in Nat /\ j - 1 + 1 = j
  <2> HIDE DEF N
  <2> QED
    BY <1>8
<1>11. Append(FirstRows(w, part, j - 1), row) = FirstRows(w, part, j)
  <2>1. row = DecodedImage(w, part, j - 1 + 1)
    BY <1>6, <1>10
  <2>2. Append(FirstRows(w, part, j - 1), row) = FirstRows(w, part, j - 1 + 1)
    BY <1>10, <2>1, RowsGrow
  <2> QED
    BY <1>10, <2>2
<1>12. len' = len
  <2> HIDE DEF z
  <2>1. ~(len < 0)
    BY <1>6
  <2> QED
    BY <2>1 DEF EndImage
<1>13. /\ rows' = FirstRows(w, "before", j)
       /\ new_rows' = IF U THEN FirstRows(w, "after", j) ELSE <<>>
       /\ part' = "before"
       /\ pc' = IF len' = 0 THEN "done" ELSE "image"
  <2>1. CASE U
    BY <1>5, <1>9, <1>11, <2>1 DEF EndImage
  <2>2. CASE ~U
    BY <1>4, <1>5, <1>9, <1>11, <2>2 DEF EndImage
  <2> QED
    BY <2>1, <2>2
<1>14. written' = w /\ UNCHANGED <<ev, p, nulls, i, pmetadata, row, buf, stream>>
  BY <1>1 DEF packetVars, columnVars
<1>15. row' = [k \in 1..Len(table) |-> row'[k]] /\ UNCHANGED packetVars
  BY <1>1, <1>3, <1>14
<1>16. CASE j = N
  <2>1. RowBase(w, N + 1) = z
    BY <1>3, RowBases
  <2>2. p = z
    BY <1>7, <1>16, <2>1
  <2>3. len' = 0
    <3> HIDE DEF z
    <3> QED
      BY <1>6, <1>12, <2>2
  <2>4. pc' = "done"
    BY <1>13, <2>3
  <2>5. Current' = 5 /\ Handled' = 5
    BY <1>3, <1>14, <2>4 DEF Current, Handled
  <2>6. /\ rows' = DecodedRows(w.used, w.before)
        /\ new_rows' = DecodedRows(w.used_after, w.after)
    <3>1. /\ FirstRows(w, "before", N) = DecodedRows(w.used, w.before)
          /\ IF U THEN FirstRows(w, "after", N) = DecodedRows(w.used_after, w.after)
             ELSE <<>> = DecodedRows(w.used_after, w.after)
      BY <1>3, AllRows
    <3> QED
      BY <1>13, <1>16, <3>1
  <2>7. RowsComplete'
    <3>1. /\ rows' = DecodedRows(written.used, written.before)'
          /\ new_rows' = DecodedRows(written.used_after, written.after)'
      BY <1>14, <2>6 DEF DecodedRows, Decoded, table
    <3>2. Len(table)' <= 48 /\ Len(table)' = Len(table) /\ Len(table) \in Nat
      <4>1. Len(table) \in Nat
        BY <1>3, ColumnFacts DEF GoodEvent, table
      <4> QED
        BY <1>3, <1>14, <4>1 DEF table
    <3>3. ~(Len(table)' > 48)
      BY <3>2
    <3> QED
      BY <1>13, <2>5, <3>1, <3>3 DEF RowsComplete
  <2>8. ImagesInStep'
    BY <2>4 DEF ImagesInStep
  <2> QED
    BY <1>1, <1>15, <2>4, <2>7, <2>8, LoopStep
<1>17. CASE j # N
  <2>1. j + 1 \in 1..N /\ j + 1 - 1 = j
    <3> HIDE DEF N
    <3> QED
      BY <1>8, <1>17
  <2>2. ImageBase(w, "before", j + 1) = RowBase(w, j + 1) /\ RowBase(w, j + 1) < z
    BY <1>3, <2>1, FirstImage
  <2>3. p = ImageBase(w, "before", j + 1) /\ p < z
    BY <1>7, <2>2
  <2>4. len' # 0
    <3> HIDE DEF z
    <3> QED
      BY <1>6, <1>12, <2>3
  <2>5. pc' = "image"
    BY <1>13, <2>4
  <2>6. InImage(j + 1)'
    BY <1>6, <1>12, <1>13, <1>14, <2>1, <2>3, <2>5 DEF InImage
  <2>7. ImagesInStep'
    <3>1. part' \in Halves(written') /\ ev' = EventOf(written') /\ Len(table') <= 48
      BY <1>3, <1>13, <1>14 DEF Halves, table
    <3>2. \E k \in 1..Len(written'.before) : InImage(k)'
      BY <1>14, <2>1, <2>6
    <3> QED
      BY <3>1, <3>2 DEF ImagesInStep, table
  <2>8. RowsComplete'
    BY <2>5 DEF RowsComplete
  <2> QED
    BY <1>1, <1>15, <2>5, <2>7, <2>8, LoopStep
<1> QED
  BY <1>16, <1>17

LEMMA NothingHappens ==
    ASSUME IInv, UNCHANGED vars
    PROVE  IInv'
<1>1. /\ UNCHANGED <<written, stream, buf, resume, tbl, pc, ev, p, len, part, nulls>>
      /\ UNCHANGED <<i, pmetadata, row, rows, new_rows>>
  BY DEF vars, packetVars, columnVars
<1>2. Current' = Current /\ Handled' = Handled
  BY <1>1 DEF Current, Handled
<1>3. StreamAsWritten'
  BY <1>1, <1>2 DEF IInv, StreamAsWritten
<1>4. PlaceReached'
  BY <1>1, <1>2 DEF IInv, PlaceReached
<1>5. TableKnown'
  BY <1>1, <1>2 DEF IInv, TableKnown, table
<1>6. RowsComplete'
  BY <1>1, <1>2 DEF IInv, RowsComplete, table, DecodedRows, Decoded
<1>7. ImagesInStep'
  <2>1. \A j : InImage(j) => InImage(j)'
    BY <1>1 DEF InImage, table
  <2> QED
    BY <1>1, <2>1 DEF IInv, ImagesInStep, table
<1> QED
  BY <1>3, <1>4, <1>5, <1>6, <1>7 DEF IInv

LEMMA Preserved ==
    ASSUME IInv, [Next]_vars
    PROVE  IInv'
<1>1. CASE ReadPacket
  BY <1>1, PacketRead
<1>2. CASE HandleRotate
  BY <1>2, RotateHandled
<1>3. CASE HandleQuery
  BY <1>3, QueryHandled
<1>4. CASE HandleTableMap
  BY <1>4, TableMapHandled
<1>5. CASE HandleOther
  BY <1>5, OtherHandled
<1>6. CASE Tune
  BY <1>6, Tuned
<1>7. CASE BeginImage
  BY <1>7, ImageBegun
<1>8. CASE SkipColumn
  BY <1>8, ColumnSkipped
<1>9. CASE ReadColumn
  BY <1>9, ColumnRead
<1>10. CASE EndImage
  BY <1>10, HalfEnded, RowEnded
<1>11. CASE Continue
  BY <1>11, Continued
<1>12. CASE Ended
  BY <1>12, NothingHappens DEF Ended
<1>13. CASE UNCHANGED vars
  BY <1>13, NothingHappens
<1> QED
  BY <1>1, <1>2, <1>3, <1>4, <1>5, <1>6, <1>7, <1>8, <1>9, <1>10, <1>11, <1>12,
     <1>13 DEF Next

-----------------------------------------------------------------------------
(* The properties *)

LEMMA Reaches ==
    ASSUME \A t \in Written : SupportedTable(t)
    PROVE  Spec => []IInv
<1>1. Init => IInv
  BY Started
<1>2. IInv /\ [Next]_vars => IInv'
  BY Preserved
<1> QED
  BY <1>1, <1>2, PTL DEF Spec

\* The end of the packets and the end of the rows: every row is there.
LEMMA RowsOfInvariant ==
    ASSUME IInv
    PROVE  RowsAsWritten
<1>1. pc = "done" => Handled = 5
  BY DEF IInv, StreamAsWritten, Handled
<1>2. AtEnd => pc = "read" /\ Handled = 7
  <2> SUFFICES ASSUME AtEnd PROVE pc = "read" /\ Handled = 7
    OBVIOUS
  <2>1. pc = "read" /\ Len(stream) = 0
    BY DEF AtEnd
  <2> QED
    BY <2>1 DEF Handled, Current
<1> QED
  BY <1>1, <1>2 DEF IInv, RowsComplete, RowsAsWritten

LEMMA CursorsOfInvariant ==
    ASSUME IInv
    PROVE  CursorsInStep
<1> SUFFICES ASSUME pc \in {"image", "row"}
             PROVE  /\ p + len = RowsEnd + 1 /\ len >= 0
                    /\ pc = "row" /\ len > 0 =>
                         pmetadata = 1 + Len(FlattenSeq([k \in 1..(i - 1) |-> table[k].meta]))
  BY DEF CursorsInStep
<1>1. /\ GoodEvent(written) /\ RowsFound(written, buf) /\ GoodColumns(table)
      /\ fmt = written.format
      /\ \E j \in 1..Len(written.before) : InImage(j)
  BY InLoop
<1>2. PICK j \in 1..Len(written.before) : InImage(j)
  BY <1>1
<1>3. p + len = RowsLimit(written) /\ len \in Nat
  BY <1>2 DEF InImage
<1>4. RowsEnd + 1 = RowsLimit(written)
  BY <1>1, RowsEndIs
<1>5. pc = "row" =>
        /\ i \in 1..(Len(table) + 1)
        /\ len > 0 => pmetadata = 1 + Len(Before(Metas(table), i))
  BY <1>2 DEF InImage
<1>6. pc = "row" =>
        Before(Metas(table), i) = FlattenSeq([k \in 1..(i - 1) |-> table[k].meta])
  BY <1>1, <1>5, MetadataBefore
<1>7. len >= 0
  BY <1>3
<1> QED
  BY <1>3, <1>4, <1>5, <1>6, <1>7

LEMMA PlaceOfInvariant ==
    ASSUME IInv
    PROVE  PositionAsWritten
<1>1. /\ StreamAsWritten /\ PlaceReached
  BY DEF IInv
<1>2. Current \in 0..7
  BY <1>1, PacketInHand
<1>3. pc = "read" => Handled = Current
  BY DEF Handled
<1>4. pc = "read" /\ buf # <<>> => Current # 0
  BY <1>1 DEF StreamAsWritten
<1> SUFFICES ASSUME pc = "read", buf # <<>>
             PROVE  resume = [name |-> FileName, pos |-> PlaceBehind(buf)]
  BY DEF PositionAsWritten
<1> DEFINE k == Current
<1>5. k \in 1..7 /\ Handled = k /\ resume.name = FileName
      /\ resume = [name |-> resume.name, pos |-> resume.pos]
  BY <1>1, <1>2, <1>3, <1>4 DEF PlaceReached
<1>6. /\ TypeCode(buf) = 2 <=> k = 6
      /\ TypeCode(buf) = 16 <=> k = 7
  <2>1. k = 6 => TypeCode(buf) = 2
    BY <1>1, <1>5, PacketInHand DEF PacketIs
  <2>2. k = 7 => TypeCode(buf) = 16
    BY <1>1, <1>5, PacketInHand DEF PacketIs
  <2> QED
    BY <1>1, <1>5, <2>1, <2>2, PacketInHand
<1>7. EventCode.QUERY = 2 /\ EventCode.XID = 16
  BY Codes
<1> HIDE DEF k
<1>8. resume.pos = PlaceBehind(buf)
  <2>1. CASE k = 7
    BY <1>1, <1>5, <1>6, <1>7, <2>1 DEF PlaceReached, PlaceBehind
  <2>2. CASE k = 6
    BY <1>1, <1>5, <1>6, <1>7, <2>2 DEF PlaceReached, PlaceBehind
  <2>3. CASE k \in 1..5
    BY <1>1, <1>5, <1>6, <1>7, <2>3 DEF PlaceReached, PlaceBehind
  <2> QED
    BY <1>5, <2>1, <2>2, <2>3
<1> QED
  BY <1>5, <1>8

\* For every table of columns the library knows and every row, kind and format:
\* the rows CTable::update() leaves for the application are those that were
\* written, or none when the table has more than 48 columns.
THEOREM RowsArrive ==
    ASSUME \A t \in Written : SupportedTable(t)
    PROVE  Spec => []RowsAsWritten
<1>1. IInv => RowsAsWritten
  BY RowsOfInvariant
<1> QED
  BY <1>1, Reaches, PTL

\* update_row() never leaves the rows, and looks at the metadata of its column.
THEOREM CursorsAgree ==
    ASSUME \A t \in Written : SupportedTable(t)
    PROVE  Spec => []CursorsInStep
<1>1. IInv => CursorsInStep
  BY CursorsOfInvariant
<1> QED
  BY <1>1, Reaches, PTL

\* The resume point follows the events, whatever else is in their bytes.
THEOREM PositionArrives ==
    ASSUME \A t \in Written : SupportedTable(t)
    PROVE  Spec => []PositionAsWritten
<1>1. IInv => PositionAsWritten
  BY PlaceOfInvariant
<1> QED
  BY <1>1, Reaches, PTL

\* Every turn of the loop of CTable::update() takes bytes, and not too many.
THEOREM LoopEnds ==
    ASSUME \A t \in Written : SupportedTable(t)
    PROVE  Spec => ImagesTakeBytes
<1>1. IInv /\ [Next]_vars => [pc = "image" => len' < len /\ len' >= 0]_vars
  <2> SUFFICES ASSUME IInv, Next, pc = "image"
               PROVE  len' < len /\ len' >= 0
    BY DEF vars
  <2>1. BeginImage
    BY DEF Next, ReadPacket, HandleRotate, HandleQuery, HandleTableMap, HandleOther,
           Handles, Tune, SkipColumn, ReadColumn, EndImage, Continue, Ended, AtEnd
  <2>2. len' < len /\ len' \in Nat
    BY <2>1, ImageBegun
  <2> QED
    BY <2>2
<1> QED
  BY <1>1, Reaches, PTL DEF Spec, ImagesTakeBytes

=============================================================================
