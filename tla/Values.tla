------------------------------- MODULE Values -------------------------------
(***************************************************************************)
(* What the application reads from a field: the as_...() functions of      *)
(* CValue (src/src/mysqlslave/value.cpp, src/include/mysqlslave/value.hpp) *)
(* and CColumnDesc (columndesc.hpp), which knows the elements of an ENUM   *)
(* or a SET from the type that SHOW COLUMNS gave in prepare().             *)
(*                                                                         *)
(* A field is one that update_row() has found, see RowFormat; a step is a  *)
(* call of one function, in any order and for fields of any type.          *)
(***************************************************************************)
EXTENDS Decimal

CONSTANTS
    Fields,   \* [sort, type, metadata, text, elements, picked, bytes, means]:
              \* what was written
    Widths    \* bytes of the integer types as_int() is called for

ASSUME WidthsAssumption == Widths \subseteq 1..8

VARIABLES
    written,  \* the field as the master wrote it
    field,    \* the CValue of the row
    asked,    \* the function that was called last
    answer    \* what it returned

vars == <<written, field, asked, answer>>

-----------------------------------------------------------------------------
(* CValue *)

\* Mutation: the type is left as CTable::tune() has set it.
Reset_KeepsType == [NullValue EXCEPT !.type = written.type]

\* CValue::reset()
Reset == NullValue

\* update_row() resets the value and tunes it when the field is not NULL.
Decode ==
    IF written.sort = "null" THEN Reset
    ELSE LET length == calc_field_size(written.type, written.bytes, 1,
                                       written.metadata)
         IN  TuneValue(written.type, written.bytes, 1, written.metadata, length)

is_null == field.is_null \/ field.type = "NULL"

is_valid == field.bytes # <<>>

\* What most functions look at first.
HasBytes(n) == ~is_null /\ is_valid /\ Len(field.bytes) >= n

Korr(n) == UintKorr(field.bytes, 1, n)

Answer(function, result) ==
    /\ asked' = function /\ answer' = result
    /\ UNCHANGED <<written, field>>

\* as_int<T>(), the integer as its bytes, the lowest first: what is missing is
\* filled with zeros, for a signed T too.
AsInt(width) ==
    LET n == Len(field.bytes)
    IN  Answer("int",
               IF HasBytes(1) /\ n \in {1, 2, 3, 4, 8}
               THEN [k \in 1..width |-> Byte(field.bytes, k)]
               ELSE [k \in 1..width |-> 0])

\* as_boolean()
AsBoolean == Answer("boolean", HasBytes(1) /\ Len(field.bytes) \in {1, 2, 3, 4, 8}
                                 /\ field.bytes[1] # 0)

DecimalOf ==
    _init_decimal(field.bytes, written.metadata % 256, written.metadata \div 256)

\* as_double(): the bytes of a float or a double are those of the machine.
AsDouble ==
    Answer("double",
           CASE HasBytes(1) /\ field.type = "NEWDECIMAL" -> DecimalOf
             [] HasBytes(4) /\ field.type # "NEWDECIMAL"
                  /\ Len(field.bytes) \in {4, 8} -> field.bytes
             [] OTHER -> "zero")

\* as_string() of a DECIMAL.  The array has the size that the number needs, but
\* decimal2string() is asked for two digits more than the column has: what it
\* writes behind the array is undefined behaviour, and the text may come out
\* right all the same.
DecimalAsString ==
    LET text == decimal2string(DecimalOf, (written.metadata % 256) + 2,
                               written.metadata \div 256)
    IN  IF DecimalOf.error THEN Answer("string", <<>>)
        ELSE \/ Answer("string", text)
             \/ /\ TextSize(text) > decimal_string_size(DecimalOf)
                /\ Answer("string", "undefined")

\* as_string() does not ask for NULL before it reads a DECIMAL.
AsString ==
    CASE field.type = "NEWDECIMAL" -> DecimalAsString
      [] HasBytes(1) /\ field.type \in {"STRING", "VARCHAR", "BLOB"} ->
           Answer("string", field.bytes)
      [] OTHER -> Answer("string", <<>>)

AsBlob == Answer("blob", IF HasBytes(1) THEN field.bytes ELSE <<>>)

\* mi_uint4korr has the highest byte first; the answer has the lowest first.
AsTimestamp ==
    Answer("timestamp", IF HasBytes(4) /\ Len(field.bytes) = 4
                        THEN [k \in 1..4 |-> field.bytes[5 - k]]
                        ELSE <<0, 0, 0, 0>>)

AsYear == Answer("year", IF HasBytes(1) THEN 1900 + field.bytes[1] ELSE 0)

Date(y, m, d) == [y |-> y, m |-> m, d |-> d]
Time(h, m, s) == [h |-> h, m |-> m, s |-> s]

\* Mutation: a month of four bits, and a day of four.
DateOf_ShortDay(n) == Date(n \div 512, (n \div 32) % 16, n % 16)

DateOf(n) == Date(n \div 512, (n \div 32) % 16, n % 32)

AsDate == Answer("date", DateOf(IF HasBytes(3) THEN Korr(3) ELSE 0))

\* The hours are a uint8_t.
TimeOf(n) == Time((n \div 10000) % 2^8, (n % 10000) \div 100, n % 100)

AsTime == Answer("time", TimeOf(IF HasBytes(3) THEN Korr(3) ELSE 0))

\* dt / 1000000 and dt % 1000000 of a number of 64 bits, from the highest byte
\* down.
Million == 1000000
DivMillion[k \in 0..8] ==
    IF k = 0 THEN [quot |-> 0, rem |-> 0]
    ELSE LET above == DivMillion[k - 1]
             n == above.rem * 256 + Byte(field.bytes, 9 - k)
         IN  [quot |-> above.quot * 256 + n \div Million, rem |-> n % Million]

NoDatetime == [date |-> Date(0, 0, 0), time |-> Time(0, 0, 0)]

_as_datetime ==
    LET dt == DivMillion[8]
        d == dt.quot
    IN  IF HasBytes(8)
        THEN [date |-> Date(d \div 10000, (d % 10000) \div 100, d % 100),
              time |-> TimeOf(dt.rem)]
        ELSE NoDatetime

\* The bits of uint5korr from number low on, n of them.
Slice(low, n) ==
    LET bits == BitsKorr(field.bytes, 1, 5)
    IN  SumOf([k \in 1..n |-> IF low + k - 1 \in bits THEN 2^(k - 1) ELSE 0])

_read_bit_slice(start, size) == Slice(40 - (start + size), size)

_as_datetime2 ==
    LET year_month == Slice(1, 16)
    IN  IF HasBytes(5)
        THEN [date |-> Date(year_month \div 13, year_month % 13,
                            _read_bit_slice(18, 5)),
              time |-> Time(_read_bit_slice(23, 5), _read_bit_slice(28, 6),
                            _read_bit_slice(34, 6))]
        ELSE NoDatetime

AsDatetime ==
    Answer("datetime", CASE field.type = "DATETIME" -> _as_datetime
                         [] field.type = "DATETIME2" -> _as_datetime2
                         [] OTHER -> NoDatetime)

-----------------------------------------------------------------------------
(* CColumnDesc, and the values it gives names to *)

\* The place of the first quote from p on, 0 for none.
Quote(p) ==
    LET quotes == {k \in p..Len(written.text) : written.text[k] = "'"}
    IN  IF quotes = {} THEN 0 ELSE Min(quotes)

\* update(): what stands between a quote and the next, from place p on.
Variants[p \in 1..(Len(written.text) + 2)] ==
    LET open == Quote(p)
        close == Quote(open + 1)
    IN  IF open = 0 \/ close = 0 THEN <<>>
        ELSE <<SubSeq(written.text, open + 1, close - 1)>> \o Variants[close + 1]

get_variants ==
    IF written.text # <<>> /\ written.text[1] \in {"enum", "set"}
    THEN Variants[1] ELSE <<>>

\* as_enum(): sizes of five bytes and more are not known.
IsElement ==
    HasBytes(1) /\ field.type \in {"ENUM", "SET"} /\ Len(field.bytes) <= 4

\* Mutation: the elements are counted from 0.
AsEnum_FromZero ==
    LET n == 1 + (IF IsElement THEN Korr(Len(field.bytes)) ELSE 0)
    IN  Answer("enum", IF n \in DOMAIN get_variants THEN get_variants[n] ELSE <<>>)

\* as_enum(desc): 0 becomes the greatest number of 64 bits and has no name.
AsEnum ==
    LET n == IF IsElement THEN Korr(Len(field.bytes)) ELSE 0
    IN  Answer("enum", IF n \in DOMAIN get_variants THEN get_variants[n] ELSE <<>>)

\* as_set(desc): from the lowest bit on, up to one that has no name.
AsSet ==
    LET mask == IF IsElement
                THEN BitsKorr(field.bytes, 1, Len(field.bytes)) ELSE {}
        From[pos \in 0..32] ==
            CASE \A b \in mask : b < pos -> <<>>
              [] pos \in mask /\ pos < Len(get_variants) ->
                   <<get_variants[pos + 1]>> \o From[pos + 1]
              [] pos \in mask /\ pos >= Len(get_variants) -> <<>>
              [] OTHER -> From[pos + 1]
    IN  Answer("set", From[0])

-----------------------------------------------------------------------------
(* Specification *)

Init ==
    /\ written \in Fields
    /\ field = Decode
    /\ asked = "nothing" /\ answer = "nothing"

Next ==
    \/ \E width \in Widths : AsInt(width)
    \/ AsBoolean \/ AsDouble \/ AsString \/ AsBlob \/ AsTimestamp
    \/ AsYear \/ AsDate \/ AsTime \/ AsDatetime \/ AsEnum \/ AsSet

Spec == Init /\ [][Next]_vars

-----------------------------------------------------------------------------
(* Fields as a master writes them (external) *)

\* DATETIME: the number d * 10^6 + t, the lowest byte first.
StoredDatetime(d, t) ==
    LET Rest[k \in 0..8] ==
            IF k = 0 THEN [d |-> d, t |-> t]
            ELSE LET low == Rest[k - 1]
                 IN  [d |-> low.d \div 256,
                      t |-> ((low.d % 256) * Million + low.t) \div 256]
    IN  [k \in 1..8 |-> ((Rest[k - 1].d % 256) * Million + Rest[k - 1].t) % 256]

\* DATETIME2: a sign, 17 bits of year * 13 + month, 5 of the day, 5 of the hour,
\* 6 of the minute and 6 of the second, the highest byte first.
StoredDatetime2(date, time) ==
    LET ymd == (date.y * 13 + date.m) * 32 + date.d
        hms == (time.h * 64 + time.m) * 64 + time.s
    IN  <<128 + ymd \div 2^15, (ymd \div 2^7) % 256,
          (ymd % 2^7) * 2 + hms \div 2^16, (hms \div 2^8) % 256, hms % 256>>

StoredDate(y, m, d) == LengthBytes(y * 512 + m * 32 + d, 3)
StoredTime(h, m, s) == LengthBytes(h * 10000 + m * 100 + s, 3)
StoredTimestamp2(n) == [k \in 1..4 |-> (n \div 256^(4 - k)) % 256]

\* enum('..','..') or set('..','..')
ColumnText(kind, elements) ==
    <<kind, "(">>
      \o FlattenSeq([k \in DOMAIN elements |->
             <<"'">> \o elements[k] \o (IF k = Len(elements) THEN <<"'">>
                                         ELSE <<"'", ",">>)])
      \o <<")">>

\* A DATE, TIME, DATETIME, TIMESTAMP or YEAR that is written as it is meant.
LastYear == 9999
Dates == [y : 0..LastYear, m : 0..12, d : 0..31]
Times == [h : 0..255, m : 0..59, s : 0..59]

SupportedDate(f) ==
    LET v == f.means
    IN  /\ f.sort = "date" /\ f.type = "DATE"
        /\ v \in Dates /\ f.bytes = StoredDate(v.y, v.m, v.d)

SupportedTime(f) ==
    LET v == f.means
    IN  /\ f.sort = "time" /\ f.type = "TIME"
        /\ v \in Times /\ f.bytes = StoredTime(v.h, v.m, v.s)

SupportedDatetime(f) ==
    LET date == f.means.date
        time == f.means.time
    IN  /\ f.sort = "datetime" /\ f.type = "DATETIME"
        /\ f.means \in [date : Dates, time : Times] /\ time.h <= 23
        /\ f.bytes = StoredDatetime(date.y * 10000 + date.m * 100 + date.d,
                                    time.h * 10000 + time.m * 100 + time.s)

SupportedTimestamp(f) ==
    /\ f.sort = "timestamp" /\ f.type = "TIMESTAMP2"
    /\ f.means \in Seq(0..255) /\ Len(f.means) = 4 /\ f.bytes = Reverse(f.means)

SupportedYear(f) ==
    /\ f.sort = "year" /\ f.type = "YEAR"
    /\ f.means \in 1901..2155 /\ f.bytes = <<f.means - 1900>>

SupportedTemporal(f) ==
    \/ SupportedDate(f) \/ SupportedTime(f) \/ SupportedDatetime(f)
    \/ SupportedTimestamp(f) \/ SupportedYear(f)

\* A DECIMAL has up to 65 digits, 30 of them behind the point; no zero is
\* negative.
SupportedDecimal(f) ==
    LET v == f.means
        precision == f.metadata % 256
        scale == f.metadata \div 256
        zeros == [k \in 1..(precision - scale - Len(v.whole)) |-> 0]
    IN  /\ f.sort = "decimal" /\ f.type = "NEWDECIMAL"
        /\ f.metadata \in Nat /\ precision \in 1..65
        /\ scale <= 30 /\ scale <= precision
        /\ v.whole \in Seq(0..9) /\ v.fraction \in Seq(0..9)
        /\ v = [negative |-> v.negative, whole |-> v.whole,
                fraction |-> v.fraction]
        /\ Len(v.whole) <= precision - scale /\ Len(v.fraction) = scale
        /\ v.whole # <<>> => v.whole[1] # 0
        /\ v.negative \in BOOLEAN
        /\ v.negative => v.whole # <<>> \/ \E k \in 1..scale : v.fraction[k] # 0
        /\ f.bytes = StoredDecimal(precision, scale, v.negative,
                                   zeros \o v.whole \o v.fraction)

\* An ENUM has the number of its element, a SET a bit for each.  The size is
\* in the metadata; a SET of more than 32 elements is not read.
SupportedElements(f) ==
    LET size == f.metadata \div 256
        picked == f.picked
    IN  /\ f.sort \in {"enum", "set"} /\ f.type = "STRING" /\ f.metadata \in Nat
        /\ f.text = ColumnText(f.sort, f.elements)
        /\ f.elements \in Seq(Seq(STRING)) /\ f.elements # <<>>
        /\ \A k \in DOMAIN f.elements : \A j \in DOMAIN f.elements[k] :
             f.elements[k][j] # "'"
        /\ picked \in Seq(DOMAIN f.elements)
        /\ \/ /\ f.sort = "enum" /\ f.metadata % 256 = ENUM_CODE /\ size \in 1..2
              /\ Len(f.elements) < 256^size
              /\ \/ picked = <<>> /\ f.means = <<>>
                    /\ f.bytes = LengthBytes(0, size)
                 \/ Len(picked) = 1 /\ f.means = f.elements[picked[1]]
                    /\ f.bytes = LengthBytes(picked[1], size)
           \/ /\ f.sort = "set" /\ f.metadata % 256 = SET_CODE /\ size \in 1..4
              /\ Len(f.elements) <= 8 * size
              /\ \A j, k \in DOMAIN picked : j < k => picked[j] < picked[k]
              /\ f.bytes = Bitmap({picked[k] - 1 : k \in DOMAIN picked}, 8 * size)
              /\ f.means = [k \in DOMAIN picked |-> f.elements[picked[k]]]

\* NULL, in a column of any type, and numbers and strings.
SupportedOther(f) ==
    \/ f.sort = "null"
    \/ f.sort \in {"int", "double", "varchar"}
         /\ f.type \in {"TINY", "SHORT", "INT24", "LONG", "LONGLONG", "FLOAT",
                        "DOUBLE", "VARCHAR", "BLOB"}

\* The fields of a table whose columns the library reads.
SupportedField(f) ==
    /\ f.text \in Seq(STRING)
    /\ \/ SupportedTemporal(f)
       \/ SupportedDecimal(f)
       \/ SupportedElements(f)
       \/ SupportedOther(f)

-----------------------------------------------------------------------------
(* Properties *)

\* A DECIMAL reads by as_double() as the number that was written: its sign,
\* its digits in front of the point and behind it, for any way its digits fall
\* into groups and any group that is zero.  Nothing is claimed of as_string().
DecimalAsWritten ==
    written.sort = "decimal" /\ asked = "double" =>
      /\ ~answer.error
      /\ ShownDecimal(answer) = written.means

\* A date, a time or both read as they were written, and what is no date
\* never reads as one by as_datetime().
TemporalAsWritten ==
    /\ asked \in {"date", "time", "datetime", "timestamp", "year"} =>
         (written.sort = asked => answer = written.means)
    /\ asked = "datetime" /\ written.sort # "datetime" =>
         answer = NoDatetime

\* The names of the elements of an ENUM or a SET are found from its bytes and
\* the text of its column: those that were written, in the order of the
\* column, whatever punctuation they contain, and for no other type any.
ElementsAsWritten ==
    asked \in {"enum", "set"} =>
      /\ written.sort = asked => answer = written.means
      /\ written.sort \notin {"enum", "set"} => answer = <<>>

\* A field that is NULL gives 0 or nothing, whatever the type of its column and
\* whichever function reads it: there are no bytes to read.
NullGivesNothing ==
    written.sort = "null" /\ asked # "nothing" =>
      CASE asked = "boolean" -> answer = FALSE
        [] asked = "double" -> answer = "zero"
        [] asked \in {"string", "blob", "enum", "set"} -> answer = <<>>
        [] asked = "year" -> answer = 0
        [] asked = "date" -> answer = Date(0, 0, 0)
        [] asked = "time" -> answer = Time(0, 0, 0)
        [] asked = "datetime" -> answer = NoDatetime
        [] OTHER -> \A k \in DOMAIN answer : answer[k] = 0

=============================================================================
