------------------------------ MODULE MCValues ------------------------------
(***************************************************************************)
(* Fields for the runs of Values.                                          *)
(***************************************************************************)
EXTENDS Values

LOCAL F(sort, type, metadata, text, bytes, means) ==
    [sort |-> sort, type |-> type, metadata |-> metadata, text |-> text,
     elements |-> <<>>, picked |-> <<>>, bytes |-> bytes, means |-> means]

\* Digits that are all zero, all nine, a single one at any place, all different.
LOCAL Digits(n) ==
    {[k \in 1..n |-> 0], [k \in 1..n |-> 9], [k \in 1..n |-> k % 10]}
      \cup {[k \in 1..n |-> IF k = one THEN 1 ELSE 0] : one \in 1..n}

\* decimal(precision, scale); there is no negative zero.
LOCAL DecimalsOf(precision, scale) ==
    {F("decimal", "NEWDECIMAL", precision + 256 * scale, <<"decimal">>,
       StoredDecimal(precision, scale, negative, digits),
       [negative |-> negative,
        whole |-> Significant(SubSeq(digits, 1, precision - scale)),
        fraction |-> SubSeq(digits, precision - scale + 1, precision)])
     : negative \in BOOLEAN, digits \in Digits(precision)}

\* One group of each length in front and behind, whole groups, and none.
Shapes == {<<1, 0>>, <<5, 2>>, <<8, 8>>, <<9, 0>>, <<9, 9>>, <<10, 1>>,
           <<16, 8>>, <<18, 9>>, <<20, 0>>, <<23, 4>>, <<30, 15>>}

Decimals ==
    {f \in UNION {DecimalsOf(s[1], s[2]) : s \in Shapes} :
        \/ ~f.means.negative
        \/ f.means.whole # <<>>
        \/ \E k \in DOMAIN f.means.fraction : f.means.fraction[k] # 0}

LOCAL SomeDates == {Date(1000, 1, 1), Date(2019, 7, 31), Date(2016, 2, 29),
                Date(9999, 12, 31), Date(0, 0, 0)}
LOCAL SomeTimes == {Time(0, 0, 0), Time(23, 59, 59), Time(16, 41, 17)}

Temporals ==
    {F("date", "DATE", 0, <<"date">>, StoredDate(d.y, d.m, d.d), d) : d \in SomeDates}
      \cup {F("time", "TIME", 0, <<"time">>, StoredTime(t.h, t.m, t.s), t)
              : t \in SomeTimes \cup {Time(255, 59, 59)}}
      \cup {F("datetime", "DATETIME", 0, <<"datetime">>,
              StoredDatetime(d.y * 10000 + d.m * 100 + d.d,
                             t.h * 10000 + t.m * 100 + t.s),
              [date |-> d, time |-> t]) : d \in SomeDates, t \in SomeTimes}
      \cup {F("timestamp", "TIMESTAMP2", 0, <<"timestamp">>,
              StoredTimestamp2(n), LengthBytes(n, 4))
              : n \in {0, 1, 255, 256, 1562000000, 2147483647}}
      \cup {F("year", "YEAR", 0, <<"year">>, <<y - 1900>>, y)
              : y \in {1901, 2019, 2155}}

\* Names with punctuation, and one that is empty.
LOCAL Names == << <<"a">>, <<"b", ",">>, <<>>, <<"(", "c", ")">> >>
LOCAL Letters == <<"e", "t", "a", "o", "i", "n">>
LOCAL Many ==
    [k \in 1..26 |-> <<Letters[1 + (k - 1) \div 6], Letters[1 + (k % 6)]>>]

LOCAL E(sort, metadata, names, picked, bytes, means) ==
    [F(sort, "STRING", metadata, ColumnText(sort, names), bytes, means)
       EXCEPT !.elements = names, !.picked = picked]

LOCAL EnumsOf(names, size) ==
    {E("enum", ENUM_CODE + 256 * size, names, <<k>>, LengthBytes(k, size), names[k])
     : k \in DOMAIN names}

\* 0 is what MySQL stores for a value that is no element.
LOCAL NoElement == {E("enum", ENUM_CODE + 256, Names, <<>>, <<0>>, <<>>)}

LOCAL SetsOf(names, size, choices) ==
    {LET picked == SetToSortSeq(chosen, <)
     IN  E("set", SET_CODE + 256 * size, names, picked,
           Bitmap({k - 1 : k \in chosen}, 8 * size),
           [k \in DOMAIN picked |-> names[picked[k]]])
     : chosen \in choices}

Elements == EnumsOf(Names, 1) \cup EnumsOf(Many, 2) \cup NoElement
              \cup SetsOf(Names, 1, SUBSET (1..4))
              \cup SetsOf(Many, 4, SUBSET {1, 8, 9, 17, 26})

Nulls == {F("null", type, 0, <<"..">>, <<>>, <<>>)
          : type \in {"NEWDECIMAL", "DATETIME", "STRING", "LONG"}}
           \cup {F("null", "STRING", ENUM_CODE + 256, ColumnText("enum", Names),
                   <<>>, <<>>)}

Others ==
    {F("int", "LONG", 0, <<"int">>, <<b, 0, 0, 0>>, <<>>) : b \in {0, 7}}
      \cup {F("varchar", "VARCHAR", 255, <<"varchar">>, <<2, 65, 66>>, <<>>),
            F("double", "DOUBLE", 8, <<"double">>, [k \in 1..8 |-> k], <<>>)}

Supported == Decimals \cup Temporals \cup Elements \cup Nulls \cup Others

\* What the proofs assume of the fields.
ASSUME SupportedAssumption == \A f \in Supported : SupportedField(f)

\* datetime, since MySQL 5.6
Datetimes2 ==
    {F("datetime", "DATETIME2", 0, <<"datetime">>, StoredDatetime2(d, t),
       [date |-> d, time |-> t]) : d \in SomeDates \ {Date(0, 0, 0)}, t \in SomeTimes}

AllWidths == {1, 2, 4, 8}

=============================================================================
