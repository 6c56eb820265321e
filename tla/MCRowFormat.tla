---------------------------- MODULE MCRowFormat ----------------------------
(***************************************************************************)
(* Tables and rows for the runs of RowFormat.  The sizes of the values are *)
(* those the MySQL manual gives for the types.                             *)
(***************************************************************************)
EXTENDS RowFormat

LOCAL Fixed(type, meta, shown) ==
    [type |-> type, meta |-> meta, prefix |-> 0, shown |-> shown]
LOCAL Counted(type, meta, prefix) ==
    [type |-> type, meta |-> meta, prefix |-> prefix, shown |-> type]

\* n bytes, no two of them equal up to 250.
LOCAL Value(n) == [is_null |-> FALSE, bytes |-> [k \in 1..n |-> k % 250]]
LOCAL Null == [is_null |-> TRUE, bytes |-> <<>>]

LOCAL TINY == Fixed("TINY", <<>>, "TINY")

\* int, timestamp, varchar(255), blob
Texts == [columns |-> <<Fixed("LONG", <<>>, "LONG"),
                        Fixed("TIMESTAMP2", <<0>>, "TIMESTAMP2"),
                        Counted("VARCHAR", <<255, 0>>, 1),
                        Counted("BLOB", <<2>>, 2)>>,
          rows |-> {<<Value(4), Value(4), Value(0), Value(3)>>,
                    <<Value(4), Null, Value(2), Null>>,
                    <<Null, Null, Null, Null>>}]

\* datetime(3), enum, decimal(16,8)
Numbers == [columns |-> <<Fixed("DATETIME2", <<3>>, "DATETIME2"),
                          Fixed("STRING", <<ENUM_CODE, 1>>, "ENUM"),
                          Fixed("NEWDECIMAL", <<16, 8>>, "NEWDECIMAL")>>,
            rows |-> {<<Value(7), Value(1), Value(8)>>, <<Null, Value(1), Value(8)>>,
                      <<Value(7), Null, Value(8)>>}]

\* varchar(1000), bit(9), char(40), float
Others == [columns |-> <<Counted("VARCHAR", <<232, 3>>, 2),
                         Fixed("BIT", <<1, 1>>, "BIT"),
                         Counted("STRING", <<STRING_CODE, 40>>, 1),
                         Fixed("FLOAT", <<4>>, "FLOAT")>>,
           rows |-> {<<Value(2), Value(2), Value(1), Value(4)>>,
                     <<Value(300), Null, Value(0), Null>>,
                     <<Null, Value(2), Null, Value(4)>>}]

\* n columns, every third of them NULL: bitmaps that just fit their bytes, and
\* the first that does not fit a mask.
LOCAL Tinies(n) ==
    [columns |-> [k \in 1..n |-> TINY],
     rows |-> {[k \in 1..n |-> IF k % 3 = 2 THEN Null ELSE Value(1)]}]

Supported ==
    {Texts, Numbers, Others, Tinies(8), Tinies(9), Tinies(48), Tinies(49)}

\* The tables of the run are of the kind the theorems speak of.
ASSUME SupportedAssumption == \A t \in Supported : SupportedTable(t)

\* time, varchar(255)
Times == [columns |-> <<Fixed("TIME2", <<0>>, "TIME2"),
                        Counted("VARCHAR", <<255, 0>>, 1)>>,
          rows |-> {<<Value(3), Value(2)>>}]

WithTimes == {Times}

V1 == [v2 |-> FALSE, extra |-> <<>>, checksum |-> FALSE, status |-> 0]
V2 == [v2 |-> TRUE, extra |-> <<4, 0, 7, 7>>, checksum |-> TRUE, status |-> 638]
V2Long == [v2 |-> TRUE, extra |-> <<2, 0>>, checksum |-> TRUE, status |-> 639]
EventFormats == {V1, V2, V2Long}

=============================================================================
