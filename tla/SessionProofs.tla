---------------------------- MODULE SessionProofs ----------------------------
(***************************************************************************)
(* What holds even when the server restarts, in three parts: how the log   *)
(* grows and stays well formed; the types and the positions of the         *)
(* session; and what the positions promise.  A dump resumes in front of a  *)
(* whole statement, never further back than before, and reads nothing      *)
(* again but the transaction in hand; and the thread waits for events only *)
(* on a connection that has a dump.                                        *)
(***************************************************************************)
EXTENDS ReplicationInvariant, TLAPS

-----------------------------------------------------------------------------
(* The log *)

LogTypeOK ==
    /\ files \in Seq(Seq(Event)) /\ Len(files) > 0
    /\ table_ids \in Seq([table : Tables, ver : Nat])
    /\ schema \in [Tables -> Nat]
    /\ in_txn \in BOOLEAN
    /\ mapped \in [Tables -> Nat]

\* The log is only ever extended, and only in its last file.
Grows ==
    /\ Len(files') \in Nat /\ Len(files') >= Len(files)
    /\ \A f \in 1..Len(files) :
         /\ Len(files'[f]) \in Nat /\ Len(files'[f]) >= Len(files[f])
         /\ f < Len(files) => files'[f] = files[f]
         /\ \A k \in 1..Len(files[f]) : files'[f][k] = files[f][k]

\* Event e becomes the last one of the last file.
Appends(e) ==
    /\ Len(files') = Len(files)
    /\ \A f \in 1..(Len(files) - 1) : files'[f] = files[f]
    /\ Len(files'[Len(files)]) = Len(LastFile) + 1
    /\ \A k \in 1..Len(LastFile) : files'[Len(files)][k] = LastFile[k]
    /\ files'[Len(files)][Len(LastFile) + 1] = e

\* An empty file becomes the last one; the events before it are old ones,
\* but for an e at the end of what was the last file.
Opens(e) ==
    /\ Len(files') = Len(files) + 1
    /\ \A f \in 1..(Len(files) - 1) : files'[f] = files[f]
    /\ \/ files'[Len(files)] = LastFile
       \/ /\ Len(files'[Len(files)]) = Len(LastFile) + 1
          /\ \A k \in 1..Len(LastFile) : files'[Len(files)][k] = LastFile[k]
          /\ files'[Len(files)][Len(LastFile) + 1] = e
    /\ files'[Len(files) + 1] = <<>>

LEMMA LogNumbers ==
    ASSUME files \in Seq(Seq(Event)), Len(files) > 0
    PROVE  /\ Len(files) \in Nat /\ Len(files) > 0
           /\ \A f \in 1..Len(files) :
                /\ Len(files[f]) \in Nat
                /\ \A k \in 1..Len(files[f]) : files[f][k] \in Event
<1>1. \A f \in 1..Len(files) : files[f] \in Seq(Event)
  OBVIOUS
<1> QED
  BY <1>1

LEMMA LogLengths ==
    ASSUME LogTypeOK
    PROVE  \E L \in Nat, n \in Nat : L = Len(files) /\ n = Len(LastFile)
<1>1. Len(files) \in Nat /\ Len(files) > 0
  BY DEF LogTypeOK
<1>2. Len(files) \in 1..Len(files)
  BY <1>1
<1>3. Len(LastFile) \in Nat
  BY <1>2, LogNumbers DEF LogTypeOK, LastFile
<1> QED
  BY <1>1, <1>3

LEMMA AppendShape ==
    ASSUME files \in Seq(Seq(Event)), Len(files) > 0,
           NEW e \in Event,
           files' = [files EXCEPT ![Len(files)] = Append(@, e)]
    PROVE  files' \in Seq(Seq(Event)) /\ Appends(e)
<1>1. LastFile \in Seq(Event) /\ Len(files) \in Nat
  BY DEF LastFile
<1>2. Append(LastFile, e) \in Seq(Event)
  BY <1>1
<1>3. files' \in Seq(Seq(Event)) /\ Len(files') = Len(files)
  BY <1>1, <1>2 DEF LastFile
<1>4. files'[Len(files)] = Append(LastFile, e)
  BY <1>1 DEF LastFile
<1>5. \A f \in 1..(Len(files) - 1) : files'[f] = files[f]
  BY <1>1
<1>6. /\ Len(Append(LastFile, e)) = Len(LastFile) + 1
      /\ \A k \in 1..Len(LastFile) : Append(LastFile, e)[k] = LastFile[k]
      /\ Append(LastFile, e)[Len(LastFile) + 1] = e
  BY <1>1
<1> HIDE DEF LastFile
<1> QED
  BY <1>3, <1>4, <1>5, <1>6 DEF Appends

LEMMA OpenShape ==
    ASSUME files \in Seq(Seq(Event)), Len(files) > 0,
           NEW e \in Event,
           \/ files' = Append(files, <<>>)
           \/ files' = Append([files EXCEPT ![Len(files)] = Append(@, e)],
                              <<>>)
    PROVE  files' \in Seq(Seq(Event)) /\ Opens(e)
<1>1. LastFile \in Seq(Event) /\ Len(files) \in Nat /\ <<>> \in Seq(Event)
  BY DEF LastFile
<1>2. CASE files' = Append(files, <<>>)
  BY <1>1, <1>2 DEF Opens, LastFile
<1>3. CASE files' = Append([files EXCEPT ![Len(files)] = Append(@, e)], <<>>)
  <2> DEFINE g == [files EXCEPT ![Len(files)] = Append(@, e)]
  <2>1. /\ Append(LastFile, e) \in Seq(Event)
        /\ Len(Append(LastFile, e)) = Len(LastFile) + 1
        /\ \A k \in 1..Len(LastFile) : Append(LastFile, e)[k] = LastFile[k]
        /\ Append(LastFile, e)[Len(LastFile) + 1] = e
    BY <1>1
  <2>2. g \in Seq(Seq(Event)) /\ Len(g) = Len(files)
    BY <1>1, <2>1 DEF LastFile
  <2>3. g[Len(files)] = Append(LastFile, e)
    BY <1>1 DEF LastFile
  <2>4. \A f \in 1..(Len(files) - 1) : g[f] = files[f]
    BY <1>1
  <2>5. files' = Append(g, <<>>)
    BY <1>3
  <2> HIDE DEF g
  <2>6. /\ files' \in Seq(Seq(Event)) /\ Len(files') = Len(files) + 1
        /\ \A f \in 1..Len(files) : files'[f] = g[f]
        /\ files'[Len(files) + 1] = <<>>
    BY <1>1, <2>2, <2>5
  <2>7. files'[Len(files)] = Append(LastFile, e)
    <3>1. Len(files) \in 1..Len(files)
      BY <1>1
    <3> QED
      BY <2>3, <2>6, <3>1, Zenon
  <2>8. \A f \in 1..(Len(files) - 1) : files'[f] = files[f]
    BY <1>1, <2>4, <2>6
  <2> HIDE DEF LastFile
  <2> QED
    BY <2>1, <2>6, <2>7, <2>8 DEF Opens
<1> QED
  BY <1>2, <1>3

-----------------------------------------------------------------------------
(* Every step of the master extends the log *)

LEMMA AppendsGrows ==
    ASSUME LogTypeOK, LogTypeOK', NEW e, Appends(e)
    PROVE  Grows
<1>1. /\ Len(files) \in Nat /\ Len(files') = Len(files)
      /\ \A f \in 1..Len(files) : Len(files[f]) \in Nat
  BY LogNumbers DEF LogTypeOK, Appends
<1>2. SUFFICES ASSUME NEW f \in 1..Len(files)
               PROVE  /\ Len(files'[f]) \in Nat
                      /\ Len(files'[f]) >= Len(files[f])
                      /\ f < Len(files) => files'[f] = files[f]
                      /\ \A k \in 1..Len(files[f]) : files'[f][k] = files[f][k]
  BY <1>1 DEF Grows
<1>3. CASE f < Len(files)
  BY <1>1, <1>3 DEF Appends
<1>4. CASE f = Len(files)
  BY <1>1, <1>4 DEF Appends, LastFile
<1> QED
  BY <1>1, <1>3, <1>4

\* The event at a place of the new log is an old one or the one appended.
LEMMA AppendedPlaces ==
    ASSUME LogTypeOK, NEW e, Appends(e),
           NEW f \in 1..Len(files'), NEW k \in 1..Len(files'[f])
    PROVE  \/ f \in 1..Len(files) /\ k \in 1..Len(files[f])
           \/ f = Len(files) /\ k = Len(LastFile) + 1 /\ files'[f][k] = e
<1>1. PICK L \in Nat, n \in Nat : L = Len(files) /\ n = Len(LastFile)
  BY LogLengths
<1>2. /\ Len(files') = L /\ Len(files'[L]) = n + 1
      /\ files'[L][n + 1] = e
      /\ \A g \in 1..(L - 1) : files'[g] = files[g]
      /\ Len(files[L]) = n
  BY <1>1 DEF Appends, LastFile
<1>3. CASE f < L
  <2>1. f \in 1..(L - 1) /\ f \in 1..L
    BY <1>1, <1>3
  <2>2. files'[f] = files[f]
    BY <1>2, <2>1
  <2> QED
    BY <1>1, <2>1, <2>2
<1>4. CASE f = L
  <2>1. k \in 1..n \/ k = n + 1
    BY <1>1, <1>2, <1>4
  <2> QED
    BY <1>1, <1>2, <1>4, <2>1
<1> QED
  BY <1>1, <1>2, <1>3, <1>4

\* A file in front of the last one is complete.
LEMMA EarlierFileStays ==
    ASSUME LogTypeOK, Grows, NEW f \in 1..Len(files), f < Len(files)
    PROVE  files'[f] = files[f] /\ f < Len(files')
<1>1. Len(files) \in Nat /\ Len(files') \in Nat /\ Len(files') >= Len(files)
  BY LogNumbers DEF LogTypeOK, Grows
<1> QED
  BY <1>1 DEF Grows

\* In front of a place of the log nothing is added.
LEMMA EarlierPlacesStay ==
    ASSUME LogTypeOK, Grows,
           NEW F \in 1..Len(files), NEW K \in 1..(Len(files[F]) + 1),
           NEW f \in 1..Len(files'), NEW k \in 1..Len(files'[f]),
           f < F \/ (f = F /\ k < K)
    PROVE  /\ f \in 1..Len(files) /\ k \in 1..Len(files[f])
           /\ files'[f][k] = files[f][k]
<1>1. /\ Len(files) \in Nat /\ Len(files') \in Nat
      /\ Len(files[F]) \in Nat /\ Len(files'[f]) \in Nat
  BY LogNumbers DEF LogTypeOK, Grows
<1>2. CASE f < F
  <2>1. f \in 1..Len(files) /\ f < Len(files)
    BY <1>1, <1>2
  <2> QED
    BY <2>1, EarlierFileStays
<1>3. CASE f = F /\ k < K
  <2>1. k \in 1..Len(files[F])
    BY <1>1, <1>3
  <2> QED
    BY <1>3, <2>1 DEF Grows
<1> QED
  BY <1>2, <1>3

LEMMA OpensGrows ==
    ASSUME LogTypeOK, LogTypeOK', NEW e, Opens(e)
    PROVE  Grows
<1>1. Len(files) \in Nat /\ \A f \in 1..Len(files) : Len(files[f]) \in Nat
  BY DEF LogTypeOK
<1>2. SUFFICES ASSUME NEW f \in 1..Len(files)
               PROVE  /\ Len(files'[f]) \in Nat
                      /\ Len(files'[f]) >= Len(files[f])
                      /\ f < Len(files) => files'[f] = files[f]
                      /\ \A k \in 1..Len(files[f]) : files'[f][k] = files[f][k]
  BY <1>1 DEF Opens, Grows
<1>3. CASE f < Len(files)
  BY <1>1, <1>3 DEF Opens
<1>4. CASE f = Len(files)
  BY <1>1, <1>4 DEF Opens, LastFile
<1> QED
  BY <1>1, <1>3, <1>4

LEMMA PlainIsEvent ==
    /\ Plain("QUERY") \in Event /\ Plain("LONG_QUERY") \in Event
    /\ Plain("XID") \in Event
    /\ Plain("STOP") \in Event /\ Plain("ROTATE") \in Event
    /\ Plain("FDE") \in Event /\ Plain("UNSUPPORTED") \in Event
BY DEF Plain, Event, EventTypes

\* An event between statements.
WritesPlain(type) ==
    /\ type \in {"QUERY", "LONG_QUERY", "XID", "UNSUPPORTED"}
    /\ Appends(Plain(type))
    /\ NothingMapped /\ UNCHANGED mapped

LEMMA PlainStep ==
    ASSUME LogTypeOK, BetweenTransactions,
           \/ Begin \/ Savepoint \/ Commit \/ WriteUnsupported
           \/ \E t \in Tables : AlterTable(t)
    PROVE  LogTypeOK' /\ \E type \in {"QUERY", "LONG_QUERY", "XID", "UNSUPPORTED"} :
                             WritesPlain(type)
<1>1. PICK type \in {"QUERY", "LONG_QUERY", "XID", "UNSUPPORTED"} : Write(Plain(type))
  BY DEF Begin, Savepoint, Commit, WriteUnsupported, AlterTable, WriteQuery,
         Queries
<1>2. Plain(type) \in Event
  BY PlainIsEvent
<1>3. files' \in Seq(Seq(Event)) /\ Appends(Plain(type))
  BY <1>1, <1>2, AppendShape DEF Write, LogTypeOK
<1>4. NothingMapped /\ UNCHANGED <<mapped, table_ids>>
  BY DEF Begin, Savepoint, Commit, WriteUnsupported, AlterTable,
         BetweenTransactions
<1>5. in_txn' \in BOOLEAN /\ schema' \in [Tables -> Nat]
  <2>1. CASE Begin
    BY <2>1 DEF Begin, LogTypeOK
  <2>2. CASE Savepoint \/ Commit \/ WriteUnsupported
    BY <2>2 DEF Savepoint, Commit, WriteUnsupported, LogTypeOK
  <2>3. CASE \E t \in Tables : AlterTable(t)
    BY <2>3 DEF AlterTable, LogTypeOK
  <2> QED
    BY <2>1, <2>2, <2>3
<1>6. Len(files') > 0
  BY <1>3 DEF Appends, LogTypeOK
<1> QED
  BY <1>3, <1>4, <1>5, <1>6 DEF LogTypeOK, WritesPlain

LEMMA MapStep ==
    ASSUME LogTypeOK, NEW t \in Tables, MapTable(t)
    PROVE  /\ LogTypeOK'
           /\ \E i \in Nat \ {0} :
                /\ Appends(TableMapEvent(t, i))
                /\ mapped[t] = 0 /\ mapped' = [mapped EXCEPT ![t] = i]
                /\ TableMapEvent(t, i) \in Event
           /\ in_txn /\ in_txn'
<1>1. PICK i \in 1..MaxIds :
          /\ \/ UNCHANGED table_ids
             \/ table_ids' = Append(table_ids, [table |-> t, ver |-> schema[t]])
          /\ Write(TableMapEvent(t, i))
          /\ mapped' = [mapped EXCEPT ![t] = i]
  BY DEF MapTable
<1>2. i \in Nat \ {0}
  BY BinlogBoundsAssumption
<1>3. TableMapEvent(t, i) \in Event
  BY <1>2 DEF TableMapEvent, Event, EventTypes, LogTypeOK
<1>4. files' \in Seq(Seq(Event)) /\ Appends(TableMapEvent(t, i))
  BY <1>1, <1>3, AppendShape DEF Write, LogTypeOK
<1>5. table_ids' \in Seq([table : Tables, ver : Nat])
  <2> DEFINE S == [table : Tables, ver : Nat]
             x == [table |-> t, ver |-> schema[t]]
  <2>1. x \in S /\ table_ids \in Seq(S)
    BY DEF LogTypeOK
  <2>2. table_ids' = table_ids \/ table_ids' = Append(table_ids, x)
    BY <1>1
  <2> HIDE DEF S, x
  <2>3. table_ids' \in Seq(S)
    BY <2>1, <2>2
  <2> QED
    BY <2>3 DEF S
<1>6. UNCHANGED <<schema, in_txn>> /\ in_txn /\ mapped[t] = 0
  BY DEF MapTable
<1>7. Len(files') > 0
  BY <1>4 DEF Appends, LogTypeOK
<1>8. mapped' \in [Tables -> Nat]
  BY <1>1, <1>2 DEF LogTypeOK
<1> QED
  BY <1>1, <1>2, <1>3, <1>4, <1>5, <1>6, <1>7, <1>8 DEF LogTypeOK

LEMMA RowsStep ==
    ASSUME LogTypeOK, NEW t \in Tables, WriteRows(t)
    PROVE  /\ LogTypeOK'
           /\ \E kind \in Kinds :
                /\ Appends(RowsEvent(t, kind))
                /\ RowsEvent(t, kind) \in Event
           /\ mapped[t] # 0 /\ mapped' \in {mapped, [u \in Tables |-> 0]}
           /\ UNCHANGED in_txn
<1>1. PICK kind \in Kinds : Write(RowsEvent(t, kind))
  BY DEF WriteRows
<1>2. RowsEvent(t, kind) \in Event
  BY KindsAssumption DEF RowsEvent, Event, EventTypes, LogTypeOK
<1>3. files' \in Seq(Seq(Event)) /\ Appends(RowsEvent(t, kind))
  BY <1>1, <1>2, AppendShape DEF Write, LogTypeOK
<1>4. /\ mapped[t] # 0 /\ mapped' \in {mapped, [u \in Tables |-> 0]}
      /\ UNCHANGED <<table_ids, schema, in_txn>>
  BY DEF WriteRows
<1>5. Len(files') > 0
  BY <1>3 DEF Appends, LogTypeOK
<1>6. mapped' \in [Tables -> Nat]
  BY <1>4 DEF LogTypeOK
<1> QED
  BY <1>2, <1>3, <1>4, <1>5, <1>6 DEF LogTypeOK

LEMMA FileStep ==
    ASSUME LogTypeOK, BetweenTransactions, RotateFile \/ RestartServer
    PROVE  /\ LogTypeOK'
           /\ Opens(Plain("ROTATE")) \/ Opens(Plain("STOP"))
           /\ NothingMapped /\ UNCHANGED <<mapped, in_txn>>
<1>1. \/ files' = Append([files EXCEPT ![Len(files)] =
                            Append(@, Plain("ROTATE"))], <<>>)
      \/ files' = Append([files EXCEPT ![Len(files)] =
                            Append(@, Plain("STOP"))], <<>>)
      \/ files' = Append(files, <<>>)
  BY DEF RotateFile, RestartServer
<1>2. /\ files' \in Seq(Seq(Event))
      /\ Opens(Plain("ROTATE")) \/ Opens(Plain("STOP"))
  BY <1>1, PlainIsEvent, OpenShape DEF LogTypeOK
<1>3. NothingMapped /\ UNCHANGED <<schema, mapped, in_txn>>
  BY DEF RotateFile, RestartServer, BetweenTransactions
<1>4. table_ids' \in Seq([table : Tables, ver : Nat])
  <2>1. /\ table_ids \in Seq([table : Tables, ver : Nat])
        /\ <<>> \in Seq([table : Tables, ver : Nat])
    BY DEF LogTypeOK
  <2>2. table_ids' = table_ids \/ table_ids' = <<>>
    BY DEF RotateFile, RestartServer
  <2> QED
    BY <2>1, <2>2
<1>5. Len(files') > 0
  BY <1>2 DEF Opens, LogTypeOK
<1> QED
  BY <1>2, <1>3, <1>4, <1>5 DEF LogTypeOK

-----------------------------------------------------------------------------
(* The log stays well formed *)

\* What holds of the statement in front of an event goes on holding.
LEMMA TableMapOfStable ==
    ASSUME LogTypeOK, Grows, NEW f \in 1..Len(files),
           NEW r \in 1..Len(files[f]), NEW m
    PROVE  IsTableMapOf(<<f, m>>, <<f, r>>)' <=> IsTableMapOf(<<f, m>>, <<f, r>>)
<1>1. Len(files) \in Nat /\ Len(files[f]) \in Nat
  BY LogNumbers DEF LogTypeOK
<1>2. /\ f \in 1..Len(files') /\ Len(files'[f]) \in Nat
      /\ Len(files'[f]) >= Len(files[f])
      /\ \A k \in 1..Len(files[f]) : files'[f][k] = files[f][k]
  BY <1>1 DEF Grows
<1>3. m < r => (m \in 1..Len(files'[f]) <=> m \in 1..Len(files[f]))
  BY <1>1, <1>2
<1>4. files'[f][r] = files[f][r]
  BY <1>2
<1>5. CASE m \in 1..Len(files[f]) /\ m < r
  <2>1. files'[f][m] = files[f][m]
    BY <1>2, <1>5
  <2>2. \A j \in (m + 1)..(r - 1) : files'[f][j] = files[f][j]
    BY <1>1, <1>2, <1>5
  <2>3. InLog(f, m) /\ InLog(f, m)'
    BY <1>2, <1>3, <1>5 DEF InLog
  <2>4. (\A j \in (m + 1)..(r - 1) :
            ~(files'[f][j].type = "TABLE_MAP"
                /\ files'[f][j].table = files'[f][r].table))
        <=> (\A j \in (m + 1)..(r - 1) :
               ~(files[f][j].type = "TABLE_MAP"
                   /\ files[f][j].table = files[f][r].table))
    BY <1>4, <2>2
  <2> QED
    BY <1>4, <1>5, <2>1, <2>3, <2>4 DEF IsTableMapOf, EventAt
<1>6. CASE ~(m \in 1..Len(files[f]) /\ m < r)
  BY <1>3, <1>6 DEF IsTableMapOf, InLog
<1> QED
  BY <1>5, <1>6

LEMMA OneStatementStable ==
    ASSUME LogTypeOK, Grows, NEW f \in 1..Len(files),
           NEW a \in Nat \ {0}, NEW b \in 0..Len(files[f])
    PROVE  OneStatement(f, a, b)' <=> OneStatement(f, a, b)
<1>1. Len(files) \in Nat /\ Len(files[f]) \in Nat
  BY LogNumbers DEF LogTypeOK
<1>2. \A j \in a..b : files'[f][j] = files[f][j]
  BY <1>1 DEF Grows
<1> QED
  BY <1>2 DEF OneStatement

\* Old rows keep the TABLE_MAP event they have.
LEMMA OldRowsAreMapped ==
    ASSUME LogTypeOK, Grows, RowsAreMapped,
           NEW f \in 1..Len(files), NEW r \in 1..Len(files[f]),
           files'[f][r].type = "ROWS"
    PROVE  \E m \in 1..r : IsTableMapOf(<<f, m>>, <<f, r>>)'
                             /\ OneStatement(f, m, r)'
<1>1. files[f][r].type = "ROWS"
  BY DEF Grows
<1>2. PICK m \in 1..r : IsTableMapOf(<<f, m>>, <<f, r>>)
                          /\ OneStatement(f, m, r)
  BY <1>1 DEF RowsAreMapped
<1>3. m \in Nat \ {0} /\ r \in 0..Len(files[f])
  BY DEF LogTypeOK
<1> QED
  BY <1>2, <1>3, TableMapOfStable, OneStatementStable

LEMMA AppendKeepsRotates ==
    ASSUME LogTypeOK, RotateEndsFile, NoStoredFormat,
           NEW e, Appends(e), e.type \notin {"ROTATE", "FDE"}
    PROVE  RotateEndsFile' /\ NoStoredFormat'
<1>1. Len(files) \in Nat /\ Len(files) > 0
      /\ \A f \in 1..Len(files) : Len(files[f]) \in Nat
  BY LogNumbers DEF LogTypeOK
<1> SUFFICES ASSUME NEW f \in 1..Len(files'), NEW k \in 1..Len(files'[f])
             PROVE  /\ files'[f][k].type = "ROTATE" =>
                          f < Len(files') /\ k = Len(files'[f])
                    /\ files'[f][k].type # "FDE"
  BY DEF RotateEndsFile, NoStoredFormat
<1>2. f \in 1..Len(files) /\ Len(files') = Len(files)
  BY DEF Appends
<1>3. CASE f < Len(files)
  <2>1. files'[f] = files[f]
    BY <1>1, <1>2, <1>3 DEF Appends
  <2> QED
    BY <1>2, <2>1 DEF RotateEndsFile, NoStoredFormat
<1>4. CASE f = Len(files) /\ k \in 1..Len(LastFile)
  <2>1. files'[f][k] = files[f][k]
    BY <1>4 DEF Appends, LastFile
  <2> QED
    BY <1>1, <1>2, <1>4, <2>1 DEF RotateEndsFile, NoStoredFormat, LastFile
<1>5. CASE f = Len(files) /\ k = Len(LastFile) + 1
  BY <1>5 DEF Appends
<1>6. f = Len(files) => k \in 1..(Len(LastFile) + 1)
  BY DEF Appends
<1> QED
  BY <1>1, <1>2, <1>3, <1>4, <1>5, <1>6 DEF LastFile

LEMMA PlainKeepsLogInv ==
    ASSUME LogTypeOK, LogTypeOK', LogInv,
           NEW type \in {"QUERY", "LONG_QUERY", "XID", "UNSUPPORTED"}, WritesPlain(type)
    PROVE  LogInv'
<1> DEFINE L == Len(files)
           n == Len(LastFile)
<1>1. L \in Nat /\ L > 0 /\ n \in Nat
  BY DEF LogTypeOK, LastFile
<1>2. /\ Len(files') = L /\ Len(files'[L]) = n + 1
      /\ files'[L][n + 1].type = type
      /\ \A k \in 1..n : files'[L][k] = files[L][k]
      /\ \A f \in 1..(L - 1) : files'[f] = files[f]
      /\ Len(files[L]) = n
  BY DEF WritesPlain, Appends, Plain, LastFile
<1>3. Grows
  BY AppendsGrows DEF WritesPlain
<1>4. RowsAreMapped'
  <2> SUFFICES ASSUME NEW f \in 1..Len(files'), NEW r \in 1..Len(files'[f]),
                      files'[f][r].type = "ROWS"
               PROVE  \E m \in 1..r : IsTableMapOf(<<f, m>>, <<f, r>>)'
                                        /\ OneStatement(f, m, r)'
    BY DEF RowsAreMapped
  <2>1. PICK e : Appends(e) /\ e.type = type
    BY DEF WritesPlain, Plain
  <2>2. e.type # "ROWS"
    BY <2>1
  <2>3. f \in 1..Len(files) /\ r \in 1..Len(files[f])
    BY <2>1, <2>2, AppendedPlaces
  <2> QED
    BY <1>3, <2>3, OldRowsAreMapped DEF LogInv
<1>5. MappedHasOpenMap' /\ BetweenTransactions'
  <2>1. NothingMapped'
    BY DEF WritesPlain, NothingMapped
  <2>2. LastFile'[Len(LastFile')].type \notin InStatement
    BY <1>2 DEF LastFile, InStatement
  <2> QED
    BY <2>1, <2>2 DEF MappedHasOpenMap, BetweenTransactions, NothingMapped
<1>6. RotateEndsFile' /\ NoStoredFormat'
  BY AppendKeepsRotates DEF WritesPlain, LogInv, Plain
<1> QED
  BY <1>4, <1>5, <1>6 DEF LogInv

\* A statement goes on: its open TABLE_MAP events stay open.
LEMMA OpenMapExtended ==
    ASSUME LogTypeOK, NEW e, Appends(e), e.type \in InStatement,
           NEW u \in Tables, NEW k \in 1..Len(LastFile), OpenMap(u, k),
           mapped'[u] = mapped[u],
           ~(e.type = "TABLE_MAP" /\ e.table = u)
    PROVE  OpenMap(u, k)'
<1>1. PICK L \in Nat, n \in Nat : L = Len(files) /\ n = Len(LastFile)
  BY LogLengths
<1>2. /\ Len(files') = L /\ Len(files'[L]) = n + 1
      /\ files'[L][n + 1] = e
      /\ \A j \in 1..n : files'[L][j] = files[L][j]
      /\ Len(files[L]) = n
  BY <1>1 DEF Appends, LastFile
<1>3. /\ files[L][k].type = "TABLE_MAP"
      /\ files[L][k].table = u /\ files[L][k].id = mapped[u]
      /\ \A j \in k..n : files[L][j].type \in InStatement
      /\ \A j \in (k + 1)..n :
           ~(files[L][j].type = "TABLE_MAP" /\ files[L][j].table = u)
  BY <1>1 DEF OpenMap, OneStatement, LastFile
<1>4. /\ files'[L][k].type = "TABLE_MAP"
      /\ files'[L][k].table = u /\ files'[L][k].id = mapped'[u]
  BY <1>1, <1>2, <1>3
<1>5. \A j \in k..(n + 1) : files'[L][j].type \in InStatement
  <2> SUFFICES ASSUME NEW j \in k..(n + 1)
               PROVE  files'[L][j].type \in InStatement
    OBVIOUS
  <2>1. j \in k..n \/ j = n + 1
    BY <1>1
  <2> QED
    BY <1>1, <1>2, <1>3, <2>1
<1>6. \A j \in (k + 1)..(n + 1) :
        ~(files'[L][j].type = "TABLE_MAP" /\ files'[L][j].table = u)
  <2> SUFFICES ASSUME NEW j \in (k + 1)..(n + 1)
               PROVE  ~(files'[L][j].type = "TABLE_MAP"
                          /\ files'[L][j].table = u)
    OBVIOUS
  <2>1. j \in (k + 1)..n \/ j = n + 1
    BY <1>1
  <2> QED
    BY <1>1, <1>2, <1>3, <2>1
<1> QED
  BY <1>2, <1>4, <1>5, <1>6 DEF OpenMap, OneStatement, LastFile

LEMMA MapKeepsLogInv ==
    ASSUME LogTypeOK, LogTypeOK', LogInv, NEW t \in Tables,
           NEW i \in Nat \ {0},
           Appends(TableMapEvent(t, i)), mapped[t] = 0,
           mapped' = [mapped EXCEPT ![t] = i], in_txn'
    PROVE  LogInv'
<1> DEFINE e == TableMapEvent(t, i)
<1>0. PICK L \in Nat, n \in Nat : L = Len(files) /\ n = Len(LastFile)
  BY LogLengths
<1>1. L > 0 /\ L \in Nat /\ n \in Nat
  BY <1>0 DEF LogTypeOK
<1>2. /\ Len(files') = L /\ Len(files'[L]) = n + 1
      /\ files'[L][n + 1] = e
      /\ \A k \in 1..n : files'[L][k] = files[L][k]
      /\ Len(files[L]) = n
  BY <1>0 DEF Appends, LastFile
<1>3. Grows
  BY AppendsGrows
<1>4. e.type = "TABLE_MAP" /\ e.table = t /\ e.id = i
  BY DEF TableMapEvent
<1>5. RowsAreMapped'
  <2> SUFFICES ASSUME NEW f \in 1..Len(files'), NEW r \in 1..Len(files'[f]),
                      files'[f][r].type = "ROWS"
               PROVE  \E m \in 1..r : IsTableMapOf(<<f, m>>, <<f, r>>)'
                                        /\ OneStatement(f, m, r)'
    BY DEF RowsAreMapped
  <2>1. f \in 1..Len(files) /\ r \in 1..Len(files[f])
    <3>1. CASE f < L
      BY <1>0, <1>1, <1>2, <3>1 DEF Appends
    <3>2. CASE f = L
      BY <1>0, <1>1, <1>2, <1>4, <3>2
    <3> QED
      BY <1>0, <1>1, <1>2, <3>1, <3>2
  <2> QED
    BY <1>3, <2>1, OldRowsAreMapped DEF LogInv
<1>6. MappedHasOpenMap'
  <2> SUFFICES ASSUME NEW u \in Tables, mapped'[u] # 0
               PROVE  \E k \in 1..(n + 1) : OpenMap(u, k)'
    BY <1>0, <1>2 DEF MappedHasOpenMap, LastFile
  <2>1. CASE u = t
    <3>1. mapped'[t] = i
      BY DEF LogTypeOK
    <3>2. OpenMap(t, n + 1)'
      BY <1>0, <1>1, <1>2, <1>4, <3>1
         DEF OpenMap, OneStatement, LastFile, InStatement
    <3> QED
      BY <1>1, <2>1, <3>2
  <2>2. CASE u # t
    <3>1. mapped'[u] = mapped[u]
      BY <2>2 DEF LogTypeOK
    <3>2. PICK k \in 1..n : OpenMap(u, k)
      BY <1>0, <3>1 DEF LogInv, MappedHasOpenMap
    <3>3. OpenMap(u, k)'
      BY <1>0, <1>4, <2>2, <3>1, <3>2, OpenMapExtended DEF InStatement
    <3> QED
      BY <1>1, <3>3
  <2> QED
    BY <2>1, <2>2
<1>7. BetweenTransactions'
  BY DEF BetweenTransactions
<1>8. RotateEndsFile' /\ NoStoredFormat'
  BY <1>4, AppendKeepsRotates DEF LogInv
<1> QED
  BY <1>5, <1>6, <1>7, <1>8 DEF LogInv

LEMMA RowsKeepLogInv ==
    ASSUME LogTypeOK, LogTypeOK', LogInv, NEW t \in Tables,
           NEW kind \in Kinds, Appends(RowsEvent(t, kind)),
           mapped[t] # 0, mapped' \in {mapped, [u \in Tables |-> 0]},
           UNCHANGED in_txn
    PROVE  LogInv'
<1> DEFINE e == RowsEvent(t, kind)
<1>0. PICK L \in Nat, n \in Nat : L = Len(files) /\ n = Len(LastFile)
  BY LogLengths
<1>1. L > 0 /\ L \in Nat /\ n \in Nat
  BY <1>0 DEF LogTypeOK
<1>2. /\ Len(files') = L /\ Len(files'[L]) = n + 1
      /\ files'[L][n + 1] = e
      /\ \A k \in 1..n : files'[L][k] = files[L][k]
      /\ Len(files[L]) = n
  BY <1>0 DEF Appends, LastFile
<1>3. Grows
  BY AppendsGrows
<1>4. e.type = "ROWS" /\ e.table = t /\ e.id = mapped[t]
  BY DEF RowsEvent
<1>5. RowsAreMapped'
  <2> SUFFICES ASSUME NEW f \in 1..Len(files'), NEW r \in 1..Len(files'[f]),
                      files'[f][r].type = "ROWS"
               PROVE  \E m \in 1..r : IsTableMapOf(<<f, m>>, <<f, r>>)'
                                        /\ OneStatement(f, m, r)'
    BY DEF RowsAreMapped
  <2>1. CASE f \in 1..Len(files) /\ r \in 1..Len(files[f])
    BY <1>3, <2>1, OldRowsAreMapped DEF LogInv
  <2>2. CASE f = L /\ r = n + 1
    <3>1. PICK k \in 1..n : OpenMap(t, k)
      BY <1>0 DEF LogInv, MappedHasOpenMap
    <3>2. /\ files[L][k].type = "TABLE_MAP"
          /\ files[L][k].table = t /\ files[L][k].id = e.id
          /\ \A j \in k..n : files[L][j].type \in InStatement
          /\ \A j \in (k + 1)..n :
               ~(files[L][j].type = "TABLE_MAP" /\ files[L][j].table = t)
      BY <1>0, <1>4, <3>1 DEF OpenMap, OneStatement, LastFile
    <3>3. IsTableMapOf(<<L, k>>, <<L, n + 1>>)'
      <4> HIDE DEF e
      <4>1. /\ L \in 1..Len(files') /\ k \in 1..Len(files'[L]) /\ k < n + 1
            /\ files'[L][k] = files[L][k]
        BY <1>1, <1>2
      <4>2. ASSUME NEW j \in (k + 1)..((n + 1) - 1)
            PROVE  ~(files'[L][j].type = "TABLE_MAP"
                       /\ files'[L][j].table = e.table)
        <5>1. j \in (k + 1)..n /\ j \in 1..n
          BY <1>1
        <5>2. files'[L][j] = files[L][j]
          BY <1>2, <5>1
        <5>3. ~(files[L][j].type = "TABLE_MAP" /\ files[L][j].table = e.table)
          BY <1>4, <3>2, <5>1
        <5> QED
          BY <5>2, <5>3
      <4>3. /\ files'[L][k].type = "TABLE_MAP"
            /\ files'[L][k].id = e.id /\ files'[L][k].table = e.table
        BY <1>4, <3>2, <4>1
      <4> QED
        BY <1>2, <4>1, <4>2, <4>3 DEF IsTableMapOf, InLog, EventAt
    <3>4. OneStatement(L, k, n + 1)'
      <4> SUFFICES ASSUME NEW j \in k..(n + 1)
                   PROVE  files'[L][j].type \in InStatement
        BY DEF OneStatement
      <4> HIDE DEF e
      <4>1. CASE j = n + 1
        BY <1>2, <1>4, <4>1 DEF InStatement
      <4>2. CASE j # n + 1
        <5>1. j \in k..n /\ j \in 1..n
          BY <1>1, <4>2
        <5> QED
          BY <1>2, <3>2, <5>1
      <4> QED
        BY <4>1, <4>2
    <3> QED
      BY <1>1, <2>2, <3>3, <3>4
  <2>3. \/ f \in 1..Len(files) /\ r \in 1..Len(files[f])
        \/ f = L /\ r = n + 1
    BY <1>0, AppendedPlaces
  <2> QED
    BY <2>1, <2>2, <2>3
<1>6. MappedHasOpenMap'
  <2> SUFFICES ASSUME NEW u \in Tables, mapped'[u] # 0
               PROVE  \E k \in 1..(n + 1) : OpenMap(u, k)'
    BY <1>0, <1>2 DEF MappedHasOpenMap, LastFile
  <2>1. mapped'[u] = mapped[u]
    OBVIOUS
  <2>2. PICK k \in 1..n : OpenMap(u, k)
    BY <1>0, <2>1 DEF LogInv, MappedHasOpenMap
  <2>3. OpenMap(u, k)'
    BY <1>0, <1>4, <2>1, <2>2, OpenMapExtended DEF InStatement
  <2> QED
    BY <1>1, <2>3
<1>7. BetweenTransactions'
  BY DEF BetweenTransactions, LogInv, NothingMapped
<1>8. RotateEndsFile' /\ NoStoredFormat'
  BY <1>4, AppendKeepsRotates DEF LogInv
<1> QED
  BY <1>5, <1>6, <1>7, <1>8 DEF LogInv

LEMMA FileKeepsLogInv ==
    ASSUME LogTypeOK, LogTypeOK', LogInv,
           NEW type \in {"ROTATE", "STOP"}, Opens(Plain(type)),
           NothingMapped, UNCHANGED <<mapped, in_txn>>
    PROVE  LogInv'
<1> DEFINE L == Len(files)
           n == Len(LastFile)
<1>1. L \in Nat /\ L > 0 /\ n \in Nat
      /\ \A f \in 1..L : Len(files[f]) \in Nat
  BY LogNumbers DEF LogTypeOK, LastFile
<1>2. Grows
  BY OpensGrows
<1>3. /\ Len(files') = L + 1 /\ files'[L + 1] = <<>>
      /\ \A f \in 1..(L - 1) : files'[f] = files[f]
      /\ Len(files[L]) = n
  BY DEF Opens, LastFile
\* Events that are in the log already, and the new one.
<1>4. ASSUME NEW f \in 1..Len(files'), NEW k \in 1..Len(files'[f])
      PROVE  \/ /\ f \in 1..L /\ k \in 1..Len(files[f])
                /\ files'[f][k] = files[f][k]
                /\ f < L => files'[f] = files[f]
             \/ /\ f = L /\ k = n + 1 /\ k = Len(files'[f])
                /\ files'[f][k].type = type
  <2>1. CASE f < L
    BY <1>1, <1>3, <2>1
  <2>2. CASE f = L
    BY <1>1, <1>3, <2>2 DEF Opens, LastFile, Plain
  <2>3. f # L + 1
    BY <1>3
  <2> QED
    BY <1>1, <1>3, <2>1, <2>2, <2>3
<1>5. RowsAreMapped'
  <2> SUFFICES ASSUME NEW f \in 1..Len(files'), NEW r \in 1..Len(files'[f]),
                      files'[f][r].type = "ROWS"
               PROVE  \E m \in 1..r : IsTableMapOf(<<f, m>>, <<f, r>>)'
                                        /\ OneStatement(f, m, r)'
    BY DEF RowsAreMapped
  <2>1. f \in 1..Len(files) /\ r \in 1..Len(files[f])
    BY <1>4
  <2> QED
    BY <1>2, <2>1, OldRowsAreMapped DEF LogInv
<1>6. MappedHasOpenMap' /\ BetweenTransactions'
  BY <1>3 DEF MappedHasOpenMap, BetweenTransactions, NothingMapped, LastFile
<1>7. RotateEndsFile' /\ NoStoredFormat'
  <2> SUFFICES ASSUME NEW f \in 1..Len(files'), NEW k \in 1..Len(files'[f])
               PROVE  /\ files'[f][k].type = "ROTATE" =>
                            f < Len(files') /\ k = Len(files'[f])
                      /\ files'[f][k].type # "FDE"
    BY DEF RotateEndsFile, NoStoredFormat
  <2>1. CASE /\ f \in 1..L /\ k \in 1..Len(files[f])
             /\ files'[f][k] = files[f][k]
             /\ f < L => files'[f] = files[f]
    BY <1>1, <1>3, <2>1 DEF LogInv, RotateEndsFile, NoStoredFormat
  <2>2. CASE /\ f = L /\ k = n + 1 /\ k = Len(files'[f])
             /\ files'[f][k].type = type
    BY <1>1, <1>3, <2>2
  <2> QED
    BY <1>4, <2>1, <2>2
<1> QED
  BY <1>5, <1>6, <1>7 DEF LogInv

\* The log stays well formed, and only grows, whatever the master does.
LEMMA MasterKeepsLog ==
    ASSUME LogTypeOK, LogInv, BinlogNext \/ RestartServer
    PROVE  LogTypeOK' /\ LogInv' /\ Grows
<1> BetweenTransactions
  BY DEF LogInv
<1>1. CASE \/ Begin \/ Savepoint \/ Commit \/ WriteUnsupported
           \/ \E t \in Tables : AlterTable(t)
  <2>1. LogTypeOK'
    BY <1>1, PlainStep
  <2>2. PICK type \in {"QUERY", "LONG_QUERY", "XID", "UNSUPPORTED"} : WritesPlain(type)
    BY <1>1, PlainStep
  <2>3. Grows
    BY <2>1, <2>2, AppendsGrows DEF WritesPlain
  <2> QED
    BY <2>1, <2>2, <2>3, PlainKeepsLogInv
<1>2. CASE \E t \in Tables : MapTable(t)
  <2>1. PICK t \in Tables : MapTable(t)
    BY <1>2
  <2>2. LogTypeOK' /\ in_txn'
    BY <2>1, MapStep
  <2>3. PICK i \in Nat \ {0} :
            /\ Appends(TableMapEvent(t, i))
            /\ mapped[t] = 0 /\ mapped' = [mapped EXCEPT ![t] = i]
    BY <2>1, MapStep
  <2>4. Grows
    BY <2>2, <2>3, AppendsGrows
  <2> QED
    BY <2>2, <2>3, <2>4, MapKeepsLogInv
<1>3. CASE \E t \in Tables : WriteRows(t)
  <2>1. PICK t \in Tables : WriteRows(t)
    BY <1>3
  <2>2. LogTypeOK'
    BY <2>1, RowsStep
  <2>3. PICK kind \in Kinds : Appends(RowsEvent(t, kind))
    BY <2>1, RowsStep
  <2>4. /\ mapped[t] # 0 /\ mapped' \in {mapped, [u \in Tables |-> 0]}
        /\ UNCHANGED in_txn
    BY <2>1, RowsStep
  <2>5. Grows
    BY <2>2, <2>3, AppendsGrows
  <2> QED
    BY <2>2, <2>3, <2>4, <2>5, RowsKeepLogInv
<1>4. CASE RotateFile \/ RestartServer
  <2>1. LogTypeOK' /\ NothingMapped /\ UNCHANGED <<mapped, in_txn>>
    BY <1>4, FileStep
  <2>2. PICK type \in {"ROTATE", "STOP"} : Opens(Plain(type))
    BY <1>4, FileStep
  <2>3. Grows
    BY <2>1, <2>2, OpensGrows
  <2> QED
    BY <2>1, <2>2, <2>3, FileKeepsLogInv
<1> QED
  BY <1>1, <1>2, <1>3, <1>4 DEF BinlogNext

\* A step that leaves the log alone.
LEMMA LogUnchanged ==
    ASSUME LogTypeOK, LogInv, UNCHANGED binlogVars
    PROVE  LogTypeOK' /\ LogInv' /\ Grows
<1> USE DEF binlogVars
<1>1. LogTypeOK'
  BY DEF LogTypeOK
<1>2. LogInv'
  BY DEF LogInv, RowsAreMapped, MappedHasOpenMap, BetweenTransactions,
         RotateEndsFile, NoStoredFormat, OpenMap, OneStatement, LastFile,
         NothingMapped, IsTableMapOf, InLog, EventAt
<1>3. Grows
  BY LogNumbers DEF LogTypeOK, Grows
<1> QED
  BY <1>1, <1>2, <1>3

LEMMA LogInit ==
    ASSUME BinlogInit
    PROVE  LogTypeOK /\ LogInv
<1>1. /\ files \in Seq(Seq(Event)) /\ Len(files) = 1 /\ LastFile = <<>>
      /\ files[1] = <<>>
  BY DEF BinlogInit, LastFile
<1>2. LogTypeOK
  <2>1. Len(files) > 0
    BY <1>1
  <2>2. table_ids \in Seq([table : Tables, ver : Nat])
    BY DEF BinlogInit
  <2>3. /\ schema \in [Tables -> Nat] /\ in_txn \in BOOLEAN
        /\ mapped \in [Tables -> Nat]
    BY DEF BinlogInit
  <2> QED
    BY <1>1, <2>1, <2>2, <2>3 DEF LogTypeOK
<1>3. LogInv
  BY <1>1 DEF BinlogInit, LogInv, RowsAreMapped, MappedHasOpenMap,
              BetweenTransactions, RotateEndsFile, NoStoredFormat,
              NothingMapped
<1> QED
  BY <1>2, <1>3

-----------------------------------------------------------------------------
(* Positions in a growing log *)

LEMMA PositionsStay ==
    ASSUME LogTypeOK, Grows, NEW p
    PROVE  /\ InLog(p[1], p[2]) =>
                InLog(p[1], p[2])' /\ EventAt(p)' = EventAt(p)
           /\ OnLog(p) => OnLog(p)'
           /\ Boundary(p) => Boundary(p)'
<1>1. Len(files) \in Nat /\ \A f \in 1..Len(files) : Len(files[f]) \in Nat
  BY LogNumbers DEF LogTypeOK
<1>2. ASSUME InLog(p[1], p[2])
      PROVE  InLog(p[1], p[2])' /\ EventAt(p)' = EventAt(p)
  <2>1. PICK f \in 1..Len(files) : f = p[1]
    BY <1>2 DEF InLog
  <2>2. PICK k \in 1..Len(files[f]) : k = p[2]
    BY <1>2, <2>1 DEF InLog
  <2>3. /\ f \in 1..Len(files') /\ k \in 1..Len(files'[f])
        /\ files'[f][k] = files[f][k]
    BY <1>1 DEF Grows
  <2> QED
    BY <2>1, <2>2, <2>3 DEF InLog, EventAt
<1>3. ASSUME OnLog(p) PROVE OnLog(p)'
  <2>1. PICK f \in 1..Len(files) : f = p[1]
    BY <1>3 DEF OnLog
  <2>2. PICK k \in 1..(Len(files[f]) + 1) : k = p[2]
    BY <1>3, <2>1 DEF OnLog
  <2>3. f \in 1..Len(files') /\ k \in 1..(Len(files'[f]) + 1)
    BY <1>1 DEF Grows
  <2> QED
    BY <2>1, <2>2, <2>3 DEF OnLog
<1>4. ASSUME Boundary(p) PROVE Boundary(p)'
  <2>1. OnLog(p)'
    BY <1>3, <1>4 DEF Boundary
  <2>2. p[2] > 1 => files'[p[1]][p[2] - 1] = files[p[1]][p[2] - 1]
    <3> SUFFICES ASSUME p[2] > 1
                 PROVE  files'[p[1]][p[2] - 1] = files[p[1]][p[2] - 1]
      OBVIOUS
    <3>1. p[1] \in 1..Len(files) /\ p[2] \in 1..(Len(files[p[1]]) + 1)
      BY <1>4 DEF Boundary, OnLog
    <3>2. p[2] - 1 \in 1..Len(files[p[1]])
      BY <1>1, <3>1
    <3> QED
      BY <3>1, <3>2 DEF Grows
  <2> QED
    BY <1>4, <2>1, <2>2 DEF Boundary
<1> QED
  BY <1>2, <1>3, <1>4

\* Between two transactions the end of the log is a boundary.
LEMMA LogEndIsBoundary ==
    ASSUME LogTypeOK, LogInv, ~in_txn
    PROVE  Boundary(LogEnd)
<1>1. Len(files) \in Nat /\ Len(files) > 0 /\ Len(LastFile) \in Nat
  BY LogNumbers DEF LogTypeOK, LastFile
<1>2. LastFile # <<>> => LastFile[Len(LastFile)].type \notin InStatement
  BY DEF LogInv, BetweenTransactions
<1>3. Len(LastFile) > 0 => LastFile # <<>>
  OBVIOUS
<1> QED
  BY <1>1, <1>2, <1>3 DEF Boundary, OnLog, LogEnd, LastFile

-----------------------------------------------------------------------------
(* Types and positions *)

RegistryTypeOK ==
    /\ DOMAIN id_2_table \subseteq Nat
    /\ \A i \in DOMAIN id_2_table : id_2_table[i] \in Watched
    /\ DOMAIN table_2_id \subseteq {NameOf[t] : t \in Watched}
    /\ \A n \in DOMAIN table_2_id : table_2_id[n] \in Nat
    /\ tables \in [Watched -> [tuned : BOOLEAN, id : Nat, ver : Nat,
                               rows : Nat \X Nat, newRows : Nat \X Nat]]

SessionTypeOK ==
    /\ dispatch \in BOOLEAN
    /\ is_connected \in BOOLEAN
    /\ binlog_name \in Nat /\ binlog_pos \in Nat
    /\ pc \in PCs
    /\ conn \in Connection

HistoryTypeOK ==
    /\ buf \in Packet
    /\ start \in Nat \X Nat
    /\ delivered \subseteq Callback
    /\ reported \subseteq Nat \X Nat
    /\ failures \in Nat

LEMMA TypeParts ==
    TypeOK <=> LogTypeOK /\ RegistryTypeOK /\ SessionTypeOK /\ HistoryTypeOK
BY DEF TypeOK, LogTypeOK, RegistryTypeOK, SessionTypeOK, HistoryTypeOK, Resume

-----------------------------------------------------------------------------
(* The actions by what they touch *)

\* Steps that leave the log and the registry alone.
Plainly ==
    \/ SetBinlogPosition \/ Prepare \/ AppLoop \/ LoopHead \/ Connect
    \/ ConnectFails \/ HookFails \/ RequestBinlogDump
    \/ RequestBinlogDumpFails \/ Drop \/ Reading \/ HandleRefused
    \/ HandleRotate \/ HandleFormatDescription \/ HandleQuery
    \/ HandleLongQuery \/ HandleWideRows \/ HandleOther \/ StopEventLoop

LEMMA StepCases ==
    CrashNext <=> Plainly \/ HandleTableMap \/ HandleRows \/ CallbackFails
                    \/ Master \/ MasterRestart
BY DEF CrashNext, Next, ThreadStep, Failing, Reconnecting, Handle, Plainly

LEMMA PlainlyUnchanged ==
    ASSUME Plainly
    PROVE  UNCHANGED binlogVars /\ UNCHANGED registryVars
BY DEF Plainly, SetBinlogPosition, Prepare, AppLoop, LoopHead, Connect,
       ConnectFails, HookFails, RequestBinlogDump, RequestBinlogDumpFails,
       Drop, Reading, ReadFails, ReadStopped, ReadFileName,
       ReadFormatDescription, ReadEvent, Receive, HandleRefused, HandleRotate,
       HandleFormatDescription, HandleQuery, HandleLongQuery, HandleWideRows,
       HandleOther, StopEventLoop, Handling

-----------------------------------------------------------------------------
(* Types *)

LEMMA LogEndType ==
    ASSUME LogTypeOK
    PROVE  LogEnd[1] \in Nat /\ LogEnd[2] \in Nat /\ LogEnd \in Nat \X Nat
BY LogNumbers DEF LogTypeOK, LogEnd

LEMMA FinishType ==
    ASSUME SessionTypeOK, HistoryTypeOK, Finish
    PROVE  /\ pc' \in PCs /\ is_connected' \in BOOLEAN
           /\ conn' \in Connection /\ reported' \subseteq Nat \X Nat
<1>1. NoConnection \in Connection
  BY DEF NoConnection, Connection
<1>2. buf.at \in Nat \X Nat
  BY DEF HistoryTypeOK, Packet
<1> QED
  BY <1>1, <1>2 DEF Finish, Throw, SessionTypeOK, HistoryTypeOK, PCs

LEMMA PlainlyType ==
    ASSUME TypeOK, Plainly
    PROVE  SessionTypeOK' /\ HistoryTypeOK'
<1> LogTypeOK /\ SessionTypeOK /\ HistoryTypeOK
  BY TypeParts
<1> USE DEF SessionTypeOK, HistoryTypeOK
<1>1. CASE SetBinlogPosition
  BY <1>1, LogEndType DEF SetBinlogPosition, historyVars
<1>2. CASE Prepare
  <2>1. start' \in Nat \X Nat
    BY <1>2, LogEndType DEF Prepare, Resume
  <2> QED
    BY <1>2, <2>1 DEF Prepare, ServerDumpsFrom, Connection, PCs
<1>3. CASE AppLoop \/ LoopHead \/ Connect
  <2>1. NoConnection \in Connection
        /\ [NoConnection EXCEPT !.st = "idle"] \in Connection
    BY DEF NoConnection, Connection
  <2> QED
    BY <1>3, <2>1 DEF AppLoop, LoopHead, Connect, sessionVars, positionVars,
                      historyVars, PCs
<1>4. CASE ConnectFails \/ HookFails \/ RequestBinlogDumpFails
  BY <1>4 DEF ConnectFails, HookFails, RequestBinlogDumpFails, Throw, Fail,
              sessionVars, positionVars, PCs
<1>5. CASE RequestBinlogDump
  BY <1>5 DEF RequestBinlogDump, ServerDumpsFrom, Resume, sessionVars,
              positionVars, historyVars, Connection, PCs
<1>6. CASE Drop \/ StopEventLoop
  <2>1. conn' \in Connection
    BY <1>6 DEF Drop, StopEventLoop, Connection
  <2>2. CASE Drop
    BY <2>1, <2>2 DEF Drop, Fail, sessionVars, positionVars, historyVars
  <2>3. CASE StopEventLoop
    BY <2>1, <2>3 DEF StopEventLoop, positionVars, historyVars
  <2> QED
    BY <1>6, <2>2, <2>3
<1>7. CASE ReadFails \/ ReadStopped
  BY <1>7 DEF ReadFails, ReadStopped, sessionVars, positionVars, historyVars,
              PCs
<1>8. CASE ReadFileName \/ ReadFormatDescription
  <2>1. NoPacket \in Packet
    BY PlainIsEvent DEF NoPacket, Packet, NoPos
  <2>2. Cursor \in Nat \X Nat
    BY DEF Cursor, Connection
  <2>3. buf' \in Packet /\ conn' \in Connection
    <3>1. CASE ReadFileName
      <4> DEFINE p == IF AtFileEnd THEN <<conn.file + 1, 1>> ELSE Cursor
      <4>1. p \in Nat \X Nat
        BY <2>2 DEF Connection
      <4>2. /\ conn' = [st |-> "dump", file |-> p[1], off |-> p[2],
                        head |-> "fde"]
            /\ buf' = [NoPacket EXCEPT !.ev = Plain("ROTATE"), !.to = p]
        BY <3>1 DEF ReadFileName
      <4> HIDE DEF p
      <4> QED
        BY <2>1, <4>1, <4>2, PlainIsEvent DEF Packet, Connection
    <3>2. CASE ReadFormatDescription
      BY <2>1, <3>2 DEF ReadFormatDescription, Packet, Connection
    <3> QED
      BY <1>8, <3>1, <3>2
  <2> QED
    BY <1>8, <2>3
       DEF ReadFileName, ReadFormatDescription, Receive, sessionVars,
           positionVars, historyVars, PCs
<1>9. CASE ReadEvent
  <2>1. EventAt(Cursor) \in Event /\ Cursor \in Nat \X Nat
    BY <1>9, LogNumbers
       DEF ReadEvent, InLog, EventAt, Cursor, LogTypeOK, Connection
  <2>2. buf' \in Packet
    BY <1>9, <2>1 DEF ReadEvent, Packet, Connection
  <2>3. failures' \in Nat
    BY <1>9 DEF ReadEvent, Fail
  <2> QED
    BY <1>9, <2>2, <2>3
       DEF ReadEvent, Receive, sessionVars, positionVars, historyVars,
           Connection, PCs
<1>10. CASE HandleRefused \/ HandleWideRows
  BY <1>10 DEF HandleRefused, HandleWideRows, Handling, Throw, Packet,
               sessionVars, positionVars, PCs
<1>11. CASE \/ HandleRotate \/ HandleFormatDescription \/ HandleQuery
            \/ HandleLongQuery \/ HandleOther
  <2>1. /\ UNCHANGED <<dispatch, buf, start, delivered, failures>>
        /\ binlog_name' \in Nat /\ binlog_pos' \in Nat
        /\ Finish
    BY <1>11 DEF HandleRotate, HandleFormatDescription, HandleQuery,
                 HandleLongQuery, HandleOther, Handling, MoveTo, Packet,
                 positionVars
  <2> QED
    BY <2>1, FinishType
<1> QED
  BY <1>1, <1>2, <1>3, <1>4, <1>5, <1>6, <1>7, <1>8, <1>9, <1>10, <1>11
     DEF Plainly, Reading

LEMMA MapType ==
    ASSUME TypeOK, HandleTableMap
    PROVE  RegistryTypeOK' /\ SessionTypeOK' /\ HistoryTypeOK'
<1> LogTypeOK /\ RegistryTypeOK /\ SessionTypeOK /\ HistoryTypeOK
  BY TypeParts
<1>1. /\ UNCHANGED <<dispatch, buf, start, positionVars, delivered, failures>>
      /\ Finish
      /\ TableMap(buf.ev)
  BY DEF HandleTableMap, Handling
<1>2. SessionTypeOK' /\ HistoryTypeOK'
  BY <1>1, FinishType DEF SessionTypeOK, HistoryTypeOK, positionVars
<1>3. RegistryTypeOK'
  <2> DEFINE e == buf.ev
  <2>1. CASE e.table \notin Watched
    BY <1>1, <2>1 DEF TableMap, registryVars, RegistryTypeOK
  <2>2. CASE e.table \in Watched
    <3>1. /\ id_2_table' = Put(id_2_table, e.id, e.table)
          /\ table_2_id' = Put(table_2_id, NameOf[e.table], e.id)
          /\ tables' = [tables EXCEPT ![e.table] =
                  Tune(Renewed(@, e), e)]
      BY <1>1, <2>2 DEF TableMap
    <3>2. e.id \in Nat /\ e.ver \in Nat
      BY DEF HistoryTypeOK, Packet, Event
    <3>3. /\ DOMAIN id_2_table' \subseteq Nat
          /\ \A i \in DOMAIN id_2_table' : id_2_table'[i] \in Watched
      <4>1. /\ DOMAIN id_2_table' = DOMAIN id_2_table \union {e.id}
            /\ id_2_table'[e.id] = e.table
            /\ \A i \in DOMAIN id_2_table :
                 i # e.id => id_2_table'[i] = id_2_table[i]
        BY <3>1 DEF Put
      <4> QED
        BY <2>2, <3>2, <4>1 DEF RegistryTypeOK
    <3>4. /\ DOMAIN table_2_id' \subseteq {NameOf[t] : t \in Watched}
          /\ \A n \in DOMAIN table_2_id' : table_2_id'[n] \in Nat
      <4> DEFINE n == NameOf[e.table]
      <4>1. /\ DOMAIN table_2_id' = DOMAIN table_2_id \union {n}
            /\ table_2_id'[n] = e.id
            /\ \A m \in DOMAIN table_2_id :
                 m # n => table_2_id'[m] = table_2_id[m]
        BY <3>1 DEF Put
      <4>2. n \in {NameOf[t] : t \in Watched}
        BY <2>2
      <4> HIDE DEF n
      <4> QED
        BY <3>2, <4>1, <4>2 DEF RegistryTypeOK
    <3> DEFINE T == [tuned : BOOLEAN, id : Nat, ver : Nat,
                     rows : Nat \X Nat, newRows : Nat \X Nat]
               tbl == Renewed(tables[e.table], e)
    <3>5. tbl \in T
      <4>1. tables[e.table] \in T
        BY <2>2 DEF RegistryTypeOK
      <4> QED
        BY <4>1 DEF Renewed
    <3>6. Tune(tbl, e) \in T
      <4> HIDE DEF tbl, e
      <4>1. CASE tbl.tuned
        BY <3>5, <4>1 DEF Tune
      <4>2. CASE ~tbl.tuned
        <5>1. Tune(tbl, e) =
                [tbl EXCEPT !.tuned = TRUE, !.id = e.id, !.ver = e.ver]
          BY <4>2 DEF Tune
        <5> QED
          BY <3>2, <3>5, <5>1
      <4> QED
        BY <4>1, <4>2
    <3>7. tables' = [tables EXCEPT ![e.table] = Tune(tbl, e)]
      BY <3>1
    <3> HIDE DEF T, tbl, e
    <3>8. tables' \in [Watched -> T]
      BY <2>2, <3>6, <3>7 DEF RegistryTypeOK, T
    <3> QED
      BY <3>3, <3>4, <3>8 DEF RegistryTypeOK, T
  <2> QED
    BY <2>1, <2>2
<1> QED
  BY <1>2, <1>3

LEMMA DeliverType ==
    ASSUME RegistryTypeOK, HistoryTypeOK, buf.ev.type = "ROWS",
           KnownId(buf.ev), Deliver
    PROVE  RegistryTypeOK' /\ delivered' \subseteq Callback
<1> DEFINE t == id_2_table[buf.ev.id]
           T == [tuned : BOOLEAN, id : Nat, ver : Nat,
                 rows : Nat \X Nat, newRows : Nat \X Nat]
           tbl == Update(tables[t], buf.ev, buf.at)
<1>1. t \in Watched
  BY DEF RegistryTypeOK, KnownId
<1>2. buf.at \in Nat \X Nat /\ NoPos \in Nat \X Nat
  BY DEF HistoryTypeOK, Packet, NoPos
<1>3. tbl \in T
  <2>1. tables[t] \in T
    BY <1>1 DEF RegistryTypeOK
  <2> QED
    BY <1>2, <2>1 DEF Update
<1>4. /\ tables' = [tables EXCEPT ![t] = tbl]
      /\ delivered' = delivered \union {CallbackFor(t, tbl)}
      /\ UNCHANGED <<id_2_table, table_2_id>>
  BY DEF Deliver
<1> HIDE DEF tbl, t
<1>5. CallbackFor(t, tbl) \in Callback
  <2>1. buf.ev.kind \in {"WRITE", "UPDATE", "DELETE"}
    BY DEF HistoryTypeOK, Packet, Event
  <2> QED
    BY <1>1, <1>2, <1>3, <2>1 DEF CallbackFor, Callback
<1>6. tables' \in [Watched -> T]
  <2>1. tables \in [Watched -> T]
    BY DEF RegistryTypeOK
  <2> HIDE DEF T
  <2> QED
    BY <1>3, <1>4, <2>1
<1> QED
  BY <1>4, <1>5, <1>6 DEF RegistryTypeOK, HistoryTypeOK

LEMMA RowsType ==
    ASSUME TypeOK, HandleRows \/ CallbackFails
    PROVE  RegistryTypeOK' /\ SessionTypeOK' /\ HistoryTypeOK'
<1> LogTypeOK /\ RegistryTypeOK /\ SessionTypeOK /\ HistoryTypeOK
  BY TypeParts
<1>1. CASE HandleRows
  <2>1. /\ UNCHANGED <<dispatch, buf, start, positionVars, failures>>
        /\ buf.ev.type = "ROWS"
        /\ Finish
        /\ \/ KnownId(buf.ev) /\ Deliver
           \/ UNCHANGED <<registryVars, delivered>>
    BY <1>1 DEF HandleRows, Handling
  <2>2. RegistryTypeOK' /\ delivered' \subseteq Callback
    <3>1. CASE KnownId(buf.ev) /\ Deliver
      BY <2>1, <3>1, DeliverType
    <3>2. CASE UNCHANGED <<registryVars, delivered>>
      BY <3>2 DEF registryVars, RegistryTypeOK, HistoryTypeOK
    <3> QED
      BY <2>1, <3>1, <3>2
  <2> QED
    BY <2>1, <2>2, FinishType DEF SessionTypeOK, HistoryTypeOK, positionVars
<1>2. CASE CallbackFails
  <2>1. /\ UNCHANGED <<dispatch, buf, start, positionVars, is_connected, conn>>
        /\ buf.ev.type = "ROWS" /\ KnownId(buf.ev)
        /\ Deliver /\ Throw(buf.at) /\ Fail
    BY <1>2 DEF CallbackFails, Handling
  <2>2. RegistryTypeOK' /\ delivered' \subseteq Callback
    BY <2>1, DeliverType
  <2>3. pc' \in PCs /\ reported' \subseteq Nat \X Nat /\ failures' \in Nat
    BY <2>1 DEF Throw, Fail, HistoryTypeOK, Packet, PCs
  <2> QED
    BY <2>1, <2>2, <2>3 DEF SessionTypeOK, HistoryTypeOK, positionVars
<1> QED
  BY <1>1, <1>2

\* The connection breaks, and nothing else happens on this side.
LEMMA MasterType ==
    ASSUME TypeOK, Master \/ MasterRestart
    PROVE  /\ BinlogNext \/ RestartServer
           /\ UNCHANGED <<registryVars, sessionVars, pc, buf, historyVars>>
           /\ conn' = conn
                \/ conn' = [conn EXCEPT !.st = IF @ = "none" THEN @
                                               ELSE "broken"]
           /\ RegistryTypeOK' /\ SessionTypeOK' /\ HistoryTypeOK'
<1> LogTypeOK /\ RegistryTypeOK /\ SessionTypeOK /\ HistoryTypeOK
  BY TypeParts
<1>1. /\ BinlogNext \/ RestartServer
      /\ UNCHANGED <<registryVars, sessionVars, pc, buf, historyVars>>
      /\ conn' = conn
           \/ conn' = [conn EXCEPT !.st = IF @ = "none" THEN @ ELSE "broken"]
      /\ failures' = failures \/ failures' = failures + 1
  BY DEF Master, MasterRestart, Fail
<1>2. RegistryTypeOK'
  BY <1>1 DEF RegistryTypeOK, registryVars
<1>3. conn' \in Connection
  BY <1>1 DEF SessionTypeOK, Connection
<1>4. SessionTypeOK' /\ HistoryTypeOK'
  BY <1>1, <1>3 DEF SessionTypeOK, HistoryTypeOK, sessionVars, positionVars,
                    historyVars
<1> QED
  BY <1>1, <1>2, <1>4

LEMMA TypeStep ==
    ASSUME TypeOK, LogInv, [CrashNext]_vars
    PROVE  TypeOK' /\ LogInv' /\ Grows
<1> LogTypeOK /\ RegistryTypeOK /\ SessionTypeOK /\ HistoryTypeOK
  BY TypeParts
<1>1. CASE Plainly
  BY <1>1, PlainlyUnchanged, PlainlyType, LogUnchanged, TypeParts
     DEF registryVars, RegistryTypeOK, TypeOK, LogTypeOK, SessionTypeOK,
         HistoryTypeOK, Resume
<1>2. CASE HandleTableMap \/ HandleRows \/ CallbackFails
  <2>1. UNCHANGED binlogVars
    BY <1>2 DEF HandleTableMap, HandleRows, CallbackFails, Handling
  <2> QED
    BY <1>2, <2>1, MapType, RowsType, LogUnchanged
       DEF RegistryTypeOK, TypeOK, LogTypeOK, SessionTypeOK, HistoryTypeOK,
           Resume
<1>3. CASE Master \/ MasterRestart
  <2>1. /\ RegistryTypeOK' /\ SessionTypeOK' /\ HistoryTypeOK'
        /\ LogTypeOK' /\ LogInv' /\ Grows
    BY <1>3, MasterType, MasterKeepsLog
  <2> QED
    BY <2>1 DEF RegistryTypeOK, TypeOK, LogTypeOK, SessionTypeOK,
                HistoryTypeOK, Resume
<1>4. CASE UNCHANGED vars
  <2>1. LogTypeOK' /\ LogInv' /\ Grows
    BY <1>4, LogUnchanged DEF vars
  <2>2. RegistryTypeOK' /\ SessionTypeOK' /\ HistoryTypeOK'
    BY <1>4 DEF vars, registryVars, sessionVars, positionVars, historyVars,
                RegistryTypeOK, SessionTypeOK, HistoryTypeOK
  <2> QED
    BY <2>1, <2>2 DEF RegistryTypeOK, TypeOK, LogTypeOK, SessionTypeOK,
                      HistoryTypeOK, Resume
<1> QED
  BY <1>1, <1>2, <1>3, <1>4, StepCases

LEMMA TypeInit ==
    ASSUME Init
    PROVE  TypeOK /\ LogInv
<1>1. LogTypeOK /\ LogInv
  BY LogInit DEF Init
<1>2. RegistryTypeOK
  BY DEF Init, RegistryInit, RegistryTypeOK, NoPos
<1>3. SessionTypeOK
  BY DEF Init, ReplicationInit, SessionTypeOK, NoConnection, Connection, PCs
<1>4. HistoryTypeOK
  <2>1. NoPacket \in Packet
    BY PlainIsEvent DEF NoPacket, Packet, NoPos
  <2> QED
    BY <2>1 DEF Init, ReplicationInit, HistoryTypeOK, NoPos
<1> QED
  BY <1>1, <1>2, <1>3, <1>4, TypeParts

\* Every variable keeps its type, even when the server restarts.
THEOREM TypeCorrect == CrashSpec => []TypeOK
<1>1. Init => TypeOK /\ LogInv
  BY TypeInit
<1>2. TypeOK /\ LogInv /\ [CrashNext]_vars => (TypeOK /\ LogInv)'
  BY TypeStep
<1> QED
  BY <1>1, <1>2, PTL DEF CrashSpec

-----------------------------------------------------------------------------
(* Positions *)

\* A growing log and a connection that may break keep positions valid.
LEMMA MasterKeepsSession ==
    ASSUME TypeOK, Grows, SessionInv,
           UNCHANGED <<sessionVars, pc, buf, historyVars>>,
           conn' = conn
             \/ conn' = [conn EXCEPT !.st = IF @ = "none" THEN @ ELSE "broken"]
    PROVE  SessionInv'
<1> LogTypeOK /\ SessionTypeOK /\ HistoryTypeOK
  BY TypeParts
<1>0. PICK r, s, a, t, c : /\ r = Resume /\ s = start /\ a = buf.at
                           /\ t = buf.to /\ c = Cursor
  OBVIOUS
<1>1. /\ Resume' = r /\ start' = s /\ buf' = buf /\ pc' = pc
      /\ binlog_name' = binlog_name
  BY <1>0 DEF sessionVars, positionVars, historyVars, Resume
<1>2. PositionsInv'
  <2>1. (Boundary(r) => Boundary(r)') /\ (OnLog(s) => OnLog(s)')
    BY PositionsStay
  <2>2. conn = NoConnection => conn' = NoConnection
    BY DEF NoConnection
  <2> QED
    BY <1>0, <1>1, <2>1, <2>2
       DEF SessionInv, PositionsInv, Boundary, OnLog
<1>3. PacketInv'
  <2>1. /\ InLog(a[1], a[2]) => InLog(a[1], a[2])' /\ EventAt(a)' = EventAt(a)
        /\ Boundary(t) => Boundary(t)'
    BY PositionsStay
  <2> QED
    BY <1>0, <1>1, <2>1
       DEF SessionInv, PacketInv, HoldsLogEvent, InLog, EventAt, Boundary,
           OnLog
<1>4. DumpInv'
  <2> SUFFICES ASSUME conn'.st = "dump" PROVE DumpInv'
    BY DEF DumpInv
  <2>1. conn' = conn
    BY DEF SessionTypeOK, Connection
  <2>2. OnLog(c) => OnLog(c)'
    BY PositionsStay
  <2>3. Cursor' = c
    BY <1>0, <2>1 DEF Cursor
  <2>4. OnLog(Cursor) /\ AtFileEnd => AtFileEnd'
    <3> SUFFICES ASSUME OnLog(Cursor), AtFileEnd PROVE AtFileEnd'
      OBVIOUS
    <3>1. conn.file \in 1..Len(files) /\ conn.file < Len(files)
      BY DEF OnLog, Cursor, AtFileEnd
    <3>2. files'[conn.file] = files[conn.file] /\ conn.file < Len(files')
      BY <3>1, EarlierFileStays
    <3> QED
      BY <2>1, <3>2 DEF AtFileEnd
  <2>5. OnLog(Cursor)'
    BY <1>0, <2>1, <2>2, <2>3 DEF SessionInv, DumpInv, OnLog
  <2> QED
    BY <1>0, <1>1, <2>1, <2>3, <2>4, <2>5
       DEF SessionInv, DumpInv, HoldsLogEvent
<1> QED
  BY <1>2, <1>3, <1>4 DEF SessionInv

\* What the next lemmas need of a step that leaves the log alone.
Quiet ==
    /\ TypeOK /\ LogInv /\ SessionInv
    /\ UNCHANGED binlogVars

LEMMA StartKeepsSession ==
    ASSUME Quiet, SetBinlogPosition \/ Prepare
    PROVE  SessionInv'
<1> LogTypeOK /\ SessionTypeOK
  BY TypeParts DEF Quiet
<1> USE DEF Quiet, binlogVars
<1>0. ~in_txn => Boundary(LogEnd)
  BY LogEndIsBoundary
<1>1. CASE SetBinlogPosition
  <2>1. /\ pc = "init" /\ pc' = pc /\ conn' = conn /\ conn = NoConnection
        /\ Resume' = LogEnd /\ Boundary(LogEnd)
    BY <1>0, <1>1 DEF SetBinlogPosition, LogEnd, Resume, SessionInv,
                      PositionsInv
  <2>2. PositionsInv'
    BY <2>1 DEF PositionsInv, Boundary, OnLog
  <2> QED
    BY <2>1, <2>2 DEF SessionInv, PacketInv, DumpInv, HoldsLogEvent,
                      NoConnection
<1>2. CASE Prepare
  <2>1. /\ pc' = "app"
        /\ Resume' = start'
        /\ conn'.st = "dump" /\ conn'.head = "rotate" /\ Cursor' = start'
    <3>1. start' \in Nat \X Nat
      BY <1>2, LogEndType DEF Prepare, Resume, SessionTypeOK
    <3> QED
      BY <1>2, <3>1 DEF Prepare, Resume, ServerDumpsFrom, Cursor
  <2>2. \E q \in {Resume, LogEnd} : start' = q /\ Boundary(q)
    BY <1>0, <1>2 DEF Prepare, SessionInv, PositionsInv
  <2>3. PositionsInv' /\ OnLog(Cursor)'
    BY <2>1, <2>2 DEF PositionsInv, Boundary, OnLog
  <2> QED
    BY <2>1, <2>3 DEF SessionInv, PacketInv, DumpInv, HoldsLogEvent
<1> QED
  BY <1>1, <1>2

\* Steps that leave the position alone and after which no packet is in hand.
LEMMA WaitingKeepsSession ==
    ASSUME Quiet, UNCHANGED <<positionVars, start>>,
           pc \notin {"init", "handle"}, pc' \notin {"init", "handle"},
           \/ conn' = conn /\ (conn.st = "dump" =>
                                 pc' \notin {"connect", "dump"})
           \/ conn'.st # "dump"
           \/ /\ conn'.st = "dump" /\ conn'.head = "rotate"
              /\ Cursor' = Resume /\ pc' \notin {"connect", "dump"}
    PROVE  SessionInv'
<1> USE DEF Quiet, binlogVars
<1>1. Resume' = Resume /\ start' = start /\ binlog_name' = binlog_name
  BY DEF Resume, positionVars
<1>2. PositionsInv'
  BY <1>1 DEF SessionInv, PositionsInv, Boundary, OnLog
<1>3. PacketInv'
  BY DEF PacketInv, HoldsLogEvent
<1>4. DumpInv'
  <2>1. CASE conn' = conn /\ conn.st = "dump"
    BY <1>1, <2>1 DEF SessionInv, DumpInv, HoldsLogEvent, OnLog, Cursor,
                      AtFileEnd
  <2>2. CASE conn'.st # "dump"
    BY <2>2 DEF DumpInv
  <2>3. CASE /\ conn'.st = "dump" /\ conn'.head = "rotate"
             /\ Cursor' = Resume /\ pc' \notin {"connect", "dump"}
    <3>1. OnLog(Cursor)'
      BY <2>3 DEF SessionInv, PositionsInv, Boundary, OnLog
    <3> QED
      BY <1>1, <2>3, <3>1 DEF DumpInv, HoldsLogEvent
  <2> QED
    BY <2>1, <2>2, <2>3
<1> QED
  BY <1>2, <1>3, <1>4 DEF SessionInv

\* The connection breaks while anything else may be going on.
LEMMA BreakKeepsSession ==
    ASSUME Quiet, Drop \/ StopEventLoop
    PROVE  SessionInv'
<1> SessionTypeOK
  BY TypeParts DEF Quiet
<1> USE DEF Quiet, binlogVars
<1>1. /\ UNCHANGED <<positionVars, start, pc, buf>>
      /\ conn'.st # "dump"
      /\ conn = NoConnection => conn' = NoConnection
  BY DEF Drop, StopEventLoop, sessionVars, historyVars, NoConnection,
         SessionTypeOK, Connection
<1>2. Resume' = Resume
  BY <1>1 DEF Resume, positionVars
<1> QED
  BY <1>1, <1>2
     DEF SessionInv, PositionsInv, PacketInv, DumpInv, HoldsLogEvent,
         Boundary, OnLog, InLog, EventAt, positionVars

LEMMA ConnectingKeepsSession ==
    ASSUME Quiet,
           \/ AppLoop \/ LoopHead \/ Connect \/ ConnectFails \/ HookFails
           \/ RequestBinlogDump \/ RequestBinlogDumpFails \/ ReadFails
           \/ ReadStopped
    PROVE  SessionInv'
<1> SessionTypeOK
  BY TypeParts DEF Quiet
<1>1. UNCHANGED <<positionVars, start>>
  BY DEF AppLoop, LoopHead, Connect, ConnectFails, HookFails,
         RequestBinlogDump, RequestBinlogDumpFails, ReadFails, ReadStopped,
         sessionVars, historyVars
<1>2. pc \notin {"init", "handle"} /\ pc' \notin {"init", "handle"}
  BY DEF AppLoop, LoopHead, Connect, ConnectFails, HookFails,
         RequestBinlogDump, RequestBinlogDumpFails, ReadFails, ReadStopped,
         Throw
<1>3. CASE AppLoop \/ LoopHead \/ ReadFails \/ ReadStopped
  <2>1. \/ conn' = conn /\ pc' \notin {"connect", "dump"}
        \/ conn'.st # "dump"
    BY <1>3 DEF AppLoop, LoopHead, ReadFails, ReadStopped, NoConnection
  <2> QED
    BY <1>1, <1>2, <2>1, WaitingKeepsSession
<1>4. CASE Connect
  <2>1. conn'.st # "dump"
    BY <1>4 DEF Connect, NoConnection
  <2> QED
    BY <1>1, <1>2, <2>1, WaitingKeepsSession
<1>5. CASE ConnectFails \/ HookFails \/ RequestBinlogDumpFails
  <2>1. conn' = conn /\ conn.st # "dump"
    BY <1>5 DEF ConnectFails, HookFails, RequestBinlogDumpFails, Quiet,
                SessionInv, DumpInv
  <2> QED
    BY <1>1, <1>2, <2>1, WaitingKeepsSession
<1>6. CASE RequestBinlogDump
  <2>1. pc' = "loop"
    BY <1>6 DEF RequestBinlogDump
  <2>2. CASE Checksum
    <3>1. conn'.st # "dump"
      BY <1>6, <2>2 DEF RequestBinlogDump, SessionTypeOK, Connection
    <3> QED
      BY <1>1, <1>2, <3>1, WaitingKeepsSession
  <2>3. CASE ~Checksum
    <3>1. conn'.st = "dump" /\ conn'.head = "rotate" /\ Cursor' = Resume
      BY <1>6, <2>3 DEF RequestBinlogDump, ServerDumpsFrom, Cursor, Resume
    <3> QED
      BY <1>1, <1>2, <2>1, <3>1, WaitingKeepsSession
  <2> QED
    BY <2>2, <2>3
<1> QED
  BY <1>3, <1>4, <1>5, <1>6

LEMMA ReadingKeepsSession ==
    ASSUME Quiet, ReadFileName \/ ReadFormatDescription \/ ReadEvent
    PROVE  SessionInv'
<1> LogTypeOK /\ SessionTypeOK
  BY TypeParts DEF Quiet
<1>0. Len(files) \in Nat /\ \A f \in 1..Len(files) : Len(files[f]) \in Nat
  BY LogNumbers DEF LogTypeOK
<1> USE DEF Quiet, binlogVars
<1>1. /\ pc = "read" /\ pc' = "handle" /\ conn.st = "dump"
      /\ UNCHANGED <<positionVars, start>>
  BY DEF ReadFileName, ReadFormatDescription, ReadEvent, Receive,
         sessionVars, historyVars
<1>2. Resume' = Resume /\ binlog_name' = binlog_name
  BY <1>1 DEF Resume, positionVars
<1>3. PositionsInv'
  BY <1>1, <1>2 DEF SessionInv, PositionsInv, Boundary, OnLog
<1>4. OnLog(Cursor) /\ conn.file \in Nat /\ conn.off \in Nat
  BY <1>1 DEF SessionInv, DumpInv, SessionTypeOK, Connection
<1>5. CASE ReadFileName
  <2>1. PICK p : p = IF AtFileEnd THEN <<conn.file + 1, 1>> ELSE Cursor
    OBVIOUS
  <2>2. /\ conn' = [st |-> "dump", file |-> p[1], off |-> p[2],
                    head |-> "fde"]
        /\ buf' = [NoPacket EXCEPT !.ev = Plain("ROTATE"), !.to = p]
        /\ conn.head = "rotate" \/ AtFileEnd
    BY <1>5, <2>1 DEF ReadFileName
  <2>3. Boundary(p)
    <3>1. CASE AtFileEnd
      <4>1. conn.file + 1 \in 1..Len(files) /\ p = <<conn.file + 1, 1>>
        BY <1>0, <1>4, <2>1, <3>1 DEF AtFileEnd
      <4>2. 1 \in 1..(Len(files[conn.file + 1]) + 1)
        BY <1>0, <4>1
      <4> QED
        BY <4>1, <4>2 DEF Boundary, OnLog
    <3>2. CASE ~AtFileEnd
      BY <1>1, <2>1, <2>2, <3>2 DEF SessionInv, DumpInv, PositionsInv
    <3> QED
      BY <3>1, <3>2
  <2>4. /\ buf'.at = NoPos /\ buf'.to = p /\ buf'.ev.type = "ROTATE"
        /\ buf'.damage = "none"
    BY <2>2 DEF NoPacket, Plain
  <2>5. Cursor' = p
    BY <2>1, <2>2 DEF Cursor
  <2>6. Boundary(p)'
    BY <2>3 DEF Boundary, OnLog
  <2>7. PacketInv'
    BY <1>1, <2>4, <2>6 DEF PacketInv, HoldsLogEvent, Boundary, OnLog
  <2>8. DumpInv'
    BY <1>1, <2>2, <2>4, <2>5, <2>6 DEF DumpInv, HoldsLogEvent, Boundary,
                                        OnLog
  <2> QED
    BY <1>3, <2>7, <2>8 DEF SessionInv
<1>6. CASE ReadFormatDescription
  <2>1. /\ conn' = [conn EXCEPT !.head = "none"]
        /\ buf' = [NoPacket EXCEPT !.artificial = FALSE]
        /\ conn.head = "fde"
    BY <1>6 DEF ReadFormatDescription
  <2>2. buf'.at = NoPos /\ buf'.ev.type = "FDE" /\ buf'.damage = "none"
    BY <2>1 DEF NoPacket, Plain
  <2>3. /\ conn'.st = "dump" /\ conn'.head = "none"
        /\ conn'.file = conn.file /\ Cursor' = Cursor
    BY <1>1, <2>1 DEF Cursor, SessionTypeOK, Connection
  <2>4. conn.file = binlog_name
    BY <1>1, <2>1 DEF SessionInv, DumpInv, Cursor, Resume
  <2>5. PacketInv'
    BY <1>1, <2>2 DEF PacketInv, HoldsLogEvent
  <2>6. DumpInv'
    BY <1>1, <1>2, <1>4, <2>2, <2>3, <2>4 DEF DumpInv, HoldsLogEvent, OnLog
  <2> QED
    BY <1>3, <2>5, <2>6 DEF SessionInv
<1>7. CASE ReadEvent
  <2>1. /\ conn' = [conn EXCEPT !.off = @ + 1]
        /\ InLog(conn.file, conn.off) /\ conn.head = "none"
    BY <1>7 DEF ReadEvent
  <2>2. PICK damage \in {"none", "header", "body"} :
          /\ damage = "header" => "header" \in Faults
          /\ damage = "body" => EventAt(Cursor).type = "ROWS"
          /\ buf' = [ev |-> EventAt(Cursor), at |-> Cursor,
                     artificial |-> FALSE, damage |-> damage,
                     log_pos |-> conn.off + 1, to |-> <<conn.file + 1, 1>>]
    BY <1>7 DEF ReadEvent
  <2>3. conn.file = binlog_name
    BY <1>0, <1>1, <2>1 DEF SessionInv, DumpInv, AtFileEnd, InLog
  <2>4. /\ conn'.st = "dump" /\ conn'.head = "none"
        /\ conn'.file = conn.file /\ conn'.off = conn.off + 1
    BY <1>1, <2>1 DEF SessionTypeOK, Connection
  <2>5. Cursor # NoPos
    BY <2>1 DEF Cursor, NoPos, InLog
  <2>6. PacketInv'
    <3>1. InLog(conn.file, conn.off)' = InLog(conn.file', conn.off')
      BY DEF InLog
    <3>2. /\ buf'.at = Cursor /\ buf'.ev = EventAt(Cursor)
          /\ buf'.damage = damage /\ buf'.log_pos = conn.off + 1
          /\ buf'.to = <<conn.file + 1, 1>>
      BY <2>2
    <3> QED
      BY <1>1, <1>2, <2>1, <2>2, <2>3, <2>5, <3>2
         DEF PacketInv, HoldsLogEvent, InLog, EventAt, Cursor
  <2>7. OnLog(Cursor)'
    BY <1>0, <1>4, <2>1, <2>4 DEF OnLog, Cursor, InLog
  <2>8. DumpInv'
    BY <1>1, <1>2, <2>2, <2>3, <2>4, <2>5, <2>7
       DEF DumpInv, HoldsLogEvent, Cursor
  <2> QED
    BY <1>3, <2>6, <2>8 DEF SessionInv
<1> QED
  BY <1>5, <1>6, <1>7

\* Handling ends where the server goes on, or without a connection.
LEMMA HandledKeepsSession ==
    ASSUME Quiet, pc = "handle", pc' \in {"app", "loop"}, UNCHANGED start,
           conn' \in {conn, NoConnection},
           Boundary(Resume)',
           conn.st = "dump" =>
             /\ conn.head = "fde" => Cursor = Resume'
             /\ conn.head = "none" => conn.file = binlog_name' \/ AtFileEnd
    PROVE  SessionInv'
<1> USE DEF Quiet, binlogVars
<1>1. PositionsInv'
  BY DEF SessionInv, PositionsInv, OnLog
<1>2. PacketInv'
  BY DEF PacketInv, HoldsLogEvent
<1>3. DumpInv'
  <2>1. CASE conn' = NoConnection
    BY <2>1 DEF DumpInv, NoConnection
  <2>2. CASE conn' = conn
    <3>1. Cursor' = Cursor /\ AtFileEnd' = AtFileEnd
      BY <2>2 DEF Cursor, AtFileEnd
    <3>2. OnLog(Cursor)' = OnLog(Cursor)
      BY <3>1 DEF OnLog
    <3> QED
      BY <2>2, <3>1, <3>2 DEF DumpInv, SessionInv, HoldsLogEvent
  <2> QED
    BY <2>1, <2>2
<1> QED
  BY <1>1, <1>2, <1>3 DEF SessionInv

\* A packet in hand tells where the server is.
LEMMA PacketInHand ==
    ASSUME Quiet, pc = "handle"
    PROVE  /\ buf.at # NoPos =>
                /\ buf.at[1] = binlog_name /\ buf.log_pos = buf.at[2] + 1
                /\ buf.to = <<buf.at[1] + 1, 1>>
                /\ InLog(buf.at[1], buf.at[2]) /\ buf.ev = EventAt(buf.at)
                /\ buf.ev.type # "FDE"
                /\ conn.st = "dump" =>
                     /\ conn.head = "none"
                     /\ Cursor = <<buf.at[1], buf.at[2] + 1>>
           /\ buf.at = NoPos =>
                /\ buf.damage = "none" /\ buf.ev.type \in {"ROTATE", "FDE"}
                /\ buf.ev.type = "ROTATE" => Boundary(buf.to)
                /\ conn.st = "dump" /\ buf.ev.type = "ROTATE" =>
                     conn.head = "fde" /\ buf.to = Cursor
                /\ conn.st = "dump" /\ buf.ev.type = "FDE" =>
                     conn.head = "none"
<1> SessionTypeOK
  BY TypeParts DEF Quiet
<1>1. conn.head \in {"rotate", "fde", "none"}
  BY DEF SessionTypeOK, Connection
<1>2. buf.at # NoPos => buf.ev.type # "FDE"
  BY DEF Quiet, LogInv, NoStoredFormat, SessionInv, PacketInv,
         HoldsLogEvent, InLog, EventAt
<1> QED
  BY <1>1, <1>2 DEF Quiet, SessionInv, PacketInv, DumpInv, HoldsLogEvent

LEMMA FinishEnds ==
    ASSUME Finish
    PROVE  pc' \in {"app", "loop"} /\ conn' \in {conn, NoConnection}
BY DEF Finish, Throw

\* The packet is dealt with, and the position stays.
LEMMA StayingKeepsSession ==
    ASSUME Quiet,
           \/ HandleRefused \/ HandleFormatDescription \/ HandleLongQuery
           \/ HandleTableMap \/ HandleWideRows \/ HandleRows \/ CallbackFails
    PROVE  SessionInv'
<1>1. /\ pc = "handle" /\ pc' \in {"app", "loop"}
      /\ conn' \in {conn, NoConnection}
      /\ UNCHANGED <<start, positionVars>>
      /\ buf.damage = "header" \/ buf.ev.type # "ROTATE"
  BY FinishEnds
     DEF HandleRefused, HandleFormatDescription, HandleLongQuery,
         HandleTableMap, HandleWideRows, HandleRows, CallbackFails, Handling, Throw,
         sessionVars
<1>2. Resume' = Resume /\ binlog_name' = binlog_name
  BY <1>1 DEF Resume, positionVars
<1>3. Boundary(Resume)'
  BY <1>1, <1>2 DEF Quiet, SessionInv, PositionsInv, Boundary, OnLog,
                    binlogVars
<1>4. conn.st = "dump" => conn.head = "none"
  BY <1>1, PacketInHand
<1>5. conn.st = "dump" => conn.file = binlog_name \/ AtFileEnd
  BY <1>4 DEF Quiet, SessionInv, DumpInv
<1> QED
  BY <1>1, <1>2, <1>3, <1>4, <1>5, HandledKeepsSession

\* The position moves behind an event that belongs to no statement.
LEMMA MovingKeepsSession ==
    ASSUME Quiet, HandleQuery \/ HandleOther
    PROVE  SessionInv'
<1> LogTypeOK
  BY TypeParts DEF Quiet
<1>1. /\ pc = "handle" /\ pc' \in {"app", "loop"}
      /\ conn' \in {conn, NoConnection}
      /\ UNCHANGED start
      /\ binlog_name' = binlog_name /\ binlog_pos' = buf.log_pos
      /\ buf.ev.type \in {"QUERY", "XID", "STOP"}
  BY FinishEnds DEF HandleQuery, HandleOther, Handling, MoveTo
<1>2. /\ buf.at[1] = binlog_name /\ buf.log_pos = buf.at[2] + 1
      /\ InLog(buf.at[1], buf.at[2]) /\ buf.ev = EventAt(buf.at)
      /\ conn.st = "dump" =>
           conn.head = "none" /\ Cursor = <<buf.at[1], buf.at[2] + 1>>
  BY <1>1, PacketInHand
<1>3. Boundary(Resume)'
  <2>1. binlog_name \in 1..Len(files) /\ buf.at[2] \in 1..Len(files[binlog_name])
        /\ files[binlog_name][buf.at[2]].type \notin InStatement
    BY <1>1, <1>2 DEF InLog, EventAt, InStatement
  <2>2. Len(files[binlog_name]) \in Nat
    BY <2>1, LogNumbers DEF LogTypeOK
  <2> QED
    BY <1>1, <1>2, <2>1, <2>2 DEF Boundary, OnLog, Resume, Quiet, binlogVars
<1>4. conn.st = "dump" => conn.file = binlog_name
  BY <1>2 DEF Cursor
<1> QED
  BY <1>1, <1>2, <1>3, <1>4, HandledKeepsSession

\* The position moves to the beginning of the next file, or to where the
\* server says it goes on.
LEMMA RotatingKeepsSession ==
    ASSUME Quiet, HandleRotate
    PROVE  SessionInv'
<1> LogTypeOK /\ HistoryTypeOK
  BY TypeParts DEF Quiet
<1>1. /\ pc = "handle" /\ pc' \in {"app", "loop"}
      /\ conn' \in {conn, NoConnection}
      /\ UNCHANGED start
      /\ Resume' = buf.to /\ binlog_name' = buf.to[1]
      /\ buf.ev.type = "ROTATE"
  <2>1. buf.to = <<buf.to[1], buf.to[2]>>
    BY DEF HistoryTypeOK, Packet
  <2> QED
    BY <2>1, FinishEnds DEF HandleRotate, Handling, MoveTo, Resume
<1>2. CASE buf.at # NoPos
  <2>1. /\ buf.to = <<buf.at[1] + 1, 1>>
        /\ InLog(buf.at[1], buf.at[2]) /\ buf.ev = EventAt(buf.at)
        /\ conn.st = "dump" =>
             conn.head = "none" /\ Cursor = <<buf.at[1], buf.at[2] + 1>>
    BY <1>1, <1>2, PacketInHand
  <2>2. /\ buf.at[1] \in 1..Len(files) /\ buf.at[1] < Len(files)
        /\ buf.at[2] = Len(files[buf.at[1]]) /\ Len(files) \in Nat
        /\ \A f \in 1..Len(files) : Len(files[f]) \in Nat
    BY <1>1, <2>1, LogNumbers DEF Quiet, LogInv, RotateEndsFile, InLog,
                                  EventAt, LogTypeOK
  <2>3. Boundary(Resume)'
    <3>1. PICK f \in 1..Len(files) : Resume' = <<f, 1>>
      BY <1>1, <2>1, <2>2
    <3>2. 1 \in 1..(Len(files[f]) + 1)
      BY <2>2
    <3> QED
      BY <3>1, <3>2 DEF Boundary, OnLog, Quiet, binlogVars
  <2>4. conn.st = "dump" => conn.head = "none" /\ AtFileEnd
    BY <2>1, <2>2 DEF Cursor, AtFileEnd
  <2> QED
    BY <1>1, <2>3, <2>4, HandledKeepsSession
<1>3. CASE buf.at = NoPos
  <2>1. /\ Boundary(buf.to)
        /\ conn.st = "dump" => conn.head = "fde" /\ buf.to = Cursor
    BY <1>1, <1>3, PacketInHand
  <2>2. Boundary(Resume)'
    BY <1>1, <2>1 DEF Boundary, OnLog, Quiet, binlogVars
  <2> QED
    BY <1>1, <2>1, <2>2, HandledKeepsSession
<1> QED
  BY <1>2, <1>3

LEMMA SessionStep ==
    ASSUME CrashInv, [CrashNext]_vars
    PROVE  CrashInv'
<1> TypeOK /\ LogInv /\ SessionInv
  BY DEF CrashInv
<1>1. TypeOK' /\ LogInv' /\ Grows
  BY TypeStep
<1>2. SessionInv'
  <2>1. CASE Plainly
    <3>1. Quiet
      BY <2>1, PlainlyUnchanged DEF Quiet
    <3> QED
      BY <2>1, <3>1, StartKeepsSession, BreakKeepsSession,
         ConnectingKeepsSession, ReadingKeepsSession, StayingKeepsSession,
         MovingKeepsSession, RotatingKeepsSession DEF Plainly, Reading
  <2>2. CASE HandleTableMap \/ HandleRows \/ CallbackFails
    <3>1. Quiet
      BY <2>2 DEF Quiet, HandleTableMap, HandleRows, CallbackFails, Handling
    <3> QED
      BY <2>2, <3>1, StayingKeepsSession
  <2>3. CASE Master \/ MasterRestart
    <3>1. /\ UNCHANGED <<sessionVars, pc, buf, historyVars>>
          /\ conn' = conn
               \/ conn' = [conn EXCEPT !.st = IF @ = "none" THEN @
                                              ELSE "broken"]
      BY <2>3, MasterType
    <3> QED
      BY <1>1, <3>1, MasterKeepsSession
  <2>4. CASE UNCHANGED vars
    BY <1>1, <2>4, MasterKeepsSession DEF vars
  <2> QED
    BY <2>1, <2>2, <2>3, <2>4, StepCases
<1> QED
  BY <1>1, <1>2 DEF CrashInv

LEMMA SessionInit ==
    ASSUME Init
    PROVE  CrashInv
<1>1. TypeOK /\ LogInv
  BY TypeInit
<1>2. SessionInv
  BY DEF Init, ReplicationInit, SessionInv, PositionsInv, PacketInv, DumpInv,
         HoldsLogEvent, Resume, NoPos, NoConnection
<1> QED
  BY <1>1, <1>2 DEF CrashInv

LEMMA Positioned == CrashSpec => []CrashInv
<1>1. Init => CrashInv
  BY SessionInit
<1>2. CrashInv /\ [CrashNext]_vars => CrashInv'
  BY SessionStep
<1> QED
  BY <1>1, <1>2, PTL DEF CrashSpec

-----------------------------------------------------------------------------
(* What the positions promise *)

LEMMA PositionsAre ==
    \A p : p \in LogPositions <=>
             \E f, k : p = <<f, k>> /\ InLog(f, k)
BY DEF LogPositions, InLog

LEMMA BoundaryOfStatement ==
    ASSUME CrashInv
    PROVE  ResumeAtStatementBoundary
<1> TypeOK /\ LogInv /\ SessionInv
  BY DEF CrashInv
<1> LogTypeOK /\ SessionTypeOK
  BY TypeParts
<1> SUFFICES ASSUME NEW p \in LogPositions, p[1] = binlog_name,
                    ~Before(p, Resume), EventAt(p).type = "ROWS"
             PROVE  \E k \in binlog_pos..p[2] :
                      IsTableMapOf(<<binlog_name, k>>, p)
  BY DEF ResumeAtStatementBoundary
<1>1. PICK r : p = <<binlog_name, r>> /\ InLog(binlog_name, r)
  BY PositionsAre
<1>2. binlog_name \in 1..Len(files) /\ r \in 1..Len(files[binlog_name])
      /\ Len(files[binlog_name]) \in Nat /\ Len(files) \in Nat
  BY <1>1, LogNumbers DEF InLog, LogTypeOK
<1>3. PICK m \in 1..r : IsTableMapOf(<<binlog_name, m>>, p)
                          /\ OneStatement(binlog_name, m, r)
  BY <1>1, <1>2 DEF LogInv, RowsAreMapped, EventAt
<1>4. Boundary(Resume) /\ binlog_pos \in Nat
  BY <1>2 DEF SessionInv, PositionsInv, Resume, NoPos, SessionTypeOK
<1>5. m >= binlog_pos
  <2> SUFFICES ASSUME m < binlog_pos PROVE FALSE
    BY <1>2, <1>4
  <2>1. binlog_pos <= r
    BY <1>1, <1>2, <1>4 DEF Before, Resume
  <2>2. files[binlog_name][binlog_pos - 1].type \notin InStatement
    BY <1>2, <1>4 DEF Boundary, Resume
  <2>3. binlog_pos - 1 \in m..r
    BY <1>2, <1>4, <2>1
  <2> QED
    BY <1>3, <2>2, <2>3 DEF OneStatement
<1> QED
  BY <1>1, <1>2, <1>3, <1>4, <1>5

\* Wherever a connection breaks, and whether or not the server restarts, the
\* resumed dump begins in front of the TABLE_MAP event of every ROWS event
\* that it will send from the file of the resume point: moving _binlog_pos
\* with QUERY, ROTATE and the default case only is enough.
THEOREM ResumesAtBoundary == CrashSpec => []ResumeAtStatementBoundary
BY Positioned, BoundaryOfStatement, PTL

-----------------------------------------------------------------------------
(* Waiting *)

IdleInv == conn.st = "idle" => pc = "dump"

LEMMA IdleStep ==
    ASSUME "hook" \notin Faults, CrashInv, IdleInv, [CrashNext]_vars
    PROVE  IdleInv'
<1> TypeOK /\ LogInv /\ SessionInv
  BY DEF CrashInv
<1> SessionTypeOK /\ LogTypeOK
  BY TypeParts
<1> USE DEF IdleInv
<1>1. CASE SetBinlogPosition \/ Prepare \/ AppLoop \/ LoopHead
  BY <1>1 DEF SetBinlogPosition, Prepare, AppLoop, LoopHead, NoConnection,
              ServerDumpsFrom
<1>2. CASE Connect \/ ConnectFails \/ HookFails
  BY <1>2 DEF Connect, ConnectFails, HookFails
<1>3. CASE RequestBinlogDump
  BY <1>3 DEF RequestBinlogDump, ServerDumpsFrom, SessionTypeOK, Connection
<1>4. CASE RequestBinlogDumpFails
  <2>1. Boundary(Resume)
    BY <1>4 DEF RequestBinlogDumpFails, SessionInv, PositionsInv
  <2>2. Resume[1] # 0 /\ Resume[2] # 0
    BY <2>1 DEF Boundary, OnLog
  <2> QED
    BY <1>4, <2>2 DEF RequestBinlogDumpFails
<1>5. CASE Drop \/ StopEventLoop
  BY <1>5 DEF Drop, StopEventLoop, SessionTypeOK, Connection
<1>6. CASE Reading
  BY <1>6 DEF Reading, ReadFails, ReadStopped, ReadFileName,
              ReadFormatDescription, ReadEvent, Receive, SessionTypeOK,
              Connection
<1>7. CASE \/ HandleRefused \/ HandleWideRows \/ CallbackFails
  BY <1>7 DEF HandleRefused, HandleWideRows, CallbackFails, Handling
<1>8. CASE \/ HandleRotate \/ HandleFormatDescription \/ HandleQuery
           \/ HandleLongQuery \/ HandleTableMap \/ HandleRows \/ HandleOther
  <2>1. pc = "handle" /\ conn' \in {conn, NoConnection}
    BY <1>8, FinishEnds DEF HandleRotate, HandleFormatDescription,
            HandleQuery, HandleLongQuery, HandleTableMap, HandleRows,
            HandleOther, Handling
  <2> QED
    BY <2>1 DEF NoConnection
<1>9. CASE Master \/ MasterRestart
  BY <1>9, MasterType DEF SessionTypeOK, Connection
<1>10. CASE UNCHANGED vars
  BY <1>10 DEF vars
<1> QED
  BY <1>1, <1>2, <1>3, <1>4, <1>5, <1>6, <1>7, <1>8, <1>9, <1>10, StepCases
     DEF Plainly

\* Provided that post_reconnect() does not throw, the thread never waits for
\* events on a connection on which it has requested none: the position that
\* request_binlog_dump() looks at is never empty, although the events of the
\* dump thread's own making have log_pos 0.
THEOREM WaitsWithDump ==
    ASSUME "hook" \notin Faults
    PROVE  CrashSpec => []NeverWaitsWithoutDump
<1>1. Init => IdleInv
  BY DEF Init, ReplicationInit, IdleInv, NoConnection
<1>2. CrashInv /\ IdleInv /\ [CrashNext]_vars => IdleInv'
  BY IdleStep
<1>3. IdleInv => NeverWaitsWithoutDump
  BY DEF IdleInv, NeverWaitsWithoutDump
<1> QED
  BY <1>1, <1>2, <1>3, Positioned, PTL DEF CrashSpec

-----------------------------------------------------------------------------
(* Reading again *)

\* The log grows behind what the server has sent.
LEMMA MasterKeepsReplay ==
    ASSUME CrashInv, ReplayInv, Grows,
           UNCHANGED <<sessionVars, pc, buf, historyVars>>,
           conn' = conn
             \/ conn' = [conn EXCEPT !.st = IF @ = "none" THEN @ ELSE "broken"]
    PROVE  ReplayInv'
<1> TypeOK /\ LogInv /\ SessionInv
  BY DEF CrashInv
<1> LogTypeOK /\ SessionTypeOK /\ HistoryTypeOK
  BY TypeParts
<1>0. PICK r, c, h : r = Resume /\ c = Cursor /\ h = Handled
  OBVIOUS
<1>1. /\ conn'.file = conn.file /\ conn'.off = conn.off
      /\ conn'.head = conn.head
  BY DEF SessionTypeOK, Connection
<1>2. /\ Resume' = r /\ Cursor' = c /\ Handled' = h
      /\ buf' = buf /\ pc' = pc /\ reported' = reported
  BY <1>0, <1>1 DEF sessionVars, positionVars, historyVars, Resume, Cursor,
                    Handled
<1>3. OnLog(c) => OnLog(c)'
  BY PositionsStay
<1>4. conn.file # 0 /\ AtFileEnd => AtFileEnd'
  <2> SUFFICES ASSUME conn.file # 0, AtFileEnd PROVE AtFileEnd'
    OBVIOUS
  <2>1. conn.file \in 1..Len(files) /\ conn.file < Len(files)
    BY DEF ReplayInv, OnLog, Cursor, AtFileEnd
  <2>2. files'[conn.file] = files[conn.file] /\ conn.file < Len(files')
    BY <2>1, EarlierFileStays
  <2> QED
    BY <1>1, <2>2 DEF AtFileEnd
<1>5. Settled(Handled)'
  <2> SUFFICES ASSUME NEW p \in LogPositions', ~Before(p, r), Before(p, h),
                      p \notin reported
               PROVE  EventAt(p)'.type \in Unmoving
    BY <1>2 DEF Settled, Before
  <2>1. PICK f, k : p = <<f, k>> /\ InLog(f, k)'
    BY DEF InLog, LogPositions
  <2>2. OnLog(h) \/ h[1] = 0
    <3>1. CASE HoldsLogEvent
      <4>1. h = buf.at /\ InLog(buf.at[1], buf.at[2])
        BY <1>0, <3>1 DEF Handled, HoldsLogEvent, SessionInv, PacketInv
      <4>2. Len(files[buf.at[1]]) \in Nat
        BY <4>1, LogNumbers DEF InLog, LogTypeOK
      <4> QED
        BY <4>1, <4>2 DEF InLog, OnLog
    <3>2. CASE ~HoldsLogEvent
      BY <1>0, <3>2 DEF Handled, HoldsLogEvent, ReplayInv, Cursor
    <3> QED
      BY <3>1, <3>2
  <2>3. OnLog(h) /\ f \in 1..Len(files') /\ k \in 1..Len(files'[f])
    BY <2>1, <2>2 DEF Before, InLog
  <2>4. InLog(f, k) /\ files'[f][k] = files[f][k]
    <3>1. PICK F \in 1..Len(files) : F = h[1]
      BY <2>3 DEF OnLog
    <3>2. PICK K \in 1..(Len(files[F]) + 1) : K = h[2]
      BY <2>3, <3>1 DEF OnLog
    <3>3. f < F \/ (f = F /\ k < K)
      BY <2>1, <3>1, <3>2 DEF Before
    <3> QED
      BY <2>3, <3>3, EarlierPlacesStay DEF InLog
  <2>5. p \in LogPositions
    BY <2>1, <2>4, PositionsAre
  <2> QED
    BY <1>0, <2>1, <2>4, <2>5 DEF ReplayInv, Settled, EventAt
<1> QED
  BY <1>0, <1>1, <1>2, <1>3, <1>4, <1>5
     DEF ReplayInv, OnLog, Before, HoldsLogEvent

\* What the next lemmas need of a step that leaves the log alone.
Steady == Quiet /\ ReplayInv

\* The server starts from the resume point, or there is no server.
LEMMA FreshKeepsReplay ==
    ASSUME Steady, pc' # "handle",
           conn'.file = 0 \/ (Cursor' = Resume' /\ OnLog(Resume)')
    PROVE  ReplayInv'
<1>1. PICK r, c : r = Resume' /\ c = Cursor'
  OBVIOUS
<1>2. Handled' = c
  BY <1>1 DEF Handled
<1>3. \A p \in LogPositions' : ~Before(p, r) => ~Before(p, c)
  <2> SUFFICES ASSUME NEW p \in LogPositions', ~Before(p, r), Before(p, c)
               PROVE  FALSE
    OBVIOUS
  <2>1. c[1] = 0
    BY <1>1 DEF Cursor
  <2>2. p[1] \in 1..Len(files')
    BY DEF LogPositions
  <2> QED
    BY <2>1, <2>2 DEF Before
<1>4. Settled(Handled)'
  BY <1>1, <1>2, <1>3 DEF Settled, Before
<1>5. conn'.file # 0 => ~Before(c, r)
  BY <1>1 DEF Before, OnLog
<1>6. conn'.file # 0 => ~Before(Cursor, Resume)' /\ OnLog(Cursor)'
  BY <1>1, <1>5 DEF Before, OnLog
<1> QED
  BY <1>4, <1>6 DEF ReplayInv, HoldsLogEvent

\* Nothing was read and nothing was settled.
LEMMA IdleKeepsReplay ==
    ASSUME Steady, UNCHANGED positionVars,
           conn'.file = conn.file, conn'.off = conn.off,
           conn'.head = conn.head,
           reported \subseteq reported',
           \/ pc # "handle" /\ pc' # "handle"
           \/ pc' = pc /\ buf' = buf
    PROVE  ReplayInv'
<1> USE DEF Steady, Quiet, binlogVars
<1>1. /\ Resume' = Resume /\ Cursor' = Cursor /\ Handled' = Handled
      /\ AtFileEnd' = AtFileEnd
  BY DEF positionVars, Resume, Cursor, Handled, AtFileEnd
<1>2. Settled(Handled)'
  BY <1>1 DEF ReplayInv, Settled, Before, LogPositions, EventAt
<1> QED
  BY <1>1, <1>2 DEF ReplayInv, HoldsLogEvent, OnLog, Before

LEMMA StartKeepsReplay ==
    ASSUME Steady, SessionInv', SetBinlogPosition \/ Prepare
    PROVE  ReplayInv'
<1>1. CASE SetBinlogPosition
  BY <1>1, FreshKeepsReplay
     DEF SetBinlogPosition, Steady, Quiet, SessionInv, PositionsInv,
         NoConnection
<1>2. CASE Prepare
  <2>1. conn'.head = "rotate" /\ conn'.st = "dump" /\ pc' = "app"
    BY <1>2 DEF Prepare, ServerDumpsFrom
  <2>2. Cursor' = Resume' /\ OnLog(Cursor)'
    BY <2>1 DEF SessionInv, DumpInv
  <2> QED
    BY <2>1, <2>2, FreshKeepsReplay DEF OnLog
<1> QED
  BY <1>1, <1>2

LEMMA ConnectingKeepsReplay ==
    ASSUME Steady, SessionInv',
           \/ AppLoop \/ LoopHead \/ Connect \/ ConnectFails \/ HookFails
           \/ RequestBinlogDump \/ RequestBinlogDumpFails \/ ReadFails
           \/ ReadStopped \/ Drop \/ StopEventLoop
    PROVE  ReplayInv'
<1> SessionTypeOK
  BY TypeParts DEF Steady, Quiet
<1>1. CASE Connect \/ (LoopHead /\ conn' = NoConnection)
  BY <1>1, FreshKeepsReplay DEF Connect, LoopHead, NoConnection
<1>2. CASE RequestBinlogDump /\ ~Checksum
  <2>1. conn'.head = "rotate" /\ conn'.st = "dump" /\ pc' = "loop"
    BY <1>2 DEF RequestBinlogDump, ServerDumpsFrom
  <2>2. Cursor' = Resume' /\ OnLog(Cursor)'
    BY <2>1 DEF SessionInv, DumpInv
  <2> QED
    BY <2>1, <2>2, FreshKeepsReplay DEF OnLog
<1>3. CASE RequestBinlogDump /\ Checksum
  <2>1. /\ conn'.file = conn.file /\ conn'.off = conn.off
        /\ conn'.head = conn.head
    BY <1>3 DEF RequestBinlogDump, SessionTypeOK, Connection
  <2> QED
    BY <1>3, <2>1, IdleKeepsReplay
       DEF RequestBinlogDump, sessionVars, historyVars
<1>4. CASE \/ AppLoop \/ (LoopHead /\ conn' = conn) \/ ConnectFails
           \/ HookFails \/ RequestBinlogDumpFails \/ ReadFails \/ ReadStopped
  <2>1. /\ pc # "handle" /\ pc' # "handle" /\ conn' = conn
        /\ UNCHANGED positionVars /\ reported \subseteq reported'
    BY <1>4 DEF AppLoop, LoopHead, ConnectFails, HookFails,
                RequestBinlogDumpFails, ReadFails, ReadStopped, Throw,
                sessionVars, historyVars
  <2> QED
    BY <2>1, IdleKeepsReplay
<1>5. CASE Drop \/ StopEventLoop
  <2>1. /\ conn'.file = conn.file /\ conn'.off = conn.off
        /\ conn'.head = conn.head
    BY <1>5 DEF Drop, StopEventLoop, SessionTypeOK, Connection
  <2>2. UNCHANGED <<positionVars, pc, buf, reported>>
    BY <1>5 DEF Drop, StopEventLoop, sessionVars, historyVars
  <2> QED
    BY <2>1, <2>2, IdleKeepsReplay
<1>6. LoopHead => conn' = NoConnection \/ conn' = conn
  BY DEF LoopHead
<1> QED
  BY <1>1, <1>2, <1>3, <1>4, <1>5, <1>6

LEMMA ReadingKeepsReplay ==
    ASSUME Steady, SessionInv',
           ReadFileName \/ ReadFormatDescription \/ ReadEvent
    PROVE  ReplayInv'
<1> LogTypeOK /\ SessionTypeOK
  BY TypeParts DEF Steady, Quiet
<1> USE DEF Steady, Quiet, binlogVars
<1>0. Len(files) \in Nat /\ \A f \in 1..Len(files) : Len(files[f]) \in Nat
  BY LogNumbers DEF LogTypeOK
<1>1. /\ pc = "read" /\ pc' = "handle" /\ conn.st = "dump"
      /\ conn'.st = "dump"
      /\ UNCHANGED <<positionVars, reported>>
  BY DEF ReadFileName, ReadFormatDescription, ReadEvent, Receive,
         sessionVars, historyVars, SessionTypeOK, Connection
<1>2. Resume' = Resume
  BY <1>1 DEF Resume, positionVars
<1>3. OnLog(Cursor) /\ OnLog(Cursor)' /\ Handled = Cursor
  BY <1>1 DEF SessionInv, DumpInv, Handled
<1>4. conn.file \in Nat /\ conn.off \in Nat /\ conn.file # 0
      /\ conn.off <= Len(files[conn.file]) + 1 /\ conn.file \in 1..Len(files)
  BY <1>0, <1>3 DEF OnLog, Cursor
<1>5. binlog_name \in Nat /\ binlog_pos \in Nat
  BY DEF SessionTypeOK
<1>6. CASE ReadFileName /\ AtFileEnd
  <2>1. buf'.to = <<conn.file + 1, 1>> /\ buf'.at = NoPos
        /\ conn'.file = conn.file + 1 /\ conn'.off = 1
        /\ conn'.head = "fde"
    BY <1>6 DEF ReadFileName, NoPacket
  <2>2. Cursor' = <<conn.file + 1, 1>> /\ Handled' = Cursor'
    BY <2>1 DEF Cursor, Handled
  <2>3. ~Before(Cursor', Resume)
    BY <1>4, <1>5, <2>2 DEF ReplayInv, Before, Cursor, Resume
  <2>4. \A p \in LogPositions :
          Before(p, <<conn.file + 1, 1>>) => Before(p, Cursor)
    <3> SUFFICES ASSUME NEW p \in LogPositions,
                        Before(p, <<conn.file + 1, 1>>)
                 PROVE  Before(p, Cursor)
      OBVIOUS
    <3>1. PICK f, k : p = <<f, k>> /\ f \in 1..Len(files)
                                   /\ k \in 1..Len(files[f])
      BY PositionsAre DEF InLog
    <3>2. f <= conn.file
      BY <1>4, <3>1 DEF Before
    <3>3. conn.off > Len(files[conn.file])
      BY <1>6 DEF AtFileEnd
    <3> QED
      BY <1>0, <1>4, <3>1, <3>2, <3>3 DEF Before, Cursor
  <2>5. Settled(Handled)'
    BY <1>1, <1>2, <1>3, <2>2, <2>4
       DEF ReplayInv, Settled, Before, LogPositions, EventAt
  <2>6. ~Before(Cursor, Resume)'
    BY <1>2, <2>3 DEF Before
  <2> QED
    BY <1>3, <2>1, <2>2, <2>5, <2>6 DEF ReplayInv, HoldsLogEvent
<1>7. CASE (ReadFileName /\ ~AtFileEnd) \/ ReadFormatDescription
  <2>1. /\ buf'.at = NoPos
        /\ conn'.file = conn.file /\ conn'.off = conn.off
        /\ conn.head # "none"
        /\ buf'.ev.type = "ROTATE" => conn'.head = "fde" /\ buf'.to = Cursor
    <3>1. CASE ReadFileName /\ ~AtFileEnd
      <4>1. /\ conn' = [st |-> "dump", file |-> conn.file, off |-> conn.off,
                        head |-> "fde"]
            /\ buf' = [NoPacket EXCEPT !.ev = Plain("ROTATE"), !.to = Cursor]
            /\ conn.head = "rotate"
        BY <3>1 DEF ReadFileName, Cursor
      <4> QED
        BY <4>1 DEF NoPacket
    <3>2. CASE ReadFormatDescription
      BY <3>2 DEF ReadFormatDescription, NoPacket, Plain, SessionTypeOK,
                  Connection
    <3> QED
      BY <1>7, <3>1, <3>2
  <2>2. Cursor' = Cursor /\ Handled' = Cursor
    BY <2>1 DEF Cursor, Handled
  <2>3. ~Before(Cursor, Resume)
    BY <1>4, <2>1 DEF ReplayInv, AtFileEnd
  <2>4. ~Before(Cursor, Resume)'
    BY <1>2, <2>2, <2>3 DEF Before
  <2>5. Settled(Handled)'
    BY <1>1, <1>2, <1>3, <2>2
       DEF ReplayInv, Settled, Before, LogPositions, EventAt
  <2> QED
    BY <1>3, <2>1, <2>2, <2>4, <2>5 DEF ReplayInv, HoldsLogEvent
<1>8. CASE ReadEvent
  <2>1. /\ buf'.at = Cursor /\ InLog(conn.file, conn.off)
        /\ conn'.file = conn.file /\ conn'.off = conn.off + 1
        /\ conn'.head = "none"
    BY <1>8 DEF ReadEvent, SessionTypeOK, Connection
  <2>2. Cursor # NoPos /\ ~AtFileEnd
    BY <1>0, <1>4, <2>1 DEF Cursor, NoPos, InLog, AtFileEnd
  <2>3. ~Before(Cursor, Resume)
    BY <1>4, <2>2 DEF ReplayInv
  <2>4. Cursor' = <<buf'.at[1], buf'.at[2] + 1>> /\ Handled' = Cursor
    BY <1>1, <2>1, <2>2 DEF Cursor, Handled
  <2>5. ~Before(Cursor, Resume)'
    BY <1>2, <1>4, <1>5, <2>1, <2>3 DEF Before, Cursor, Resume
  <2>6. ~Before(buf.at, Resume)'
    BY <1>2, <2>1, <2>3 DEF Before
  <2>7. Settled(Handled)'
    BY <1>1, <1>2, <1>3, <2>4
       DEF ReplayInv, Settled, Before, LogPositions, EventAt
  <2> QED
    BY <1>1, <1>3, <2>1, <2>2, <2>4, <2>5, <2>6, <2>7
       DEF ReplayInv, HoldsLogEvent
<1> QED
  BY <1>6, <1>7, <1>8

\* The packet is dealt with, and the position stays.
LEMMA StayingKeepsReplay ==
    ASSUME Steady, SessionInv',
           \/ HandleRefused \/ HandleFormatDescription \/ HandleLongQuery
           \/ HandleTableMap \/ HandleWideRows \/ HandleRows \/ CallbackFails
    PROVE  ReplayInv'
<1> LogTypeOK /\ SessionTypeOK /\ HistoryTypeOK
  BY TypeParts DEF Steady, Quiet
<1> USE DEF Steady, Quiet, binlogVars
<1>1. /\ pc = "handle" /\ pc' \in {"app", "loop"}
      /\ conn' \in {conn, NoConnection}
      /\ UNCHANGED positionVars
  BY FinishEnds
     DEF HandleRefused, HandleFormatDescription, HandleLongQuery,
         HandleTableMap, HandleWideRows, HandleRows, CallbackFails, Handling, Throw,
         sessionVars
<1>2. reported \subseteq reported'
  BY DEF HandleRefused, HandleFormatDescription, HandleLongQuery,
         HandleTableMap, HandleWideRows, HandleRows, CallbackFails, Throw,
         Finish
<1>3. buf.at # NoPos => buf.at \in reported' \/ buf.ev.type \in Unmoving
  <2>1. HandleRefused /\ buf.at # NoPos => buf.at \in reported'
    BY DEF HandleRefused, Throw
  <2>2. HandleFormatDescription => buf.at = NoPos
    BY <1>1, PacketInHand DEF HandleFormatDescription, Handling
  <2> QED
    BY <2>1, <2>2 DEF HandleLongQuery, HandleTableMap, HandleWideRows,
                      HandleRows, CallbackFails, Handling, InStatement,
                      Unmoving
<1>4. CASE conn' = NoConnection
  BY <1>1, <1>4, FreshKeepsReplay DEF NoConnection
<1>5. CASE conn' = conn
  <2>1. /\ Resume' = Resume /\ Cursor' = Cursor /\ Handled' = Cursor
        /\ AtFileEnd' = AtFileEnd
    BY <1>1, <1>5 DEF positionVars, Resume, Cursor, Handled, AtFileEnd
  <2>2. Settled(Cursor)'
    <3> SUFFICES ASSUME NEW p \in LogPositions, ~Before(p, Resume),
                        Before(p, Cursor), p \notin reported'
                 PROVE  EventAt(p).type \in Unmoving
      BY <2>1 DEF Settled, Before, LogPositions, EventAt
    <3>1. CASE Before(p, Handled)
      BY <1>2, <3>1 DEF ReplayInv, Settled
    <3>2. CASE ~Before(p, Handled)
      <4>1. buf.at # NoPos
        BY <1>1, <3>2 DEF Handled
      <4>2. /\ Handled = buf.at /\ buf.ev = EventAt(buf.at)
            /\ Cursor = <<buf.at[1], buf.at[2] + 1>>
        BY <1>1, <4>1, PacketInHand DEF Handled, ReplayInv, HoldsLogEvent
      <4>3. PICK f, k : p = <<f, k>> /\ f \in 1..Len(files)
                                     /\ k \in 1..Len(files[f])
        BY PositionsAre DEF InLog
      <4>4. buf.at = <<buf.at[1], buf.at[2]>> /\ buf.at[1] \in Nat
            /\ buf.at[2] \in Nat
        BY DEF HistoryTypeOK, Packet
      <4>5. p = buf.at
        BY <3>2, <4>2, <4>3, <4>4 DEF Before
      <4> QED
        BY <1>3, <4>1, <4>2, <4>5
    <3> QED
      BY <3>1, <3>2
  <2>3. conn.file # 0 => OnLog(Cursor)'
    BY <2>1 DEF ReplayInv, OnLog
  <2>4. Settled(Handled)'
    BY <2>1, <2>2 DEF Settled, Before
  <2> QED
    BY <1>1, <1>5, <2>1, <2>3, <2>4 DEF ReplayInv, HoldsLogEvent, Before
<1> QED
  BY <1>1, <1>4, <1>5

\* The position moves to where the server is, or over the end of a file.
LEMMA MovingKeepsReplay ==
    ASSUME Steady, SessionInv', HandleQuery \/ HandleOther \/ HandleRotate
    PROVE  ReplayInv'
<1> LogTypeOK /\ SessionTypeOK /\ HistoryTypeOK
  BY TypeParts DEF Steady, Quiet
<1> USE DEF Steady, Quiet, binlogVars
<1>1. /\ pc = "handle" /\ pc' \in {"app", "loop"}
      /\ conn' \in {conn, NoConnection}
  BY FinishEnds DEF HandleQuery, HandleOther, HandleRotate, Handling
<1>2. OnLog(Resume)'
  BY <1>1 DEF SessionInv, PositionsInv, Boundary
<1>3. CASE conn' = NoConnection
  BY <1>1, <1>3, FreshKeepsReplay DEF NoConnection
<1>4. CASE conn' = conn /\ (HandleQuery \/ HandleOther)
  <2>1. /\ binlog_name' = binlog_name /\ binlog_pos' = buf.log_pos
        /\ buf.ev.type \notin {"ROTATE", "FDE"}
    BY <1>4 DEF HandleQuery, HandleOther, Handling, MoveTo
  <2>2. /\ buf.at # NoPos
        /\ buf.at[1] = binlog_name /\ buf.log_pos = buf.at[2] + 1
    BY <1>1, <2>1, PacketInHand
  <2>3. Cursor = <<buf.at[1], buf.at[2] + 1>>
    BY <1>1, <2>2 DEF ReplayInv, HoldsLogEvent
  <2>4. Cursor' = Resume'
    BY <1>4, <2>1, <2>2, <2>3 DEF Cursor, Resume
  <2> QED
    BY <1>1, <1>2, <2>4, FreshKeepsReplay
<1>5. CASE conn' = conn /\ HandleRotate
  <2>1. Resume' = buf.to /\ buf.ev.type = "ROTATE"
    BY <1>5 DEF HandleRotate, Handling, MoveTo, Resume, HistoryTypeOK, Packet
  <2>2. CASE buf.at = NoPos
    <3>1. Cursor' = Resume'
      BY <1>1, <1>5, <2>1, <2>2 DEF ReplayInv, Cursor
    <3> QED
      BY <1>1, <1>2, <3>1, FreshKeepsReplay
  <2>3. CASE buf.at # NoPos
    <3>1. /\ buf.to = <<buf.at[1] + 1, 1>>
          /\ InLog(buf.at[1], buf.at[2]) /\ buf.ev = EventAt(buf.at)
      BY <1>1, <2>3, PacketInHand
    <3>2. conn.head = "none" /\ Cursor = <<buf.at[1], buf.at[2] + 1>>
      BY <1>1, <2>3 DEF ReplayInv, HoldsLogEvent
    <3>3. /\ buf.at[1] \in 1..Len(files) /\ buf.at[1] < Len(files)
          /\ buf.at[2] = Len(files[buf.at[1]]) /\ Len(files) \in Nat
          /\ \A f \in 1..Len(files) : Len(files[f]) \in Nat
      BY <2>1, <3>1, LogNumbers DEF LogInv, RotateEndsFile, InLog, EventAt,
                                    LogTypeOK
    <3>4. /\ Cursor' = Cursor /\ Handled' = Cursor
          /\ conn.file = buf.at[1] /\ conn.off = buf.at[2] + 1
      BY <1>1, <1>5, <3>2 DEF Cursor, Handled
    <3>5. AtFileEnd' /\ Resume' = <<conn'.file + 1, 1>>
      BY <1>5, <2>1, <3>1, <3>2, <3>3, <3>4 DEF AtFileEnd
    <3>6. OnLog(Cursor)'
      BY <3>3, <3>4 DEF OnLog, Cursor
    <3>7. \A p : Before(p, Cursor) => Before(p, <<buf.at[1] + 1, 1>>)
               \/ p[1] \notin Nat
      BY <3>2, <3>3 DEF Before
    <3>8. Settled(Handled)'
      <4> SUFFICES ASSUME NEW p \in LogPositions,
                          ~Before(p, <<buf.at[1] + 1, 1>>), Before(p, Cursor)
                   PROVE  FALSE
        BY <2>1, <3>1, <3>4 DEF Settled, Before, LogPositions, EventAt
      <4>1. p[1] \in Nat
        BY DEF LogPositions
      <4> QED
        BY <3>7, <4>1
    <3> QED
      BY <1>1, <3>5, <3>6, <3>8 DEF ReplayInv, HoldsLogEvent
  <2> QED
    BY <2>2, <2>3
<1> QED
  BY <1>1, <1>3, <1>4, <1>5

LEMMA ReplayStep ==
    ASSUME CrashInv, ReplayInv, [CrashNext]_vars
    PROVE  ReplayInv'
<1> TypeOK /\ LogInv /\ SessionInv
  BY DEF CrashInv
<1>1. TypeOK' /\ LogInv' /\ SessionInv' /\ Grows
  BY SessionStep, TypeStep DEF CrashInv
<1>2. CASE Plainly
  <2>1. Steady
    BY <1>2, PlainlyUnchanged DEF Steady, Quiet
  <2> QED
    BY <1>1, <1>2, <2>1, StartKeepsReplay, ConnectingKeepsReplay,
       ReadingKeepsReplay, StayingKeepsReplay, MovingKeepsReplay
       DEF Plainly, Reading
<1>3. CASE HandleTableMap \/ HandleRows \/ CallbackFails
  <2>1. Steady
    BY <1>3 DEF Steady, Quiet, HandleTableMap, HandleRows, CallbackFails,
                Handling
  <2> QED
    BY <1>1, <1>3, <2>1, StayingKeepsReplay
<1>4. CASE Master \/ MasterRestart
  <2>1. /\ UNCHANGED <<sessionVars, pc, buf, historyVars>>
        /\ conn' = conn
             \/ conn' = [conn EXCEPT !.st = IF @ = "none" THEN @
                                            ELSE "broken"]
    BY <1>4, MasterType
  <2> QED
    BY <1>1, <2>1, MasterKeepsReplay
<1>5. CASE UNCHANGED vars
  BY <1>1, <1>5, MasterKeepsReplay DEF vars
<1> QED
  BY <1>2, <1>3, <1>4, <1>5, StepCases

LEMMA ReplayInit ==
    ASSUME Init
    PROVE  ReplayInv
<1>1. conn.file = 0 /\ pc = "init" /\ Handled = <<0, 0>>
  BY DEF Init, ReplicationInit, NoConnection, Handled, Cursor
<1>2. Settled(Handled)
  <2>1. \A p \in LogPositions : p[1] \in 1..Len(files)
    BY DEF LogPositions
  <2> QED
    BY <1>1, <2>1 DEF Settled, Before
<1> QED
  BY <1>1, <1>2 DEF ReplayInv, HoldsLogEvent

LEMMA Replayed == CrashSpec => [](CrashInv /\ ReplayInv)
<1>1. Init => CrashInv /\ ReplayInv
  BY SessionInit, ReplayInit
<1>2. CrashInv /\ ReplayInv /\ [CrashNext]_vars => (CrashInv /\ ReplayInv)'
  BY SessionStep, ReplayStep
<1> QED
  BY <1>1, <1>2, PTL DEF CrashSpec

\* A reconnect reads no transaction again that has ended: but for the events of
\* the statements in hand, the QUERY events that tune() refuses and those an
\* exception told of, everything in front of the event being handled lies in
\* front of the resume point, and is never handled again.
THEOREM ReplaysTransactionOnly == CrashSpec => []ReplayWithinTransaction
<1>1. CrashInv /\ ReplayInv => ReplayWithinTransaction
  BY DEF ReplayInv, ReplayWithinTransaction, Settled, HoldsLogEvent,
         InStatement, Unmoving
<1> QED
  BY <1>1, Replayed, PTL

LEMMA ForwardStep ==
    ASSUME CrashInv, ReplayInv, [CrashNext]_vars, pc # "init"
    PROVE  ~Before(Resume', Resume)
<1> TypeOK /\ LogInv /\ SessionInv
  BY DEF CrashInv
<1> SessionTypeOK /\ HistoryTypeOK
  BY TypeParts
<1>1. CASE UNCHANGED positionVars
  BY <1>1 DEF Before, Resume, positionVars, SessionTypeOK
<1>2. CASE HandleQuery \/ HandleOther \/ HandleRotate
  <2>1. /\ pc = "handle"
        /\ UNCHANGED binlogVars
        /\ HandleRotate => buf.ev.type = "ROTATE" /\ Resume' = buf.to
        /\ ~HandleRotate => Resume' = <<binlog_name, buf.log_pos>>
                              /\ buf.ev.type \notin {"ROTATE", "FDE"}
    BY <1>2 DEF HandleQuery, HandleOther, HandleRotate, Handling, MoveTo,
                Resume, HistoryTypeOK, Packet
  <2>2. Quiet
    BY <2>1 DEF Quiet
  <2>3. CASE buf.at # NoPos
    <3>1. /\ buf.at[1] = binlog_name /\ buf.log_pos = buf.at[2] + 1
          /\ buf.to = <<buf.at[1] + 1, 1>>
      BY <2>1, <2>2, <2>3, PacketInHand
    <3>2. ~Before(buf.at, Resume) /\ buf.at[2] \in Nat
      BY <2>1, <2>3 DEF ReplayInv, HoldsLogEvent, HistoryTypeOK, Packet
    <3> QED
      BY <2>1, <3>1, <3>2 DEF Before, Resume, SessionTypeOK
  <2>4. CASE buf.at = NoPos
    <3>1. buf.ev.type = "ROTATE" /\ HandleRotate
      BY <2>1, <2>2, <2>4, PacketInHand
    <3>2. Resume' = Cursor /\ conn.head = "fde"
      BY <2>1, <2>4, <3>1 DEF ReplayInv
    <3>3. OnLog(Cursor)
      <4>1. Boundary(buf.to) /\ buf.to = Cursor
        BY <2>1, <2>2, <2>4, <3>1, <3>2, PacketInHand
      <4> QED
        BY <4>1 DEF Boundary
    <3>4. conn.file # 0 /\ conn.file \in Nat
      BY <3>3 DEF OnLog, Cursor, SessionTypeOK, Connection
    <3> QED
      BY <3>2, <3>4 DEF ReplayInv, AtFileEnd
  <2> QED
    BY <2>3, <2>4
<1>3. UNCHANGED positionVars \/ HandleQuery \/ HandleOther \/ HandleRotate
  <2>1. CASE Plainly
    BY <2>1
       DEF Plainly, SetBinlogPosition, Prepare, AppLoop, LoopHead, Connect,
           ConnectFails, HookFails, RequestBinlogDump,
           RequestBinlogDumpFails, Drop, Reading, ReadFails, ReadStopped,
           ReadFileName, ReadFormatDescription, ReadEvent, Receive,
           HandleRefused, HandleFormatDescription, HandleLongQuery,
           HandleWideRows, StopEventLoop, sessionVars
  <2>2. CASE HandleTableMap \/ HandleRows \/ CallbackFails
    BY <2>2 DEF HandleTableMap, HandleRows, CallbackFails
  <2>3. CASE Master \/ MasterRestart
    BY <2>3, MasterType DEF sessionVars
  <2>4. CASE UNCHANGED vars
    BY <2>4 DEF vars, sessionVars
  <2> QED
    BY <2>1, <2>2, <2>3, <2>4, StepCases
<1> QED
  BY <1>1, <1>2, <1>3

\* The resume point only moves forward, though its name and position are set
\* by different events and a connection may break in between.
THEOREM ResumesForward == CrashSpec => ResumeNeverMovesBack
<1>1. CrashInv /\ ReplayInv /\ [CrashNext]_vars
        => [pc # "init" => ~Before(Resume', Resume)]_vars
  BY ForwardStep
<1> QED
  BY <1>1, Replayed, PTL DEF CrashSpec, ResumeNeverMovesBack

=============================================================================
