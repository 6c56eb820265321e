---------------------------- MODULE PrepareProofs ----------------------------
(***************************************************************************)
(* What prepare() has learnt fits the rows that come, for any tables and   *)
(* definitions, and however the master and the failures fall between its   *)
(* queries.                                                                *)
(***************************************************************************)
EXTENDS Prepare, TLAPS

Entries == [table : Watched, columns : Definitions, crc : BOOLEAN]

Rows == [at : Nat, table : Watched, columns : Definitions, crc : BOOLEAN,
         reported : BOOLEAN]

\* The log holds rows of tables that were there, and the row in hand is one of
\* them, behind prepare().
LogInv ==
    /\ log \in Seq(Entries)
    /\ row = NoRow \/ row \in Rows
    /\ row # NoRow => pc = "events" /\ row.at >= start

\* The names that were read last lead to their own places.
PlacesInv ==
    \A t \in Watched : \A n \in Range(read[t]) :
        /\ names[t][n] \in Nat
        /\ names[t][n] + 1 \in DOMAIN read[t]
        /\ read[t][names[t][n] + 1] = n

\* Until the first event the position is the one that was known first.
PositionInv ==
    /\ pc \in Preparing => binlog_pos = start
    /\ pc \in {"dump", "events"} => start # 0

\* A session hears of checksums when the option was on, and not otherwise.
ChecksumInv ==
    /\ pc \in {"format", "announce"} => announced = "unset"
    /\ pc # "connect" /\ ~use_checksum => announced = "unset"
    /\ row # NoRow /\ ~row.reported => row.crc = use_checksum

PInv == TypeOK /\ LogInv /\ PlacesInv /\ PositionInv /\ ChecksumInv

-----------------------------------------------------------------------------
(* Names and places *)

\* AntiFunction() finds a place at which the name is.
LEMMA PlaceOf ==
    ASSUME NEW d, NEW n \in Range(d)
    PROVE  AntiFunction(d)[n] \in DOMAIN d /\ d[AntiFunction(d)[n]] = n
<1>1. \E i \in DOMAIN d : d[i] = n
  BY DEF Range
<1>2. AntiFunction(d)[n] = CHOOSE i \in DOMAIN d : n \in Range(d) => d[i] = n
  BY DEF AntiFunction, Inverse
<1>3. QED
  BY <1>1, <1>2

LEMMA DefinitionIsSequence ==
    ASSUME NEW d \in Definitions \union {<<>>}
    PROVE  /\ d \in Seq(Range(d))
           /\ DOMAIN d = 1..Len(d) /\ Len(d) \in Nat
           /\ \A i, j \in DOMAIN d : d[i] = d[j] => i = j
<1>1. CASE d \in Definitions
  <2>1. d \in Seq(Range(d)) /\ IsInjective(d)
    BY <1>1, DefinitionsAssumption
  <2>2. QED
    BY <2>1 DEF IsInjective
<1>2. CASE d = <<>>
  <2>1. d \in Seq(Range(d))
    BY <1>2
  <2>2. QED
    BY <1>2, <2>1
<1>3. QED
  BY <1>1, <1>2

\* add_column() for each column: the names of the definition get their
\* places, whatever was known.
LEMMA AddsColumns ==
    ASSUME NEW known, NEW d \in Definitions \union {<<>>}
    PROVE  /\ Range(d) \subseteq DOMAIN AddColumns(known, d)
           /\ \A n \in Range(d) :
                /\ AddColumns(known, d)[n] \in Nat
                /\ AddColumns(known, d)[n] + 1 \in DOMAIN d
                /\ d[AddColumns(known, d)[n] + 1] = n
<1>1. DOMAIN AddColumns(known, d) = DOMAIN known \union Range(d)
  BY DEF AddColumns
<1>2. ASSUME NEW n \in Range(d)
      PROVE  /\ AddColumns(known, d)[n] \in Nat
             /\ AddColumns(known, d)[n] + 1 \in DOMAIN d
             /\ d[AddColumns(known, d)[n] + 1] = n
  <2>1. PICK i : i = AntiFunction(d)[n]
    OBVIOUS
  <2>2. AddColumns(known, d)[n] = i - 1
    BY <2>1 DEF AddColumns
  <2>3. i \in DOMAIN d /\ d[i] = n
    BY <2>1, PlaceOf
  <2>4. i \in Nat /\ i # 0
    BY <2>3, DefinitionIsSequence
  <2>5. i - 1 \in Nat /\ (i - 1) + 1 = i
    BY <2>4
  <2>6. QED
    BY <2>2, <2>3, <2>5
<1>3. QED
  BY <1>1, <1>2

-----------------------------------------------------------------------------
(* The inductive invariant *)

LEMMA PInit == Init => PInv
<1> SUFFICES ASSUME Init PROVE PInv
  OBVIOUS
<1>1. Range(<<>>) = {} /\ DOMAIN << >> = {}
  BY DEF Range
<1>2. TypeOK
  <2>1. Len(log) = 0 /\ NoRow.at = 0
    BY DEF Init, NoRow
  <2>2. binlog_pos \in 0 .. Len(log) + 1 /\ start \in 0 .. binlog_pos
    BY <2>1 DEF Init
  <2>3. columns \in [Watched -> Definitions \union {<<>>}]
        /\ read \in [Watched -> Definitions \union {<<>>}]
    BY DEF Init
  <2>4. DOMAIN names = Watched /\ \A t \in Watched : read[t] = <<>>
    BY DEF Init
  <2>5. QED
    BY <1>1, <2>2, <2>3, <2>4 DEF Init, TypeOK, Preparing
<1>3. LogInv /\ PlacesInv
  BY <1>1 DEF Init, LogInv, PlacesInv
<1>4. PositionInv /\ ChecksumInv
  BY DEF Init, PositionInv, ChecksumInv, Preparing
<1>5. QED
  BY <1>2, <1>3, <1>4 DEF PInv

\* The master changes nothing that prepare() has learnt.
LEMMA MasterKeeps == PInv /\ Master => PInv'
<1> SUFFICES ASSUME PInv, Master PROVE PInv'
  OBVIOUS
<1>1. UNCHANGED <<structureVars, positionVars, pc, use_checksum, announced, row>>
  BY DEF Master
<1> USE DEF structureVars, positionVars
<1>2. /\ columns' \in [Watched -> Definitions \union {<<>>}]
      /\ checksums' \in BOOLEAN
      /\ log' \in Seq(Entries) /\ Len(log) <= Len(log')
  <2>1. /\ columns \in [Watched -> Definitions \union {<<>>}]
        /\ checksums \in BOOLEAN
        /\ log \in Seq(Entries) /\ Len(log) \in Nat
    BY DEF PInv, TypeOK, LogInv
  <2>2. CASE \E t \in Watched : WriteRow(t)
    <3>1. PICK t \in Watched : WriteRow(t)
      BY <2>2
    <3>2. PICK e : e = [table |-> t, columns |-> columns[t], crc |-> checksums]
      OBVIOUS
    <3>3. columns[t] \in Definitions
      BY <2>1, <3>1 DEF WriteRow
    <3>4. e \in Entries
      BY <2>1, <3>2, <3>3 DEF Entries
    <3>5. log' = Append(log, e)
      BY <3>1, <3>2 DEF WriteRow
    <3>6. QED
      BY <2>1, <3>1, <3>4, <3>5 DEF WriteRow
  <2>3. CASE \E t \in Watched : AlterTable(t) \/ DropTable(t)
    BY <2>1, <2>3 DEF AlterTable, DropTable, Redefine
  <2>4. CASE SwitchChecksums
    BY <2>1, <2>4 DEF SwitchChecksums
  <2>5. QED
    BY <2>2, <2>3, <2>4 DEF Master
<1>3. TypeOK'
  <2>1. binlog_pos' \in 0 .. Len(log') + 1 /\ start' \in 0 .. binlog_pos'
    <3>1. Len(log) \in Nat /\ Len(log') \in Nat
      BY <1>2 DEF PInv, LogInv
    <3>2. QED
      BY <1>1, <1>2, <3>1 DEF PInv, TypeOK
  <2>2. QED
    BY <1>1, <1>2, <2>1 DEF PInv, TypeOK
<1>4. LogInv' /\ PlacesInv'
  BY <1>1, <1>2 DEF PInv, LogInv, PlacesInv
<1>5. PositionInv' /\ ChecksumInv'
  BY <1>1 DEF PInv, PositionInv, ChecksumInv
<1>6. QED
  BY <1>3, <1>4, <1>5 DEF PInv

\* The queries that leave the structure and the position as they are: what
\* they tell the session, and where they go on.
LEMMA SessionKeeps ==
    ASSUME PInv,
           Connect \/ GetBinlogFormat \/ VersionRefused
             \/ SetupMasterBinlogChecksum \/ QueryFails
    PROVE  PInv'
<1>1. /\ UNCHANGED <<structureVars, positionVars, masterVars, row>>
      /\ pc \in Preparing \ {"dump"} \/ QueryFails
      /\ pc' \in Preparing \ {"dump"}
  BY DEF Connect, GetBinlogFormat, VersionRefused, SetupMasterBinlogChecksum,
         QueryFails, Query, Preparing
<1>2. pc \in Preparing /\ row = NoRow
  BY <1>1 DEF PInv, LogInv, QueryFails, Preparing
<1>3. use_checksum' \in BOOLEAN /\ announced' \in {"unset", "none", "crc32"}
  BY DEF PInv, TypeOK, Connect, GetBinlogFormat, VersionRefused,
         SetupMasterBinlogChecksum, QueryFails, Query, Option
<1>4. TypeOK'
  BY <1>1, <1>2, <1>3
     DEF PInv, TypeOK, masterVars, structureVars, positionVars
<1>5. LogInv' /\ PlacesInv'
  BY <1>1, <1>2
     DEF PInv, LogInv, PlacesInv, masterVars, structureVars, positionVars
<1>6. PositionInv'
  BY <1>1, <1>2 DEF PInv, PositionInv, positionVars, Preparing
<1>7. ChecksumInv'
  BY <1>1, <1>2
     DEF PInv, TypeOK, ChecksumInv, Connect, GetBinlogFormat, VersionRefused,
         SetupMasterBinlogChecksum, QueryFails, Query, Option
<1>8. QED
  BY <1>4, <1>5, <1>6, <1>7 DEF PInv

\* build_db_structure() up to the columns of a table.
LEMMA ListingKeeps ==
    ASSUME PInv,
           \/ ListTables \/ AllRead
           \/ \E t \in Watched : ReadColumnsFails(t)
    PROVE  PInv'
<1>1. /\ UNCHANGED <<names, read, positionVars, masterVars, row, use_checksum,
                     announced>>
      /\ pc \in {"tables", "columns"} /\ pc' \in Preparing \ {"dump"}
      /\ to_read' \subseteq Watched
  BY DEF ListTables, AllRead, ReadColumnsFails, Query, Preparing, structureVars,
         PInv, TypeOK
<1>2. pc' \notin {"format", "announce", "events"}
  BY DEF ListTables, AllRead, ReadColumnsFails, Query
<1>3. TypeOK'
  BY <1>1 DEF PInv, TypeOK, masterVars, positionVars
<1>4. LogInv' /\ PlacesInv'
  BY <1>1 DEF PInv, LogInv, PlacesInv, masterVars, positionVars
<1>5. PositionInv' /\ ChecksumInv'
  BY <1>1, <1>2 DEF PInv, PositionInv, ChecksumInv, positionVars, Preparing
<1>6. QED
  BY <1>3, <1>4, <1>5 DEF PInv

\* SHOW COLUMNS: the names that were read get their places, those of the other
\* tables keep theirs.
LEMMA ReadingKeeps ==
    ASSUME PInv, NEW t \in Watched, ReadColumns(t)
    PROVE  PInv'
<1>1. /\ UNCHANGED <<positionVars, masterVars, row, use_checksum, announced>>
      /\ pc = "columns" /\ pc' = "columns"
      /\ to_read' = to_read \ {t}
      /\ names' = [names EXCEPT ![t] = AddColumns(names[t], columns[t])]
      /\ read' = [read EXCEPT ![t] = columns[t]]
  BY DEF ReadColumns, Query
<1>2. /\ columns[t] \in Definitions \union {<<>>}
      /\ read \in [Watched -> Definitions \union {<<>>}]
      /\ DOMAIN names = Watched
  BY DEF PInv, TypeOK
<1>3. /\ read' \in [Watched -> Definitions \union {<<>>}]
      /\ DOMAIN names' = Watched
      /\ read'[t] = columns[t]
      /\ names'[t] = AddColumns(names[t], columns[t])
      /\ \A u \in Watched \ {t} : read'[u] = read[u] /\ names'[u] = names[u]
  BY <1>1, <1>2
<1>4. PICK d, known : d = columns[t] /\ known = names[t]
  OBVIOUS
<1>5. /\ Range(d) \subseteq DOMAIN AddColumns(known, d)
      /\ \A n \in Range(d) :
           /\ AddColumns(known, d)[n] \in Nat
           /\ AddColumns(known, d)[n] + 1 \in DOMAIN d
           /\ d[AddColumns(known, d)[n] + 1] = n
  BY <1>2, <1>4, AddsColumns
<1>6. PlacesInv'
  <2> SUFFICES ASSUME NEW u \in Watched, NEW n \in Range(read'[u])
               PROVE  /\ names'[u][n] \in Nat
                      /\ names'[u][n] + 1 \in DOMAIN read'[u]
                      /\ read'[u][names'[u][n] + 1] = n
    BY DEF PlacesInv
  <2>1. CASE u = t
    BY <2>1, <1>3, <1>4, <1>5
  <2>2. CASE u # t
    BY <2>2, <1>3 DEF PInv, PlacesInv
  <2>3. QED
    BY <2>1, <2>2
<1>7. TypeOK'
  <2>1. \A u \in Watched : Range(read'[u]) \subseteq DOMAIN names'[u]
    BY <1>3, <1>4, <1>5 DEF PInv, TypeOK
  <2>2. QED
    BY <1>1, <1>3, <2>1 DEF PInv, TypeOK, masterVars, positionVars
<1>8. LogInv' /\ PositionInv' /\ ChecksumInv'
  BY <1>1
     DEF PInv, LogInv, PositionInv, ChecksumInv, masterVars, positionVars
<1>9. QED
  BY <1>6, <1>7, <1>8 DEF PInv

\* The position is taken once, and the dump begins there.
LEMMA PositionKeeps ==
    ASSUME PInv, GetLastBinlogPosition \/ RequestBinlogDump
    PROVE  PInv'
<1>1. Len(log) \in Nat /\ row = NoRow /\ binlog_pos = start
  BY DEF PInv, LogInv, PositionInv, GetLastBinlogPosition, RequestBinlogDump,
         Query, Preparing
<1>2. /\ UNCHANGED <<structureVars, masterVars, row, use_checksum, announced>>
      /\ pc \in {"position", "dump"} /\ pc' \in {"dump", "events"}
  BY DEF GetLastBinlogPosition, RequestBinlogDump, Query
<1>3. /\ binlog_pos' \in 0 .. Len(log) + 1
      /\ start' = binlog_pos' /\ start' # 0
  <2>1. binlog_pos \in 0 .. Len(log) + 1
    BY DEF PInv, TypeOK
  <2>2. CASE GetLastBinlogPosition
    BY <1>1, <2>1, <2>2 DEF GetLastBinlogPosition
  <2>3. CASE RequestBinlogDump
    BY <1>1, <2>1, <2>3
       DEF RequestBinlogDump, Query, positionVars, PInv, PositionInv
  <2>4. QED
    BY <2>2, <2>3
<1>4. TypeOK'
  <2>1. start' \in 0 .. binlog_pos'
    BY <1>1, <1>3
  <2>2. QED
    BY <1>1, <1>2, <1>3, <2>1
       DEF PInv, TypeOK, masterVars, structureVars, Preparing
<1>5. LogInv' /\ PlacesInv'
  BY <1>1, <1>2 DEF PInv, LogInv, PlacesInv, masterVars, structureVars
<1>6. PositionInv' /\ ChecksumInv'
  BY <1>1, <1>2, <1>3 DEF PInv, PositionInv, ChecksumInv, masterVars
<1>7. QED
  BY <1>4, <1>5, <1>6 DEF PInv

\* An entry whose checksum was not expected is not sent, and one whose
\* checksum is missing is told of.
LEMMA HandlingKeeps == PInv /\ HandleEntry => PInv'
<1> SUFFICES ASSUME PInv, HandleEntry PROVE PInv'
  OBVIOUS
<1>1. PICK e : e = log[binlog_pos]
  OBVIOUS
<1>2. PICK crc \in Sent(e.crc) :
        row' = [at |-> binlog_pos, table |-> e.table, columns |-> e.columns,
                crc |-> crc, reported |-> use_checksum /\ ~crc]
  BY <1>1 DEF HandleEntry
<1>3. /\ UNCHANGED <<masterVars, structureVars, start, pc, use_checksum,
                     announced>>
      /\ pc = "events" /\ binlog_pos <= Len(log) /\ binlog_pos' = binlog_pos + 1
  BY DEF HandleEntry
<1>4. /\ log \in Seq(Entries) /\ Len(log) \in Nat
      /\ binlog_pos \in 0 .. Len(log) + 1 /\ start \in 0 .. binlog_pos
      /\ start # 0
  BY <1>3 DEF PInv, LogInv, TypeOK, PositionInv
<1>5. binlog_pos \in 1..Len(log)
  BY <1>3, <1>4
<1>6. e \in Entries
  BY <1>1, <1>4, <1>5
<1>7. e.table \in Watched /\ e.columns \in Definitions /\ e.crc \in BOOLEAN
  BY <1>6 DEF Entries
<1>8. crc \in BOOLEAN /\ use_checksum \in BOOLEAN
  BY <1>2, <1>7 DEF Sent, PInv, TypeOK
<1>9. row' \in Rows /\ row'.at = binlog_pos
  <2>1. binlog_pos \in Nat
    BY <1>5
  <2>2. QED
    BY <1>2, <1>7, <1>8, <2>1 DEF Rows
<1>10. TypeOK'
  <2>1. binlog_pos' \in 0 .. Len(log) + 1 /\ start \in 0 .. binlog_pos'
        /\ row'.at < binlog_pos'
    BY <1>3, <1>4, <1>5, <1>9
  <2>2. QED
    BY <1>3, <2>1 DEF PInv, TypeOK, masterVars, structureVars
<1>11. LogInv'
  <2>1. binlog_pos >= start
    BY <1>4
  <2>2. QED
    BY <1>3, <1>4, <1>9, <2>1 DEF LogInv, masterVars
<1>12. PlacesInv' /\ PositionInv'
  BY <1>3, <1>4 DEF PInv, PlacesInv, PositionInv, structureVars, Preparing
<1>13. ChecksumInv'
  <2>1. announced = "unset" \/ use_checksum
    BY <1>3 DEF PInv, ChecksumInv
  <2>2. crc => use_checksum
    BY <1>2, <1>7, <2>1 DEF Sent
  <2>3. row'.crc = crc /\ row'.reported = (use_checksum /\ ~crc)
    BY <1>2
  <2>4. ~row'.reported => row'.crc = use_checksum
    BY <1>8, <2>2, <2>3
  <2>5. QED
    BY <1>3, <2>4 DEF PInv, ChecksumInv
<1>14. QED
  BY <1>10, <1>11, <1>12, <1>13 DEF PInv

LEMMA ReconnectKeeps == PInv /\ Reconnect => PInv'
<1> SUFFICES ASSUME PInv, Reconnect PROVE PInv'
  OBVIOUS
<1>1. TypeOK' /\ LogInv'
  BY DEF PInv, TypeOK, LogInv, Reconnect, masterVars, structureVars, positionVars
<1>2. PlacesInv' /\ PositionInv' /\ ChecksumInv'
  BY DEF PInv, PlacesInv, PositionInv, ChecksumInv, Reconnect, structureVars,
         positionVars
<1>3. QED
  BY <1>1, <1>2 DEF PInv

LEMMA PNext == PInv /\ [Next]_vars => PInv'
<1> SUFFICES ASSUME PInv, [Next]_vars PROVE PInv'
  OBVIOUS
<1>1. CASE Prepares
  BY <1>1, SessionKeeps, ListingKeeps, ReadingKeeps, PositionKeeps DEF Prepares
<1>2. CASE UNCHANGED vars
  <2>1. TypeOK' /\ LogInv'
    BY <1>2 DEF vars, PInv, TypeOK, LogInv, masterVars, structureVars,
                positionVars
  <2>2. PlacesInv' /\ PositionInv' /\ ChecksumInv'
    BY <1>2 DEF vars, PInv, PlacesInv, PositionInv, ChecksumInv, masterVars,
                structureVars, positionVars
  <2>3. QED
    BY <2>1, <2>2 DEF PInv
<1>3. QED
  BY <1>1, <1>2, MasterKeeps, HandlingKeeps, ReconnectKeeps DEF Next

LEMMA PInvariant == Spec => []PInv
BY PInit, PNext, PTL DEF Spec

-----------------------------------------------------------------------------
(* Theorems *)

\* What prepare() keeps has its type for any tables, definitions and versions:
\* the position is in the log or at its end, and every column of a definition
\* that was read has a place in CTable::_data.
THEOREM PrepareTypes == Spec => []TypeOK
<1>1. PInv => TypeOK
  BY DEF PInv
<1>2. QED
  BY <1>1, PInvariant, PTL

\* dispatch_events() never takes a checksum for data, or data for a checksum,
\* without an exception: what SHOW VARIABLES and the SET behind it find may
\* differ, and the option may change at any time.
THEOREM MisreadsNothingSilently == Spec => []NoSilentMisread
<1>1. PInv => NoSilentMisread
  BY DEF PInv, ChecksumInv, NoSilentMisread, HasRow
<1>2. QED
  BY <1>1, PInvariant, PTL

\* However often prepare() fails behind get_last_binlog_position() and is
\* called again, the dump begins at the position that was known first.
THEOREM RetriesMissNothing == Spec => []NothingMissedByRetries
<1>1. PInv => NothingMissedByRetries
  BY DEF PInv, LogInv, PositionInv, NothingMissedByRetries, HasRow
<1>2. QED
  BY <1>1, PInvariant, PTL

-----------------------------------------------------------------------------
(* Values by the name of their column *)

\* Two definitions of which one begins with the other agree as far as both go.
LEMMA PrefixesAgree ==
    ASSUME NEW d \in Definitions \union {<<>>},
           NEW c \in Definitions \union {<<>>},
           IsPrefix(d, c) \/ IsPrefix(c, d)
    PROVE  \A i \in DOMAIN d : i \in DOMAIN c => d[i] = c[i]
<1>1. /\ DOMAIN d = 1..Len(d) /\ Len(d) \in Nat
      /\ DOMAIN c = 1..Len(c) /\ Len(c) \in Nat
  BY DefinitionIsSequence
<1>2. d \in Seq(Range(d)) /\ c \in Seq(Range(c))
  BY DefinitionIsSequence
<1> SUFFICES ASSUME NEW i \in DOMAIN d, i \in DOMAIN c
             PROVE  d[i] = c[i]
  OBVIOUS
<1>3. i \in 1..Len(d) /\ i \in 1..Len(c)
  BY <1>1
<1>4. CASE IsPrefix(d, c)
  <2>1. SubSeq(d, 1, Len(d))[i] = d[i] /\ SubSeq(c, 1, Len(d))[i] = c[i]
    BY <1>1, <1>2, <1>3, <1>4 DEF IsPrefix
  <2>2. QED
    BY <1>4, <2>1 DEF IsPrefix
<1>5. CASE IsPrefix(c, d)
  <2>1. SubSeq(d, 1, Len(c))[i] = d[i] /\ SubSeq(c, 1, Len(c))[i] = c[i]
    BY <1>1, <1>2, <1>3, <1>5 DEF IsPrefix
  <2>2. QED
    BY <1>5, <2>1 DEF IsPrefix
<1>6. QED
  BY <1>4, <1>5

LEMMA NamesFit == PInv => NamesFitLongerAndShorterRows
<1> SUFFICES ASSUME PInv, HasRow,
                    NEW d, d = read[row.table],
                    IsPrefix(d, row.columns) \/ IsPrefix(row.columns, d),
                    NEW n \in Range(d)
             PROVE  Lookup(n) = IF n \in Range(row.columns) THEN n ELSE NoName
  BY DEF NamesFitLongerAndShorterRows
<1>1. row.table \in Watched /\ row.columns \in Definitions
  BY DEF PInv, LogInv, HasRow, Rows
<1>2. d \in Definitions \union {<<>>}
  BY <1>1 DEF PInv, TypeOK
<1>3. PICK known : known = names[row.table]
  OBVIOUS
<1>4. PICK p, c : p = known[n] /\ c = row.columns
  OBVIOUS
<1>5. n \in DOMAIN known
  BY <1>1, <1>3 DEF PInv, TypeOK
<1>6. p \in Nat /\ p + 1 \in DOMAIN d /\ d[p + 1] = n
  BY <1>1, <1>3, <1>4 DEF PInv, PlacesInv
<1>7. Lookup(n) = IF p < Len(c) THEN c[p + 1] ELSE NoName
  BY <1>3, <1>4, <1>5 DEF Lookup, AtPosition
<1>8. DOMAIN c = 1..Len(c) /\ Len(c) \in Nat
  BY <1>1, <1>4, DefinitionIsSequence
<1>9. \A i \in DOMAIN d : i \in DOMAIN c => d[i] = c[i]
  BY <1>1, <1>2, <1>4, PrefixesAgree
<1>10. CASE p < Len(c)
  <2>1. p + 1 \in DOMAIN c
    BY <1>6, <1>8, <1>10
  <2>2. c[p + 1] = n
    BY <1>6, <1>9, <2>1
  <2>3. n \in Range(c)
    BY <2>1, <2>2 DEF Range
  <2>4. QED
    BY <1>4, <1>7, <1>10, <2>2, <2>3
<1>11. CASE ~(p < Len(c))
  <2>1. n \notin Range(c)
    <3> SUFFICES ASSUME NEW i \in DOMAIN c, c[i] = n
                 PROVE  FALSE
      BY DEF Range
    <3>1. i \in DOMAIN d
      <4>1. DOMAIN d = 1..Len(d) /\ Len(d) \in Nat
        BY <1>2, DefinitionIsSequence
      <4>2. QED
        BY <1>6, <1>8, <1>11, <4>1
    <3>2. d[i] = d[p + 1]
      BY <1>6, <1>9, <3>1
    <3>3. i = p + 1
      BY <1>2, <1>6, <3>1, <3>2, DefinitionIsSequence
    <3>4. QED
      BY <1>6, <1>8, <1>11, <3>3
  <2>2. QED
    BY <1>4, <1>7, <1>11, <2>1
<1>12. QED
  BY <1>10, <1>11

\* CRow::operator[] gives the value of the column that has the name, or none,
\* as long as columns were only added to the end of the table or removed from
\* there since they were read: for any definitions, and whatever earlier calls
\* of prepare() left in CTable::_data.
THEOREM NamesFindTheirColumns == Spec => []NamesFitLongerAndShorterRows
BY PInvariant, NamesFit, PTL

=============================================================================
