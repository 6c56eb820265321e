--------------------------- MODULE DeliveryProofs ---------------------------
(***************************************************************************)
(* While the server does not restart, table ids are never given out twice, *)
(* and the registry follows the statement in hand: every callback gets the *)
(* rows of its own event.  And nothing due is passed over in silence:      *)
(* whatever lies before the resume point, the place the server has reached *)
(* or the packet in hand was delivered or reported.  So every step of      *)
(* Replication is a step of ChangeFeed or changes nothing that the feed    *)
(* knows of.                                                               *)
(***************************************************************************)
EXTENDS SessionProofs, FeedRefinement

\* The steps of Spec, which are those of CrashSpec but for a restart.
LEMMA NextCases ==
    /\ Next => Plainly \/ HandleTableMap \/ HandleRows \/ CallbackFails
                 \/ Master
    /\ Next => CrashNext
BY DEF CrashNext, Next, ThreadStep, Failing, Reconnecting, Handle, Plainly

-----------------------------------------------------------------------------
(* Table ids *)

\* The event carries an id that stands for its table and definition.
HasOwnId(ev) ==
    /\ ev.id \in 1..Len(table_ids)
    /\ table_ids[ev.id] = [table |-> ev.table, ver |-> ev.ver]

StoredIds ==
    \A f \in 1..Len(files) : \A k \in 1..Len(files[f]) :
        files[f][k].type \in InStatement => HasOwnId(files[f][k])

MappedIds ==
    \A t \in Tables : mapped[t] # 0 =>
        /\ mapped[t] \in 1..Len(table_ids)
        /\ table_ids[mapped[t]] = [table |-> t, ver |-> schema[t]]

LEMMA IdParts == IdsAreUnique <=> StoredIds /\ MappedIds
BY DEF IdsAreUnique, StoredIds, MappedIds, HasOwnId

\* Ids keep what they stand for.
IdsGrow ==
    /\ Len(table_ids) \in Nat /\ Len(table_ids') \in Nat
    /\ Len(table_ids') >= Len(table_ids)
    /\ \A i \in 1..Len(table_ids) : table_ids'[i] = table_ids[i]

LEMMA SameIdsGrow ==
    ASSUME LogTypeOK, UNCHANGED table_ids
    PROVE  IdsGrow
BY DEF LogTypeOK, IdsGrow

\* The event at a place of the new log is an old one, or the last of what was
\* the last file.
LEMMA OpenedPlaces ==
    ASSUME LogTypeOK, NEW e, Opens(e),
           NEW f \in 1..Len(files'), NEW k \in 1..Len(files'[f])
    PROVE  \/ f \in 1..Len(files) /\ k \in 1..Len(files[f])
           \/ files'[f][k] = e
<1>1. PICK L \in Nat, n \in Nat : L = Len(files) /\ n = Len(LastFile)
  BY LogLengths
<1>2. /\ Len(files') = L + 1 /\ files'[L + 1] = <<>>
      /\ \A g \in 1..(L - 1) : files'[g] = files[g]
      /\ Len(files[L]) = n
      /\ \/ files'[L] = files[L]
         \/ Len(files'[L]) = n + 1 /\ files'[L][n + 1] = e
  BY <1>1 DEF Opens, LastFile
<1>3. CASE f < L
  <2>1. f \in 1..(L - 1)
    BY <1>1, <1>3
  <2> QED
    BY <1>1, <1>2, <1>3, <2>1
<1>4. CASE f = L
  BY <1>1, <1>2, <1>4
<1>5. f # L + 1
  BY <1>2
<1> QED
  BY <1>1, <1>2, <1>3, <1>4, <1>5

LEMMA StoredIdsKept ==
    ASSUME LogTypeOK, Grows, StoredIds, IdsGrow,
           NEW e, Appends(e) \/ Opens(e),
           e.type \in InStatement => HasOwnId(e)'
    PROVE  StoredIds'
<1> SUFFICES ASSUME NEW f \in 1..Len(files'), NEW k \in 1..Len(files'[f]),
                    files'[f][k].type \in InStatement
             PROVE  /\ files'[f][k].id \in 1..Len(table_ids')
                    /\ table_ids'[files'[f][k].id] =
                         [table |-> files'[f][k].table,
                          ver   |-> files'[f][k].ver]
  BY DEF StoredIds, HasOwnId
<1>1. \/ f \in 1..Len(files) /\ k \in 1..Len(files[f])
      \/ files'[f][k] = e
  BY AppendedPlaces, OpenedPlaces
<1>2. CASE f \in 1..Len(files) /\ k \in 1..Len(files[f])
  <2>1. PICK ev : ev = files[f][k]
    OBVIOUS
  <2>2. files'[f][k] = ev
    BY <1>2, <2>1 DEF Grows
  <2>3. /\ ev.id \in 1..Len(table_ids)
        /\ table_ids[ev.id] = [table |-> ev.table, ver |-> ev.ver]
    BY <1>2, <2>1, <2>2 DEF StoredIds, HasOwnId
  <2>4. ev.id \in 1..Len(table_ids') /\ table_ids'[ev.id] = table_ids[ev.id]
    BY <2>3 DEF IdsGrow
  <2> QED
    BY <2>2, <2>3, <2>4
<1>3. CASE files'[f][k] = e
  BY <1>3 DEF HasOwnId
<1> QED
  BY <1>1, <1>2, <1>3

LEMMA PlainKeepsIds ==
    ASSUME LogTypeOK, LogInv, IdsAreUnique,
           \/ Begin \/ Savepoint \/ Commit \/ WriteUnsupported
           \/ \E t \in Tables : AlterTable(t)
    PROVE  IdsAreUnique' /\ IdsGrow
<1>1. LogTypeOK' /\ Grows
  BY MasterKeepsLog DEF BinlogNext
<1>2. PICK type \in {"QUERY", "LONG_QUERY", "XID", "UNSUPPORTED"} : WritesPlain(type)
  BY PlainStep DEF LogInv
<1>3. UNCHANGED table_ids
  BY DEF Begin, Savepoint, Commit, WriteUnsupported, AlterTable
<1>4. IdsGrow
  BY <1>3, SameIdsGrow
<1>5. Appends(Plain(type)) /\ Plain(type).type \notin InStatement
  BY <1>2 DEF WritesPlain, Plain, InStatement
<1>6. StoredIds'
  BY <1>1, <1>4, <1>5, IdParts, StoredIdsKept
<1>7. MappedIds'
  BY <1>2 DEF WritesPlain, NothingMapped, MappedIds
<1> QED
  BY <1>4, <1>6, <1>7, IdParts DEF IdsAreUnique, StoredIds, MappedIds, HasOwnId

LEMMA MapKeepsIds ==
    ASSUME LogTypeOK, LogInv, IdsAreUnique, NEW t \in Tables, MapTable(t)
    PROVE  IdsAreUnique' /\ IdsGrow
<1>1. LogTypeOK' /\ Grows
  BY MasterKeepsLog DEF BinlogNext
<1>2. PICK x : x = [table |-> t, ver |-> schema[t]]
  OBVIOUS
<1>3. PICK i \in 1..MaxIds :
          /\ \/ /\ i \in 1..Len(table_ids) /\ table_ids[i] = x
                /\ UNCHANGED table_ids
             \/ /\ i = Len(table_ids) + 1
                /\ table_ids' = Append(table_ids, x)
          /\ Write(TableMapEvent(t, i))
          /\ mapped' = [mapped EXCEPT ![t] = i]
  BY <1>2 DEF MapTable
<1>4. /\ IdsGrow /\ i \in 1..Len(table_ids') /\ table_ids'[i] = x
      /\ i \in Nat
  <2> DEFINE S == [table : Tables, ver : Nat]
  <2>1. table_ids \in Seq(S) /\ x \in S
    BY <1>2 DEF LogTypeOK
  <2> HIDE DEF S
  <2> QED
    BY <1>3, <2>1 DEF IdsGrow
<1>5. PICK e : e = TableMapEvent(t, i)
  OBVIOUS
<1>6. e \in Event
  BY <1>4, <1>5 DEF TableMapEvent, Event, EventTypes, LogTypeOK
<1>7. Appends(e)
  BY <1>3, <1>5, <1>6, AppendShape DEF Write, LogTypeOK
<1>8. e.id = i /\ e.table = t /\ e.ver = schema[t]
  BY <1>5 DEF TableMapEvent
<1>9. StoredIds'
  BY <1>1, <1>2, <1>4, <1>7, <1>8, IdParts, StoredIdsKept DEF HasOwnId
<1>10. MappedIds'
  <2> SUFFICES ASSUME NEW v \in Tables, mapped'[v] # 0
               PROVE  /\ mapped'[v] \in 1..Len(table_ids')
                      /\ table_ids'[mapped'[v]] =
                           [table |-> v, ver |-> schema'[v]]
    BY DEF MappedIds
  <2>1. schema' = schema
    BY DEF MapTable
  <2>2. CASE v = t
    BY <1>2, <1>3, <1>4, <2>1, <2>2 DEF LogTypeOK
  <2>3. CASE v # t
    <3>1. mapped'[v] = mapped[v]
      BY <1>3, <2>3 DEF LogTypeOK
    <3>2. /\ mapped[v] \in 1..Len(table_ids)
          /\ table_ids[mapped[v]] = [table |-> v, ver |-> schema[v]]
      BY <3>1, IdParts DEF MappedIds
    <3> QED
      BY <1>4, <2>1, <3>1, <3>2 DEF IdsGrow
  <2> QED
    BY <2>2, <2>3
<1> QED
  BY <1>4, <1>9, <1>10 DEF IdsAreUnique, StoredIds, MappedIds, HasOwnId

LEMMA RowsKeepIds ==
    ASSUME LogTypeOK, LogInv, IdsAreUnique, NEW t \in Tables, WriteRows(t)
    PROVE  IdsAreUnique' /\ IdsGrow
<1>1. LogTypeOK' /\ Grows
  BY MasterKeepsLog DEF BinlogNext
<1>2. UNCHANGED <<table_ids, schema>>
  BY DEF WriteRows
<1>3. IdsGrow
  BY <1>2, SameIdsGrow
<1>4. PICK kind \in Kinds : Appends(RowsEvent(t, kind))
  BY RowsStep
<1>5. mapped[t] # 0 /\ mapped' \in {mapped, [v \in Tables |-> 0]}
  BY RowsStep
<1>6. PICK e : e = RowsEvent(t, kind)
  OBVIOUS
<1>7. e.id = mapped[t] /\ e.table = t /\ e.ver = schema[t] /\ Appends(e)
  BY <1>4, <1>6 DEF RowsEvent
<1>8. HasOwnId(e)'
  BY <1>2, <1>5, <1>7, IdParts DEF HasOwnId, MappedIds
<1>9. StoredIds'
  BY <1>1, <1>3, <1>7, <1>8, IdParts, StoredIdsKept
<1>10. MappedIds'
  BY <1>2, <1>5, IdParts DEF MappedIds
<1> QED
  BY <1>3, <1>9, <1>10 DEF IdsAreUnique, StoredIds, MappedIds, HasOwnId

LEMMA RotateKeepsIds ==
    ASSUME LogTypeOK, LogInv, IdsAreUnique, RotateFile
    PROVE  IdsAreUnique' /\ IdsGrow
<1>1. LogTypeOK' /\ Grows
  BY MasterKeepsLog DEF BinlogNext
<1>2. UNCHANGED <<table_ids, schema, mapped>>
  BY DEF RotateFile
<1>3. IdsGrow
  BY <1>2, SameIdsGrow
<1>4. PICK type \in {"ROTATE", "STOP"} : Opens(Plain(type))
  BY FileStep DEF LogInv
<1>5. Plain(type).type \notin InStatement
  BY DEF Plain, InStatement
<1>6. StoredIds'
  BY <1>1, <1>3, <1>4, <1>5, IdParts, StoredIdsKept
<1>7. MappedIds'
  BY <1>2, IdParts DEF MappedIds
<1> QED
  BY <1>3, <1>6, <1>7 DEF IdsAreUnique, StoredIds, MappedIds, HasOwnId

LEMMA MasterKeepsIds ==
    ASSUME LogTypeOK, LogInv, IdsAreUnique, BinlogNext
    PROVE  IdsAreUnique' /\ IdsGrow
BY PlainKeepsIds, MapKeepsIds, RowsKeepIds, RotateKeepsIds DEF BinlogNext

-----------------------------------------------------------------------------
(* The maps and the CTable objects *)

\* The CTable objects are tuned as before; rows may have been decoded.
SameTuning ==
    \A t \in Watched :
        /\ tables'[t].tuned = tables[t].tuned
        /\ tables'[t].id = tables[t].id /\ tables'[t].ver = tables[t].ver

LEMMA SameTablesSameTuning ==
    ASSUME UNCHANGED tables
    PROVE  SameTuning
BY DEF SameTuning

\* CTable::update() leaves the layout alone.
LEMMA DeliverKeepsTuning ==
    ASSUME RegistryTypeOK, KnownId(buf.ev), Deliver
    PROVE  SameTuning /\ UNCHANGED <<id_2_table, table_2_id>>
<1>1. PICK t : t = id_2_table[buf.ev.id]
  OBVIOUS
<1>2. PICK tbl : tbl = Update(tables[t], buf.ev, buf.at)
  OBVIOUS
<1>3. tables' = [tables EXCEPT ![t] = tbl]
  BY <1>1, <1>2 DEF Deliver
<1>4. t \in Watched
  BY <1>1 DEF RegistryTypeOK, KnownId
<1>5. /\ tbl.tuned = tables[t].tuned /\ tbl.id = tables[t].id
      /\ tbl.ver = tables[t].ver
  <2>1. tables[t] \in [tuned : BOOLEAN, id : Nat, ver : Nat,
                       rows : Nat \X Nat, newRows : Nat \X Nat]
    BY <1>4 DEF RegistryTypeOK
  <2> QED
    BY <1>2, <2>1 DEF Update
<1> QED
  BY <1>3, <1>4, <1>5 DEF SameTuning, RegistryTypeOK, Deliver

LEMMA MapsStay ==
    ASSUME MapsAgree, RegistryTypeOK, IdsGrow, SameTuning,
           table_ids \in Seq([table : Tables, ver : Nat]),
           UNCHANGED <<id_2_table, table_2_id>>
    PROVE  MapsAgree'
<1>1. \A i \in 1..Len(table_ids) :
        i \in 1..Len(table_ids') /\ table_ids'[i] = table_ids[i]
  BY DEF IdsGrow
<1>2. ASSUME NEW i \in DOMAIN id_2_table
      PROVE  i \in 1..Len(table_ids') /\ table_ids'[i].table = id_2_table[i]
  BY <1>1 DEF MapsAgree
<1>3. ASSUME NEW n \in DOMAIN table_2_id
      PROVE  /\ table_2_id[n] \in 1..Len(table_ids')
             /\ LET t == table_ids'[table_2_id[n]].table IN
                  /\ t \in Watched /\ NameOf[t] = n
                  /\ tables'[t].tuned /\ tables'[t].id = table_2_id[n]
  BY <1>1 DEF MapsAgree, SameTuning
<1>4. ASSUME NEW t \in Watched, tables'[t].tuned
      PROVE  /\ NameOf[t] \in DOMAIN table_2_id
             /\ tables'[t].id \in 1..Len(table_ids')
             /\ table_ids'[tables'[t].id] =
                  [table |-> t, ver |-> tables'[t].ver]
             /\ tables'[t].id \in DOMAIN id_2_table
  <2>1. PICK i, v : i = tables[t].id /\ v = tables[t].ver
    OBVIOUS
  <2>2. tables'[t].id = i /\ tables'[t].ver = v /\ tables[t].tuned
    BY <1>4, <2>1 DEF SameTuning
  <2>3. /\ NameOf[t] \in DOMAIN table_2_id /\ i \in 1..Len(table_ids)
        /\ table_ids[i] = [table |-> t, ver |-> v]
        /\ i \in DOMAIN id_2_table
    BY <2>1, <2>2 DEF MapsAgree
  <2> QED
    BY <1>1, <2>2, <2>3
<1> QED
  BY <1>2, <1>3, <1>4 DEF MapsAgree

\* What a TABLE_MAP event of a watched table makes of its CTable.
LEMMA TableMapTunes ==
    ASSUME RegistryTypeOK, MapsAgree, NEW e \in Event,
           e.table \in Watched, HasOwnId(e), TableMap(e)
    PROVE  /\ id_2_table' = Put(id_2_table, e.id, e.table)
           /\ table_2_id' = Put(table_2_id, NameOf[e.table], e.id)
           /\ tables'[e.table].tuned /\ tables'[e.table].id = e.id
           /\ tables'[e.table].ver = e.ver
           /\ \A t \in Watched : t # e.table => tables'[t] = tables[t]
<1> DEFINE T == [tuned : BOOLEAN, id : Nat, ver : Nat,
                 rows : Nat \X Nat, newRows : Nat \X Nat]
<1>1. PICK old : old = tables[e.table]
  OBVIOUS
<1>2. PICK renewed : renewed = Renewed(old, e)
  OBVIOUS
<1>3. PICK tbl : tbl = Tune(renewed, e)
  OBVIOUS
<1>4. /\ id_2_table' = Put(id_2_table, e.id, e.table)
      /\ table_2_id' = Put(table_2_id, NameOf[e.table], e.id)
      /\ tables' = [tables EXCEPT ![e.table] = tbl]
  BY <1>1, <1>2, <1>3 DEF TableMap
<1>5. old \in T /\ e.id \in Nat /\ e.ver \in Nat
  BY <1>1 DEF RegistryTypeOK, Event
<1>6. tbl.tuned /\ tbl.id = e.id /\ tbl.ver = e.ver
  <2>1. CASE ~renewed.tuned
    <3>1. renewed \in T
      BY <1>2, <1>5 DEF Renewed
    <3>2. tbl = [renewed EXCEPT !.tuned = TRUE, !.id = e.id, !.ver = e.ver]
      BY <1>3, <2>1 DEF Tune
    <3> QED
      BY <3>1, <3>2
  <2>2. CASE renewed.tuned
    <3>1. ~IdChanged(e)
      BY <1>2, <1>5, <2>2 DEF Renewed
    <3>2. renewed = old /\ tbl = old
      BY <1>2, <1>3, <2>2, <3>1 DEF Renewed, Tune
    <3>3. /\ NameOf[e.table] \in DOMAIN table_2_id
          /\ table_ids[old.id] = [table |-> e.table, ver |-> old.ver]
      BY <1>1, <2>2, <3>2 DEF MapsAgree
    <3>4. table_2_id[NameOf[e.table]] = e.id
      BY <3>1, <3>3 DEF IdChanged
    <3>5. table_ids[e.id].table = e.table /\ table_ids[e.id].ver = e.ver
      BY DEF HasOwnId
    <3>6. old.id = e.id
      BY <1>1, <3>3, <3>4, <3>5 DEF MapsAgree
    <3> QED
      BY <2>2, <3>2, <3>3, <3>5, <3>6
  <2> QED
    BY <2>1, <2>2
<1>7. tables \in [Watched -> T]
  BY DEF RegistryTypeOK
<1> HIDE DEF T
<1>8. tables'[e.table] = tbl
  BY <1>4, <1>7
<1>9. \A t \in Watched : t # e.table => tables'[t] = tables[t]
  BY <1>4, <1>7
<1> QED
  BY <1>4, <1>6, <1>8, <1>9

LEMMA TableMapKeepsMaps ==
    ASSUME RegistryTypeOK, MapsAgree, NEW e \in Event, UNCHANGED table_ids,
           e.table \in Watched, HasOwnId(e), TableMap(e)
    PROVE  MapsAgree'
<1>1. PICK a, n, i : a = e.table /\ n = NameOf[a] /\ i = e.id
  OBVIOUS
<1>2. /\ tables'[a].tuned /\ tables'[a].id = i /\ tables'[a].ver = e.ver
      /\ \A t \in Watched : t # a => tables'[t] = tables[t]
      /\ id_2_table' = Put(id_2_table, i, a)
      /\ table_2_id' = Put(table_2_id, n, i)
  BY <1>1, TableMapTunes
<1>3. /\ DOMAIN id_2_table' = DOMAIN id_2_table \union {i}
      /\ id_2_table'[i] = a
      /\ \A j \in DOMAIN id_2_table : j # i => id_2_table'[j] = id_2_table[j]
  BY <1>2 DEF Put
<1>4. /\ DOMAIN table_2_id' = DOMAIN table_2_id \union {n}
      /\ table_2_id'[n] = i
      /\ \A m \in DOMAIN table_2_id : m # n => table_2_id'[m] = table_2_id[m]
  BY <1>2 DEF Put
<1>5. /\ i \in 1..Len(table_ids) /\ a \in Watched
      /\ table_ids[i] = [table |-> a, ver |-> e.ver]
  BY <1>1 DEF HasOwnId
<1>6. ASSUME NEW j \in DOMAIN id_2_table'
      PROVE  j \in 1..Len(table_ids) /\ table_ids[j].table = id_2_table'[j]
  BY <1>3, <1>5 DEF MapsAgree
<1>7. ASSUME NEW m \in DOMAIN table_2_id'
      PROVE  /\ table_2_id'[m] \in 1..Len(table_ids)
             /\ LET t == table_ids[table_2_id'[m]].table IN
                  /\ t \in Watched /\ NameOf[t] = m
                  /\ tables'[t].tuned /\ tables'[t].id = table_2_id'[m]
  <2>1. CASE m = n
    <3>1. table_2_id'[m] = i /\ table_ids[i].table = a
      BY <1>4, <1>5, <2>1
    <3> QED
      BY <1>1, <1>2, <1>5, <2>1, <3>1
  <2>2. CASE m # n
    <3>1. m \in DOMAIN table_2_id /\ table_2_id'[m] = table_2_id[m]
      BY <1>4, <1>7, <2>2
    <3>2. PICK t : t = table_ids[table_2_id[m]].table
      OBVIOUS
    <3>3. /\ table_2_id[m] \in 1..Len(table_ids)
          /\ t \in Watched /\ NameOf[t] = m
          /\ tables[t].tuned /\ tables[t].id = table_2_id[m]
      BY <3>1, <3>2 DEF MapsAgree
    <3>4. tables'[t] = tables[t]
      BY <1>1, <1>2, <2>2, <3>3
    <3> QED
      BY <3>1, <3>2, <3>3, <3>4
  <2> QED
    BY <2>1, <2>2
<1>8. ASSUME NEW t \in Watched, tables'[t].tuned
      PROVE  /\ NameOf[t] \in DOMAIN table_2_id'
             /\ tables'[t].id \in 1..Len(table_ids)
             /\ table_ids[tables'[t].id] =
                  [table |-> t, ver |-> tables'[t].ver]
             /\ tables'[t].id \in DOMAIN id_2_table'
  <2>1. CASE t = a
    BY <1>1, <1>2, <1>3, <1>4, <1>5, <2>1
  <2>2. CASE t # a
    <3>1. tables'[t] = tables[t]
      BY <1>2, <2>2
    <3> QED
      BY <1>3, <1>4, <1>8, <3>1 DEF MapsAgree
  <2> QED
    BY <2>1, <2>2
<1> QED
  BY <1>6, <1>7, <1>8 DEF MapsAgree

-----------------------------------------------------------------------------
(* The registry follows the statement in hand *)

LEMMA RegistryAtStays ==
    ASSUME LogTypeOK, Grows, SameTuning, reported \subseteq reported',
           NEW f \in Nat, NEW k \in Nat,
           OnLog(<<f, k>>), RegistryAt(<<f, k>>)
    PROVE  RegistryAt(<<f, k>>)'
<1>1. f \in 1..Len(files) /\ k \in 1..(Len(files[f]) + 1)
      /\ Len(files[f]) \in Nat
  BY LogNumbers DEF OnLog, LogTypeOK
<1>2. \A j \in 1..(k - 1) : files'[f][j] = files[f][j]
  <2>1. \A j \in 1..Len(files[f]) : files'[f][j] = files[f][j]
    BY <1>1 DEF Grows
  <2> QED
    BY <1>1, <2>1
<1> SUFFICES ASSUME NEW m \in 1..(k - 1),
                    files'[f][m].type = "TABLE_MAP",
                    files'[f][m].table \in Watched,
                    OneStatement(f, m, k - 1)',
                    \A j \in (m + 1)..(k - 1) :
                      ~(files'[f][j].type = "TABLE_MAP"
                          /\ files'[f][j].table = files'[f][m].table)
             PROVE  \/ <<f, m>> \in reported'
                    \/ LET t == files'[f][m].table IN
                         /\ tables'[t].tuned
                         /\ tables'[t].id = files'[f][m].id
  BY DEF RegistryAt
<1>3. files'[f][m] = files[f][m]
  BY <1>2
<1>4. \A j \in (m + 1)..(k - 1) : files'[f][j] = files[f][j]
  BY <1>1, <1>2
<1>5. OneStatement(f, m, k - 1)
  BY <1>1, OneStatementStable
<1>6. \/ <<f, m>> \in reported
      \/ LET t == files[f][m].table IN
           tables[t].tuned /\ tables[t].id = files[f][m].id
  BY <1>3, <1>4, <1>5 DEF RegistryAt
<1> QED
  BY <1>3, <1>6 DEF SameTuning

\* In front of a boundary no statement is open.
LEMMA BoundaryRegistry ==
    ASSUME NEW f \in Nat, NEW k \in Nat, Boundary(<<f, k>>)
    PROVE  RegistryAt(<<f, k>>)
<1> SUFFICES ASSUME NEW m \in 1..(k - 1), OneStatement(f, m, k - 1)
             PROVE  FALSE
  BY DEF RegistryAt
<1>1. k - 1 \in m..(k - 1) /\ k > 1
  OBVIOUS
<1>2. files[f][k - 1].type \notin InStatement
  BY <1>1 DEF Boundary
<1> QED
  BY <1>1, <1>2 DEF OneStatement

\* What handling the event at <<f, k>> has to do for the registry.
FollowsEvent(f, k) ==
    /\ reported \subseteq reported'
    /\ \A t \in Watched :
         \/ /\ files[f][k].type = "TABLE_MAP"
            /\ files[f][k].table = t
            /\ \/ <<f, k>> \in reported'
               \/ tables'[t].tuned /\ tables'[t].id = files[f][k].id
         \/ /\ files[f][k].type = "TABLE_MAP" => files[f][k].table # t
            /\ tables'[t].tuned = tables[t].tuned
            /\ tables'[t].id = tables[t].id

LEMMA NextRegistryAt ==
    ASSUME LogTypeOK, UNCHANGED binlogVars,
           NEW f \in Nat, NEW k \in Nat, InLog(f, k),
           RegistryAt(<<f, k>>), FollowsEvent(f, k)
    PROVE  RegistryAt(<<f, k + 1>>)'
<1>1. files' = files
  BY DEF binlogVars
<1>2. PICK ev : ev = files[f][k]
  OBVIOUS
<1> SUFFICES ASSUME NEW m \in 1..k,
                    files[f][m].type = "TABLE_MAP",
                    files[f][m].table \in Watched,
                    OneStatement(f, m, k),
                    \A j \in (m + 1)..k :
                      ~(files[f][j].type = "TABLE_MAP"
                          /\ files[f][j].table = files[f][m].table)
             PROVE  \/ <<f, m>> \in reported'
                    \/ LET t == files[f][m].table IN
                         /\ tables'[t].tuned
                         /\ tables'[t].id = files[f][m].id
  <2>1. (k + 1) - 1 = k
    OBVIOUS
  <2> QED
    BY <1>1, <2>1 DEF RegistryAt, OneStatement
<1>3. PICK t : t = files[f][m].table
  OBVIOUS
<1>4. CASE m = k
  BY <1>3, <1>4 DEF FollowsEvent
<1>5. CASE m # k
  <2>1. m \in 1..(k - 1) /\ k \in (m + 1)..k
    BY <1>5
  <2>2. OneStatement(f, m, k - 1)
    BY DEF OneStatement
  <2>3. \A j \in (m + 1)..(k - 1) :
          ~(files[f][j].type = "TABLE_MAP" /\ files[f][j].table = t)
    BY <1>3
  <2>4. \/ <<f, m>> \in reported
        \/ tables[t].tuned /\ tables[t].id = files[f][m].id
    BY <1>3, <2>1, <2>2, <2>3 DEF RegistryAt
  <2>5. ~(ev.type = "TABLE_MAP" /\ ev.table = t)
    BY <1>2, <1>3, <2>1
  <2>6. /\ tables'[t].tuned = tables[t].tuned
        /\ tables'[t].id = tables[t].id
    BY <1>2, <1>3, <2>5 DEF FollowsEvent
  <2> QED
    BY <1>3, <2>4, <2>6 DEF FollowsEvent
<1> QED
  BY <1>4, <1>5

LEMMA SameTuningFollows ==
    ASSUME SameTuning, reported \subseteq reported', NEW f, NEW k,
           \/ files[f][k].type # "TABLE_MAP"
           \/ <<f, k>> \in reported'
    PROVE  FollowsEvent(f, k)
BY DEF SameTuning, FollowsEvent

\* No event of the log is in hand afterwards: the server is where it was, or
\* it begins in front of a statement.
LEMMA WaitingFollows ==
    ASSUME Quiet, TypeOK', RegistryFollows, SameTuning,
           reported \subseteq reported', ~HoldsLogEvent',
           conn'.st = "dump" =>
             \/ Boundary(Cursor)'
             \/ conn.st = "dump" /\ ~HoldsLogEvent /\ Cursor' = Cursor
    PROVE  RegistryFollows'
<1> LogTypeOK /\ LogInv /\ SessionTypeOK'
  BY TypeParts DEF Quiet, TypeOK, SessionTypeOK, Resume
<1> SUFFICES ASSUME conn'.st = "dump" PROVE RegistryAt(Cursor)'
  BY DEF RegistryFollows
<1>1. PICK f \in Nat, k \in Nat : f = conn'.file /\ k = conn'.off
  BY DEF SessionTypeOK, Connection
<1>2. Cursor' = <<f, k>>
  BY <1>1 DEF Cursor
<1>3. Grows
  BY LogUnchanged DEF Quiet
<1>4. OnLog(<<f, k>>) /\ RegistryAt(<<f, k>>)
  <2>1. CASE Boundary(Cursor)'
    <3>1. Boundary(<<f, k>>)
      BY <1>2, <2>1 DEF Boundary, OnLog, Quiet, binlogVars
    <3> QED
      BY <3>1, BoundaryRegistry DEF Boundary
  <2>2. CASE conn.st = "dump" /\ ~HoldsLogEvent /\ Cursor' = Cursor
    <3>1. Cursor = <<f, k>>
      BY <1>2, <2>2
    <3> QED
      BY <2>2, <3>1 DEF RegistryFollows, Quiet, SessionInv, DumpInv
  <2> QED
    BY <2>1, <2>2
<1>5. RegistryAt(<<f, k>>)'
  BY <1>3, <1>4, RegistryAtStays
<1> QED
  BY <1>2, <1>5 DEF RegistryAt, OneStatement

\* The packet in hand is dealt with.
LEMMA HandledFollows ==
    ASSUME Quiet, RegistryFollows, pc = "handle", pc' # "handle",
           conn' \in {conn, NoConnection},
           buf.at = NoPos => SameTuning /\ reported \subseteq reported',
           buf.at # NoPos => FollowsEvent(buf.at[1], buf.at[2])
    PROVE  RegistryFollows'
<1> LogTypeOK /\ LogInv /\ SessionTypeOK /\ HistoryTypeOK
  BY TypeParts DEF Quiet
<1> SUFFICES ASSUME conn' = conn, conn.st = "dump"
             PROVE  RegistryAt(Cursor)'
  BY DEF RegistryFollows, HoldsLogEvent, NoConnection
<1>1. Cursor' = Cursor
  BY DEF Cursor
<1>2. CASE buf.at = NoPos
  <2>1. PICK f \in Nat, k \in Nat : Cursor = <<f, k>>
    BY DEF Cursor, SessionTypeOK, Connection
  <2>2. OnLog(<<f, k>>) /\ RegistryAt(<<f, k>>)
    BY <1>2, <2>1 DEF RegistryFollows, HoldsLogEvent, Quiet, SessionInv,
                      DumpInv
  <2>3. Grows
    BY LogUnchanged DEF Quiet
  <2>4. RegistryAt(<<f, k>>)'
    BY <1>2, <2>2, <2>3, RegistryAtStays
  <2> QED
    BY <1>1, <2>1, <2>4 DEF RegistryAt, OneStatement
<1>3. CASE buf.at # NoPos
  <2>1. PICK f \in Nat, k \in Nat : buf.at = <<f, k>>
    BY DEF HistoryTypeOK, Packet
  <2>2. InLog(f, k) /\ Cursor = <<f, k + 1>>
    BY <1>3, <2>1, PacketInHand
  <2>3. RegistryAt(<<f, k>>) /\ FollowsEvent(f, k)
    BY <1>3, <2>1 DEF RegistryFollows, HoldsLogEvent
  <2>4. RegistryAt(<<f, k + 1>>)'
    BY <2>2, <2>3, NextRegistryAt DEF Quiet
  <2> QED
    BY <1>1, <2>2, <2>4 DEF RegistryAt, OneStatement
<1> QED
  BY <1>2, <1>3

\* What the next lemmas need of a step that leaves the log alone.
Following == Quiet /\ TypeOK' /\ SessionInv' /\ RegistryInv

\* What refuses an event reports it; only the sanity check refuses what is not
\* a ROWS event or unknown.
LEMMA RefusalReported ==
    ASSUME Quiet, HandleRefused \/ HandleWideRows
    PROVE  /\ reported \subseteq reported'
           /\ buf.at # NoPos => buf.at \in reported'
           /\ \A p \in reported' \ reported :
                /\ p = buf.at /\ InLog(p[1], p[2]) /\ buf.ev = EventAt(p)
                /\ buf.ev.type = "TABLE_MAP" => "header" \in Faults
<1>1. pc = "handle"
  BY DEF HandleRefused, HandleWideRows, Handling
<1>2. buf.at # NoPos =>
        InLog(buf.at[1], buf.at[2]) /\ buf.ev = EventAt(buf.at)
  BY <1>1, PacketInHand
<1>3. buf.damage = "header" => buf.at = NoPos \/ "header" \in Faults
  BY <1>1, PacketInHand DEF Quiet, SessionInv, PacketInv, HoldsLogEvent
<1>4. reported' = IF buf.at = NoPos THEN reported
                  ELSE reported \union {buf.at}
  BY DEF HandleRefused, HandleWideRows, Throw
<1>5. buf.damage = "header" \/ buf.ev.type \in {"UNSUPPORTED", "ROWS"}
  BY DEF HandleRefused, HandleWideRows, Handling
<1> QED
  BY <1>2, <1>3, <1>4, <1>5

\* An exception behind the switch is about damaged rows.
LEMMA FinishReported ==
    ASSUME Quiet, pc = "handle", Finish
    PROVE  /\ reported \subseteq reported'
           /\ \A p \in reported' \ reported :
                /\ p = buf.at /\ InLog(p[1], p[2]) /\ buf.ev = EventAt(p)
                /\ buf.ev.type = "ROWS"
<1>1. CASE ChecksumMismatch
  <2>1. buf.damage = "body"
    BY <1>1 DEF ChecksumMismatch
  <2>2. buf.at # NoPos /\ buf.ev.type = "ROWS"
    BY <2>1, PacketInHand DEF Quiet, SessionInv, PacketInv, HoldsLogEvent
  <2>3. InLog(buf.at[1], buf.at[2]) /\ buf.ev = EventAt(buf.at)
    BY <2>2, PacketInHand
  <2>4. reported' = reported \union {buf.at}
    BY <1>1, <2>2 DEF Finish, Throw
  <2> QED
    BY <2>2, <2>3, <2>4
<1>2. CASE ~ChecksumMismatch
  BY <1>2 DEF Finish
<1> QED
  BY <1>1, <1>2

LEMMA RefusedMapsKept ==
    ASSUME LogTypeOK, Grows, RefusedMaps,
           \A p \in reported' \ reported :
              /\ InLog(p[1], p[2])
              /\ EventAt(p).type = "TABLE_MAP" => "header" \in Faults
    PROVE  RefusedMaps'
<1> SUFFICES ASSUME NEW p \in reported'
             PROVE  /\ InLog(p[1], p[2])'
                    /\ "header" \notin Faults => EventAt(p)'.type # "TABLE_MAP"
  BY DEF RefusedMaps, InLog, EventAt
<1>1. /\ InLog(p[1], p[2])
      /\ "header" \notin Faults => EventAt(p).type # "TABLE_MAP"
  BY DEF RefusedMaps
<1>2. InLog(p[1], p[2])' /\ EventAt(p)' = EventAt(p)
  BY <1>1, PositionsStay
<1> QED
  BY <1>1, <1>2

\* Steps of the session, which touch neither tables nor packets in hand.
LEMMA ConnectingFollows ==
    ASSUME Following, UNCHANGED registryVars,
           \/ SetBinlogPosition \/ Prepare \/ AppLoop \/ LoopHead \/ Connect
           \/ ConnectFails \/ HookFails \/ RequestBinlogDump
           \/ RequestBinlogDumpFails \/ ReadFails \/ ReadStopped
    PROVE  RegistryFollows' /\ reported' = reported
<1> Quiet /\ RegistryFollows /\ SameTuning
  BY SameTablesSameTuning DEF Following, RegistryInv, registryVars
<1> SessionTypeOK /\ SessionTypeOK'
  BY TypeParts DEF Following, Quiet, TypeOK, SessionTypeOK, Resume
<1>1. /\ reported' = reported /\ pc # "handle" /\ pc' # "handle"
      /\ SetBinlogPosition => pc = "init"
  BY DEF SetBinlogPosition, Prepare, AppLoop, LoopHead, Connect,
         ConnectFails, HookFails, RequestBinlogDump, RequestBinlogDumpFails,
         ReadFails, ReadStopped, Throw, historyVars
<1>2. \/ conn' = conn
      \/ conn'.st # "dump"
      \/ conn'.head = "rotate" /\ pc' # "init"
  BY DEF SetBinlogPosition, Prepare, AppLoop, LoopHead, Connect,
         ConnectFails, HookFails, RequestBinlogDump, RequestBinlogDumpFails,
         ReadFails, ReadStopped, ServerDumpsFrom, NoConnection,
         Connection, SessionTypeOK
<1>3. conn'.st = "dump" =>
        \/ Boundary(Cursor)'
        \/ conn.st = "dump" /\ ~HoldsLogEvent /\ Cursor' = Cursor
  <2>1. CASE conn' = conn
    BY <1>1, <2>1 DEF HoldsLogEvent, Cursor
  <2>2. CASE conn'.st = "dump" /\ conn'.head = "rotate" /\ pc' # "init"
    <3>1. Cursor' = Resume' /\ Boundary(Resume)'
      BY <2>2 DEF Following, SessionInv, DumpInv, PositionsInv
    <3> QED
      BY <3>1 DEF Boundary, OnLog
  <2> QED
    BY <1>2, <2>1, <2>2
<1> QED
  BY <1>1, <1>3, WaitingFollows DEF HoldsLogEvent, Following

LEMMA BreakingFollows ==
    ASSUME Following, UNCHANGED registryVars, Drop \/ StopEventLoop
    PROVE  RegistryFollows' /\ reported' = reported
<1> LogTypeOK /\ LogInv /\ Quiet /\ RegistryFollows /\ SameTuning
  BY TypeParts, SameTablesSameTuning
     DEF Following, Quiet, RegistryInv, registryVars
<1> SessionTypeOK /\ HistoryTypeOK
  BY TypeParts DEF Quiet
<1>1. /\ UNCHANGED <<pc, buf, reported>> /\ conn'.st # "dump"
  BY DEF Drop, StopEventLoop, historyVars, SessionTypeOK, Connection
<1>2. SUFFICES ASSUME HoldsLogEvent PROVE RegistryAt(buf.at)'
  BY <1>1 DEF RegistryFollows, HoldsLogEvent
<1>3. PICK f \in Nat, k \in Nat : buf.at = <<f, k>>
  BY DEF HistoryTypeOK, Packet
<1>4. InLog(f, k) /\ RegistryAt(<<f, k>>)
  BY <1>2, <1>3 DEF RegistryFollows, Quiet, SessionInv, PacketInv
<1>5. OnLog(<<f, k>>) /\ Grows
  <2>1. Len(files[f]) \in Nat
    BY <1>4, LogNumbers DEF InLog, LogTypeOK
  <2> QED
    BY <1>4, <2>1, LogUnchanged DEF InLog, OnLog, Quiet
<1>6. RegistryAt(<<f, k>>)'
  BY <1>1, <1>4, <1>5, RegistryAtStays
<1> QED
  BY <1>1, <1>3, <1>6 DEF RegistryAt, OneStatement

LEMMA ReadingFollows ==
    ASSUME Following, UNCHANGED registryVars,
           ReadFileName \/ ReadFormatDescription \/ ReadEvent
    PROVE  RegistryFollows' /\ reported' = reported
<1> LogTypeOK /\ LogInv /\ Quiet /\ RegistryFollows /\ SameTuning
  BY TypeParts, SameTablesSameTuning
     DEF Following, Quiet, RegistryInv, registryVars
<1> SessionTypeOK
  BY TypeParts DEF Quiet
<1>1. /\ pc = "read" /\ pc' = "handle" /\ conn.st = "dump"
      /\ reported' = reported
  BY DEF ReadFileName, ReadFormatDescription, ReadEvent, Receive, historyVars
<1>2. RegistryAt(Cursor) /\ OnLog(Cursor)
  BY <1>1 DEF RegistryFollows, HoldsLogEvent, Quiet, SessionInv, DumpInv
<1>3. CASE ReadFileName
  <2>1. /\ buf'.at = NoPos /\ buf'.ev.type = "ROTATE" /\ conn'.head = "fde"
        /\ conn'.st = "dump"
    BY <1>3 DEF ReadFileName, NoPacket, Plain
  <2>2. Boundary(buf.to)' /\ buf'.to = Cursor'
    BY <1>1, <2>1 DEF Following, SessionInv, PacketInv, DumpInv
  <2>3. Boundary(Cursor)'
    BY <2>2 DEF Boundary, OnLog
  <2> QED
    BY <1>1, <2>1, <2>3, WaitingFollows DEF HoldsLogEvent, Following
<1>4. CASE ReadFormatDescription
  <2>1. buf'.at = NoPos /\ Cursor' = Cursor
    BY <1>4 DEF ReadFormatDescription, NoPacket, Cursor, SessionTypeOK,
                Connection
  <2> QED
    BY <1>1, <2>1, WaitingFollows DEF HoldsLogEvent, Following
<1>5. CASE ReadEvent
  <2>1. buf'.at = Cursor /\ InLog(conn.file, conn.off)
    BY <1>5 DEF ReadEvent
  <2>2. buf'.at # NoPos
    BY <2>1 DEF Cursor, NoPos, InLog
  <2>3. PICK f \in Nat, k \in Nat : Cursor = <<f, k>>
    BY DEF Cursor, SessionTypeOK, Connection
  <2>4. Grows
    BY LogUnchanged DEF Quiet
  <2>5. RegistryAt(<<f, k>>)'
    BY <1>1, <1>2, <2>3, <2>4, RegistryAtStays
  <2>6. RegistryAt(buf.at)'
    BY <2>1, <2>3, <2>5 DEF RegistryAt, OneStatement
  <2> QED
    BY <1>1, <2>2, <2>6 DEF RegistryFollows, HoldsLogEvent
<1> QED
  BY <1>1, <1>3, <1>4, <1>5

\* Packets that leave the tables alone.
LEMMA RefusingFollows ==
    ASSUME Following, UNCHANGED registryVars, HandleRefused \/ HandleWideRows
    PROVE  RegistryFollows'
<1> Quiet /\ RegistryFollows /\ SameTuning
  BY SameTablesSameTuning DEF Following, RegistryInv, registryVars
<1> HistoryTypeOK
  BY TypeParts DEF Quiet
<1>1. pc = "handle" /\ pc' = "app" /\ conn' = conn
  BY DEF HandleRefused, HandleWideRows, Handling, Throw
<1>2. /\ reported \subseteq reported'
      /\ buf.at # NoPos => buf.at \in reported'
  BY RefusalReported
<1>3. buf.at = <<buf.at[1], buf.at[2]>>
  BY DEF HistoryTypeOK, Packet
<1>4. buf.at # NoPos => FollowsEvent(buf.at[1], buf.at[2])
  BY <1>2, <1>3, SameTuningFollows
<1> QED
  BY <1>1, <1>2, <1>4, HandledFollows

LEMMA PassingFollows ==
    ASSUME Following, SameTuning, pc = "handle", pc' # "handle",
           conn' \in {conn, NoConnection}, reported \subseteq reported',
           buf.ev.type # "TABLE_MAP"
    PROVE  RegistryFollows'
<1> Quiet /\ RegistryFollows
  BY DEF Following, RegistryInv
<1>1. buf.at # NoPos => buf.ev = files[buf.at[1]][buf.at[2]]
  BY PacketInHand DEF EventAt
<1>2. buf.at # NoPos => FollowsEvent(buf.at[1], buf.at[2])
  BY <1>1, SameTuningFollows
<1> QED
  BY <1>2, HandledFollows

LEMMA QuietKeepsIds ==
    ASSUME LogTypeOK, IdsAreUnique, UNCHANGED binlogVars
    PROVE  IdsAreUnique' /\ IdsGrow
<1>1. UNCHANGED <<files, table_ids, mapped, schema>>
  BY DEF binlogVars
<1> QED
  BY <1>1, SameIdsGrow DEF IdsAreUnique

LEMMA PlainlyKeepsRegistry ==
    ASSUME Following, Plainly
    PROVE  RegistryInv'
<1> Quiet /\ TypeOK' /\ IdsAreUnique /\ MapsAgree /\ RefusedMaps
  BY DEF Following, RegistryInv
<1> LogTypeOK /\ LogInv /\ RegistryTypeOK
  BY TypeParts DEF Quiet
<1>1. UNCHANGED registryVars /\ SameTuning
  BY PlainlyUnchanged, SameTablesSameTuning DEF registryVars
<1>2. Grows
  BY LogUnchanged DEF Quiet
<1>3. IdsAreUnique' /\ IdsGrow
  BY QuietKeepsIds DEF Quiet
<1>4. MapsAgree'
  BY <1>1, <1>3, MapsStay DEF registryVars, LogTypeOK
<1>5. RegistryFollows' /\ RefusedMaps'
  <2>1. CASE \/ SetBinlogPosition \/ Prepare \/ AppLoop \/ LoopHead
             \/ Connect \/ ConnectFails \/ HookFails \/ RequestBinlogDump
             \/ RequestBinlogDumpFails \/ Drop \/ StopEventLoop \/ Reading
    <3>1. RegistryFollows' /\ reported' = reported
      BY <1>1, <2>1, ConnectingFollows, BreakingFollows, ReadingFollows
         DEF Reading
    <3> QED
      BY <1>2, <3>1, RefusedMapsKept
  <2>2. CASE HandleRefused \/ HandleWideRows
    <3>1. RegistryFollows'
      BY <1>1, <2>2, RefusingFollows
    <3>2. \A p \in reported' \ reported :
             /\ InLog(p[1], p[2])
             /\ EventAt(p).type = "TABLE_MAP" => "header" \in Faults
      BY <2>2, RefusalReported
    <3> QED
      BY <1>2, <3>1, <3>2, RefusedMapsKept
  <2>3. CASE \/ HandleRotate \/ HandleFormatDescription \/ HandleQuery
             \/ HandleLongQuery \/ HandleOther
    <3>1. pc = "handle" /\ Finish /\ buf.ev.type # "TABLE_MAP"
      BY <2>3 DEF HandleRotate, HandleFormatDescription, HandleQuery,
                  HandleLongQuery, HandleOther, Handling
    <3>2. pc' # "handle" /\ conn' \in {conn, NoConnection}
      BY <3>1, FinishEnds
    <3>3. /\ reported \subseteq reported'
          /\ \A p \in reported' \ reported :
                /\ InLog(p[1], p[2])
                /\ EventAt(p).type = "TABLE_MAP" => "header" \in Faults
      BY <3>1, FinishReported
    <3>4. RegistryFollows'
      BY <1>1, <3>1, <3>2, <3>3, PassingFollows
    <3> QED
      BY <1>2, <3>3, <3>4, RefusedMapsKept
  <2> QED
    BY <2>1, <2>2, <2>3 DEF Plainly
<1> QED
  BY <1>3, <1>4, <1>5 DEF RegistryInv

\* A TABLE_MAP event in hand.
LEMMA TableMapKeepsRegistry ==
    ASSUME Following, HandleTableMap
    PROVE  RegistryInv'
<1> /\ Quiet /\ TypeOK' /\ IdsAreUnique /\ MapsAgree /\ RefusedMaps
    /\ RegistryFollows
  BY DEF Following, RegistryInv
<1> LogTypeOK /\ LogInv /\ RegistryTypeOK /\ HistoryTypeOK
  BY TypeParts DEF Quiet
<1>1. /\ pc = "handle" /\ buf.ev.type = "TABLE_MAP"
      /\ TableMap(buf.ev) /\ Finish
  BY DEF HandleTableMap, Handling
<1>2. PICK f \in Nat, k \in Nat : buf.at = <<f, k>>
  BY DEF HistoryTypeOK, Packet
<1>3. PICK e : e = buf.ev
  OBVIOUS
<1>4. /\ buf.at # NoPos /\ InLog(f, k) /\ e = files[f][k]
  BY <1>1, <1>2, <1>3, PacketInHand DEF EventAt
<1>5. e \in Event /\ HasOwnId(e) /\ e.type = "TABLE_MAP"
  BY <1>1, <1>3, <1>4, IdParts
     DEF HistoryTypeOK, Packet, StoredIds, InLog, InStatement
<1>6. Grows /\ IdsAreUnique' /\ IdsGrow
  BY LogUnchanged, QuietKeepsIds DEF Quiet
<1>7. pc' # "handle" /\ conn' \in {conn, NoConnection}
  BY <1>1, FinishEnds
<1>8. /\ reported \subseteq reported'
      /\ \A p \in reported' \ reported :
            /\ InLog(p[1], p[2])
            /\ EventAt(p).type = "TABLE_MAP" => "header" \in Faults
  BY <1>1, FinishReported
<1>9. RefusedMaps'
  BY <1>6, <1>8, RefusedMapsKept
<1>10. CASE e.table \notin Watched
  <2>1. UNCHANGED registryVars
    BY <1>1, <1>3, <1>10 DEF TableMap
  <2>2. SameTuning
    BY <2>1, SameTablesSameTuning DEF registryVars
  <2>3. MapsAgree'
    BY <1>6, <2>1, <2>2, MapsStay DEF registryVars, LogTypeOK
  <2>4. FollowsEvent(f, k)
    BY <1>4, <1>8, <1>10, <2>2 DEF FollowsEvent, SameTuning
  <2>5. RegistryFollows'
    BY <1>1, <1>2, <1>4, <1>7, <2>4, HandledFollows
  <2> QED
    BY <1>6, <1>9, <2>3, <2>5 DEF RegistryInv
<1>11. CASE e.table \in Watched
  <2>1. TableMap(e)
    BY <1>1, <1>3
  <2>2. MapsAgree'
    BY <1>5, <1>11, <2>1, TableMapKeepsMaps DEF Quiet, binlogVars
  <2>3. /\ tables'[e.table].tuned /\ tables'[e.table].id = e.id
        /\ \A t \in Watched : t # e.table => tables'[t] = tables[t]
    BY <1>5, <1>11, <2>1, TableMapTunes
  <2>4. FollowsEvent(f, k)
    BY <1>4, <1>5, <1>8, <2>3 DEF FollowsEvent
  <2>5. RegistryFollows'
    BY <1>1, <1>2, <1>4, <1>7, <2>4, HandledFollows
  <2> QED
    BY <1>6, <1>9, <2>2, <2>5 DEF RegistryInv
<1> QED
  BY <1>10, <1>11

\* ROWS events, whether or not their table is known and the callback throws.
LEMMA RowsKeepRegistry ==
    ASSUME Following, HandleRows \/ CallbackFails
    PROVE  RegistryInv'
<1> /\ Quiet /\ TypeOK' /\ IdsAreUnique /\ MapsAgree /\ RefusedMaps
  BY DEF Following, RegistryInv
<1> LogTypeOK /\ LogInv /\ RegistryTypeOK /\ HistoryTypeOK
  BY TypeParts DEF Quiet
<1>1. /\ pc = "handle" /\ buf.ev.type = "ROWS"
      /\ \/ KnownId(buf.ev) /\ Deliver
         \/ UNCHANGED registryVars
      /\ Finish \/ (Throw(buf.at) /\ UNCHANGED conn)
  BY DEF HandleRows, CallbackFails, Handling
<1>2. SameTuning /\ UNCHANGED <<id_2_table, table_2_id>>
  BY <1>1, DeliverKeepsTuning, SameTablesSameTuning DEF registryVars
<1>3. Grows /\ IdsAreUnique' /\ IdsGrow
  BY LogUnchanged, QuietKeepsIds DEF Quiet
<1>4. MapsAgree'
  BY <1>2, <1>3, MapsStay DEF LogTypeOK
<1>5. pc' # "handle" /\ conn' \in {conn, NoConnection}
  BY <1>1, FinishEnds DEF Throw
<1>6. buf.at # NoPos =>
        InLog(buf.at[1], buf.at[2]) /\ buf.ev = EventAt(buf.at)
  BY <1>1, PacketInHand
<1>7. /\ reported \subseteq reported'
      /\ \A p \in reported' \ reported :
            /\ InLog(p[1], p[2])
            /\ EventAt(p).type = "TABLE_MAP" => "header" \in Faults
  <2>1. CASE Finish
    BY <1>1, <2>1, FinishReported
  <2>2. CASE Throw(buf.at)
    <3>1. reported' = IF buf.at = NoPos THEN reported
                      ELSE reported \union {buf.at}
      BY <2>2 DEF Throw
    <3> QED
      BY <1>1, <1>6, <3>1
  <2> QED
    BY <1>1, <2>1, <2>2
<1>8. RefusedMaps'
  BY <1>3, <1>7, RefusedMapsKept
<1>9. RegistryFollows'
  BY <1>1, <1>2, <1>5, <1>7, PassingFollows
<1> QED
  BY <1>3, <1>4, <1>8, <1>9 DEF RegistryInv

\* The log grows behind the statement in hand.
LEMMA MasterKeepsRegistry ==
    ASSUME CrashInv, RegistryInv, TypeOK', Grows,
           IdsAreUnique', IdsGrow,
           UNCHANGED <<registryVars, sessionVars, pc, buf, conn, historyVars>>
    PROVE  RegistryInv'
<1> TypeOK /\ LogInv /\ SessionInv
  BY DEF CrashInv
<1> LogTypeOK /\ RegistryTypeOK /\ SessionTypeOK /\ HistoryTypeOK
  BY TypeParts
<1> IdsAreUnique /\ MapsAgree /\ RefusedMaps /\ RegistryFollows
  BY DEF RegistryInv
<1>1. /\ SameTuning /\ UNCHANGED <<id_2_table, table_2_id, reported>>
      /\ UNCHANGED <<pc, buf, conn>>
  BY SameTablesSameTuning DEF registryVars, historyVars
<1>2. MapsAgree'
  BY <1>1, MapsStay DEF LogTypeOK
<1>3. RefusedMaps'
  BY <1>1, RefusedMapsKept
<1>4. ASSUME conn.st = "dump", ~HoldsLogEvent
      PROVE  RegistryAt(Cursor)'
  <2>1. PICK f \in Nat, k \in Nat : Cursor = <<f, k>>
    BY DEF Cursor, SessionTypeOK, Connection
  <2>2. OnLog(<<f, k>>) /\ RegistryAt(<<f, k>>)
    BY <1>4, <2>1 DEF RegistryFollows, SessionInv, DumpInv
  <2>3. RegistryAt(<<f, k>>)'
    BY <1>1, <2>2, RegistryAtStays
  <2> QED
    BY <1>1, <2>1, <2>3 DEF RegistryAt, OneStatement, Cursor
<1>5. ASSUME HoldsLogEvent
      PROVE  RegistryAt(buf.at)'
  <2>1. PICK f \in Nat, k \in Nat : buf.at = <<f, k>>
    BY DEF HistoryTypeOK, Packet
  <2>2. InLog(f, k) /\ RegistryAt(<<f, k>>)
    BY <1>5, <2>1 DEF RegistryFollows, SessionInv, PacketInv
  <2>3. OnLog(<<f, k>>)
    BY <2>2, LogNumbers DEF InLog, OnLog, LogTypeOK
  <2>4. RegistryAt(<<f, k>>)'
    BY <1>1, <2>2, <2>3, RegistryAtStays
  <2> QED
    BY <1>1, <2>1, <2>4 DEF RegistryAt, OneStatement
<1>6. RegistryFollows'
  BY <1>1, <1>4, <1>5 DEF RegistryFollows, HoldsLogEvent
<1> QED
  BY <1>2, <1>3, <1>6 DEF RegistryInv

LEMMA RegistryStep ==
    ASSUME CrashInv, RegistryInv, [Next]_vars
    PROVE  RegistryInv'
<1> TypeOK /\ LogInv /\ SessionInv
  BY DEF CrashInv
<1> LogTypeOK
  BY TypeParts
<1>1. TypeOK' /\ SessionInv' /\ Grows
  BY SessionStep, TypeStep, NextCases DEF CrashInv
<1>2. CASE Plainly
  BY <1>1, <1>2, PlainlyUnchanged, PlainlyKeepsRegistry DEF Following, Quiet
<1>3. CASE HandleTableMap \/ HandleRows \/ CallbackFails
  <2>1. UNCHANGED binlogVars
    BY <1>3 DEF HandleTableMap, HandleRows, CallbackFails, Handling
  <2> QED
    BY <1>1, <1>3, <2>1, TableMapKeepsRegistry, RowsKeepRegistry
       DEF Following, Quiet
<1>4. CASE Master
  <2>1. IdsAreUnique' /\ IdsGrow
    BY <1>4, MasterKeepsIds DEF Master, RegistryInv
  <2> QED
    BY <1>1, <1>4, <2>1, MasterKeepsRegistry DEF Master
<1>5. CASE UNCHANGED vars
  <2>1. IdsAreUnique' /\ IdsGrow
    BY <1>5, QuietKeepsIds DEF vars, RegistryInv
  <2> QED
    BY <1>1, <1>5, <2>1, MasterKeepsRegistry DEF vars
<1> QED
  BY <1>2, <1>3, <1>4, <1>5, NextCases

LEMMA RegistryInvInit ==
    ASSUME Init
    PROVE  RegistryInv
<1>1. LogTypeOK /\ files = << <<>> >>
  BY LogInit DEF Init, BinlogInit
<1>2. IdsAreUnique
  BY <1>1 DEF Init, BinlogInit, IdsAreUnique
<1>3. MapsAgree
  BY DEF Init, RegistryInit, MapsAgree
<1>4. RegistryFollows /\ RefusedMaps
  BY DEF Init, ReplicationInit, NoConnection, RegistryFollows, RefusedMaps,
         HoldsLogEvent
<1> QED
  BY <1>2, <1>3, <1>4 DEF RegistryInv

-----------------------------------------------------------------------------
(* Rows and their tables *)

\* Rows in hand of a watched table: the registry has the table under their id
\* and definition, or its TABLE_MAP event was refused.
LEMMA RowsInHand ==
    ASSUME CrashInv, RegistryInv, HoldsLogEvent,
           EventAt(buf.at).type = "ROWS", EventAt(buf.at).table \in Watched
    PROVE  LET ev == EventAt(buf.at) IN
             \/ \E m \in reported : IsTableMapOf(m, buf.at)
             \/ /\ tables[ev.table].id = ev.id
                /\ tables[ev.table].ver = ev.ver
                /\ ev.id \in DOMAIN id_2_table
                /\ id_2_table[ev.id] = ev.table
<1> TypeOK /\ LogInv /\ SessionInv /\ IdsAreUnique /\ MapsAgree
    /\ RegistryFollows
  BY DEF CrashInv, RegistryInv
<1> LogTypeOK /\ HistoryTypeOK
  BY TypeParts
<1>1. PICK f \in Nat, k \in Nat : buf.at = <<f, k>>
  BY DEF HistoryTypeOK, Packet
<1>2. PICK ev : ev = EventAt(buf.at)
  OBVIOUS
<1>3. InLog(f, k) /\ ev = files[f][k] /\ RegistryAt(<<f, k>>)
  BY <1>1, <1>2 DEF SessionInv, PacketInv, RegistryFollows, EventAt
<1>4. f \in 1..Len(files) /\ k \in 1..Len(files[f]) /\ ev.type = "ROWS"
  BY <1>2, <1>3 DEF InLog
<1>5. PICK m \in 1..k : /\ IsTableMapOf(<<f, m>>, <<f, k>>)
                        /\ OneStatement(f, m, k)
  BY <1>3, <1>4 DEF LogInv, RowsAreMapped
<1>6. /\ m < k /\ files[f][m].type = "TABLE_MAP"
      /\ files[f][m].id = ev.id /\ files[f][m].table = ev.table
      /\ \A j \in (m + 1)..(k - 1) :
           ~(files[f][j].type = "TABLE_MAP" /\ files[f][j].table = ev.table)
  BY <1>3, <1>5 DEF IsTableMapOf, EventAt
<1>7. OneStatement(f, m, k - 1) /\ m \in 1..(k - 1)
  BY <1>5, <1>6 DEF OneStatement
<1>8. ev.table \in Watched
  BY <1>2
<1>9. \/ <<f, m>> \in reported
      \/ tables[ev.table].tuned /\ tables[ev.table].id = ev.id
  <2>1. PICK t : t = ev.table
    OBVIOUS
  <2>2. /\ files[f][m].type = "TABLE_MAP" /\ files[f][m].table = t
        /\ files[f][m].id = ev.id /\ t \in Watched
        /\ \A j \in (m + 1)..(k - 1) :
             ~(files[f][j].type = "TABLE_MAP" /\ files[f][j].table = t)
    BY <1>6, <1>8, <2>1
  <2>3. \/ <<f, m>> \in reported
        \/ tables[t].tuned /\ tables[t].id = ev.id
    BY <1>3, <1>7, <2>2 DEF RegistryAt
  <2> QED
    BY <2>1, <2>3
<1>10. CASE <<f, m>> \in reported
  BY <1>1, <1>5, <1>10
<1>11. CASE tables[ev.table].tuned /\ tables[ev.table].id = ev.id
  <2>1. HasOwnId(ev)
    BY <1>3, <1>4, IdParts DEF StoredIds, InStatement
  <2>2. /\ table_ids[ev.id] = [table |-> ev.table,
                               ver   |-> tables[ev.table].ver]
        /\ ev.id \in DOMAIN id_2_table
    BY <1>8, <1>11 DEF MapsAgree
  <2>3. table_ids[ev.id] = [table |-> ev.table, ver |-> ev.ver]
    BY <2>1 DEF HasOwnId
  <2>4. id_2_table[ev.id] = table_ids[ev.id].table
    BY <2>2 DEF MapsAgree
  <2>5. tables[ev.table].ver = ev.ver /\ id_2_table[ev.id] = ev.table
    BY <2>2, <2>3, <2>4
  <2> QED
    BY <1>2, <1>11, <2>2, <2>5
<1> QED
  BY <1>9, <1>10, <1>11

\* What a callback gets when it is made for the event in hand.
RightCallback(d) ==
    /\ InLog(d.at[1], d.at[2])
    /\ "header" \notin Faults =>
         /\ EventAt(d.at).table = d.table
         /\ EventAt(d.at).ver = d.ver
         /\ d.rows = d.at
         /\ d.newRows = IF d.kind = "UPDATE" THEN d.at ELSE NoPos

LEMMA DeliveredKept ==
    ASSUME LogTypeOK, Grows, DeliveredInv,
           \A d \in delivered' \ delivered : RightCallback(d)
    PROVE  DeliveredInv'
<1> SUFFICES ASSUME NEW d \in delivered' PROVE RightCallback(d)'
  BY DEF DeliveredInv, RightCallback
<1>1. PICK p : p = d.at
  OBVIOUS
<1>2. RightCallback(d)
  BY DEF DeliveredInv, RightCallback
<1>3. InLog(p[1], p[2])' /\ EventAt(p)' = EventAt(p)
  BY <1>1, <1>2, PositionsStay DEF RightCallback
<1> QED
  BY <1>1, <1>2, <1>3 DEF RightCallback, InLog, EventAt

LEMMA DeliverIsRight ==
    ASSUME CrashInv, RegistryInv, pc = "handle", buf.ev.type = "ROWS",
           KnownId(buf.ev), Deliver
    PROVE  \E d : RightCallback(d) /\ delivered' = delivered \union {d}
<1> TypeOK /\ LogInv /\ SessionInv /\ IdsAreUnique /\ MapsAgree /\ RefusedMaps
  BY DEF CrashInv, RegistryInv
<1> RegistryTypeOK /\ HistoryTypeOK
  BY TypeParts
<1>1. HoldsLogEvent
  BY DEF SessionInv, PacketInv, HoldsLogEvent
<1>2. PICK f \in Nat, k \in Nat : buf.at = <<f, k>>
  BY DEF HistoryTypeOK, Packet
<1>3. PICK ev : ev = buf.ev
  OBVIOUS
<1>4. InLog(f, k) /\ ev = files[f][k] /\ ev = EventAt(buf.at)
  BY <1>1, <1>2, <1>3 DEF SessionInv, PacketInv, EventAt
<1>5. PICK t : t = id_2_table[ev.id]
  OBVIOUS
<1>6. PICK tbl : tbl = Update(tables[t], ev, buf.at)
  OBVIOUS
<1>7. PICK d : d = CallbackFor(t, tbl)
  OBVIOUS
<1>8. delivered' = delivered \union {d}
  BY <1>3, <1>5, <1>6, <1>7 DEF Deliver
<1>9. /\ d.at = buf.at /\ d.kind = ev.kind /\ d.table = t /\ d.ver = tbl.ver
      /\ d.rows = tbl.rows /\ d.newRows = tbl.newRows
  BY <1>3, <1>7 DEF CallbackFor
<1>10. InLog(d.at[1], d.at[2])
  BY <1>2, <1>4, <1>9
<1>11. ASSUME "header" \notin Faults
       PROVE  /\ EventAt(d.at).table = d.table
              /\ EventAt(d.at).ver = d.ver
              /\ d.rows = d.at
              /\ d.newRows = IF d.kind = "UPDATE" THEN d.at ELSE NoPos
  <2>1. t \in Watched /\ ev.id \in DOMAIN id_2_table
    BY <1>3, <1>5 DEF KnownId, RegistryTypeOK
  <2>2. t = ev.table
    <3>1. HasOwnId(ev)
      BY <1>3, <1>4, IdParts DEF StoredIds, InLog, InStatement
    <3>2. table_ids[ev.id].table = t
      BY <1>5, <2>1 DEF MapsAgree
    <3> QED
      BY <3>1, <3>2 DEF HasOwnId
  <2>3. ~\E m \in reported : IsTableMapOf(m, buf.at)
    BY <1>11 DEF RefusedMaps, IsTableMapOf
  <2>4. tables[t].id = ev.id /\ tables[t].ver = ev.ver
    BY <1>1, <1>3, <1>4, <2>1, <2>2, <2>3, RowsInHand
  <2>5. /\ tbl.ver = ev.ver /\ tbl.rows = buf.at
        /\ tbl.newRows = IF ev.kind = "UPDATE" THEN buf.at ELSE NoPos
    <3>1. tables[t] \in [tuned : BOOLEAN, id : Nat, ver : Nat,
                         rows : Nat \X Nat, newRows : Nat \X Nat]
      BY <2>1 DEF RegistryTypeOK
    <3>2. tbl = [tables[t] EXCEPT !.rows = buf.at,
                   !.newRows = IF ev.kind = "UPDATE" THEN buf.at ELSE NoPos]
      BY <1>6, <2>4 DEF Update
    <3> QED
      BY <2>4, <3>1, <3>2
  <2> QED
    BY <1>4, <1>9, <2>2, <2>5
<1> QED
  BY <1>8, <1>10, <1>11 DEF RightCallback

\* Callbacks are made for ROWS events in hand and nowhere else.
LEMMA DeliveredCases ==
    ASSUME [Next]_vars
    PROVE  \/ delivered' = delivered
           \/ /\ HandleRows \/ CallbackFails
              /\ pc = "handle" /\ buf.ev.type = "ROWS"
              /\ KnownId(buf.ev) /\ Deliver
<1>1. CASE Plainly
  BY <1>1
     DEF Plainly, SetBinlogPosition, Prepare, AppLoop, LoopHead, Connect,
         ConnectFails, HookFails, RequestBinlogDump, RequestBinlogDumpFails,
         Drop, Reading, ReadFails, ReadStopped, ReadFileName,
         ReadFormatDescription, ReadEvent, Receive, HandleRefused,
         HandleRotate, HandleFormatDescription, HandleQuery, HandleLongQuery,
         HandleWideRows, HandleOther, StopEventLoop, historyVars
<1>2. CASE HandleTableMap
  BY <1>2 DEF HandleTableMap
<1>3. CASE HandleRows \/ CallbackFails
  BY <1>3 DEF HandleRows, CallbackFails, Handling
<1>4. CASE Master \/ UNCHANGED vars
  BY <1>4 DEF Master, vars, historyVars
<1> QED
  BY <1>1, <1>2, <1>3, <1>4, NextCases

LEMMA DeliveredStep ==
    ASSUME CrashInv, RegistryInv, DeliveredInv, [Next]_vars
    PROVE  DeliveredInv'
<1> TypeOK /\ LogInv
  BY DEF CrashInv
<1>1. LogTypeOK /\ Grows
  BY TypeParts, TypeStep, NextCases
<1>2. \A d \in delivered' \ delivered : RightCallback(d)
  <2>1. CASE delivered' = delivered
    BY <2>1
  <2>2. CASE pc = "handle" /\ buf.ev.type = "ROWS" /\ KnownId(buf.ev)
               /\ Deliver
    BY <2>2, DeliverIsRight
  <2> QED
    BY <2>1, <2>2, DeliveredCases
<1> QED
  BY <1>1, <1>2, DeliveredKept

\* What a CLogParser knows of tables, ids and rows while the server does not
\* restart.
LEMMA Registered == Spec => [](CrashInv /\ RegistryInv /\ DeliveredInv)
<1>1. Init => CrashInv /\ RegistryInv /\ DeliveredInv
  BY SessionInit, RegistryInvInit DEF Init, ReplicationInit, DeliveredInv
<1>2. CrashInv /\ RegistryInv /\ DeliveredInv /\ [Next]_vars
        => (CrashInv /\ RegistryInv /\ DeliveredInv)'
  BY SessionStep, RegistryStep, DeliveredStep, NextCases
<1> QED
  BY <1>1, <1>2, PTL DEF Spec

\* Unless packets fail the sanity check, every callback hands over the rows of
\* its own event, under the table and the definition they were written for:
\* renewed ids, tables that share a name, damaged rows, callbacks that throw
\* and reconnects in the middle of a statement never mix them.
THEOREM RowsReach ==
    ASSUME "header" \notin Faults
    PROVE  Spec => []RowsReachTheirTable
<1>1. DeliveredInv => RowsReachTheirTable
  BY DEF DeliveredInv, RowsReachTheirTable
<1> QED
  BY <1>1, Registered, PTL

-----------------------------------------------------------------------------
(* What is behind the resume point is accounted for *)

\* Callbacks and exceptions are never taken back.
HistoryGrows ==
    /\ start' = start
    /\ delivered \subseteq delivered' /\ reported \subseteq reported'

LEMMA AccountedStays ==
    ASSUME LogTypeOK, HistoryTypeOK, Grows, HistoryGrows,
           NEW f, NEW k, InLog(f, k), Accounted(<<f, k>>)
    PROVE  Accounted(<<f, k>>)'
<1>1. EventAt(<<f, k>>)' = EventAt(<<f, k>>)
  <2>1. PICK p : p = <<f, k>>
    OBVIOUS
  <2>2. EventAt(p)' = EventAt(p)
    BY <2>1, PositionsStay
  <2> QED
    BY <2>1, <2>2 DEF EventAt
<1>2. CASE Delivered(<<f, k>>)
  BY <1>1, <1>2 DEF Delivered, Accounted, HistoryGrows
<1>3. CASE <<f, k>> \in reported
  BY <1>3 DEF Accounted, HistoryGrows
<1>4. CASE \E m \in reported : IsTableMapOf(m, <<f, k>>)
  <2>1. PICK m \in reported : IsTableMapOf(m, <<f, k>>)
    BY <1>4
  <2>2. PICK i : m = <<f, i>>
    BY <2>1 DEF IsTableMapOf, HistoryTypeOK
  <2>3. IsTableMapOf(<<f, i>>, <<f, k>>)'
    BY <2>1, <2>2, TableMapOfStable DEF InLog
  <2> QED
    BY <2>1, <2>2, <2>3 DEF Accounted, HistoryGrows
<1> QED
  BY <1>2, <1>3, <1>4 DEF Accounted

\* In front of a place of the log everything stays accounted for.
LEMMA AccountedBeforeStays ==
    ASSUME LogTypeOK, HistoryTypeOK, Grows, HistoryGrows,
           NEW F \in Nat, NEW K \in Nat, OnLog(<<F, K>>),
           AccountedBefore(<<F, K>>)
    PROVE  AccountedBefore(<<F, K>>)'
<1> SUFFICES ASSUME NEW f, NEW k, InLog(f, k)', Due(<<f, k>>)',
                    Before(<<f, k>>, <<F, K>>)
             PROVE  Accounted(<<f, k>>)'
  <2>1. \A p \in LogPositions' : \E f, k : p = <<f, k>> /\ InLog(f, k)'
    BY DEF LogPositions, InLog
  <2> QED
    BY <2>1 DEF AccountedBefore
<1>1. InLog(f, k) /\ EventAt(<<f, k>>)' = EventAt(<<f, k>>)
  <2>1. /\ F \in 1..Len(files) /\ K \in 1..(Len(files[F]) + 1)
        /\ f \in 1..Len(files') /\ k \in 1..Len(files'[f])
        /\ f < F \/ (f = F /\ k < K)
    BY DEF InLog, OnLog, Before
  <2>2. /\ f \in 1..Len(files) /\ k \in 1..Len(files[f])
        /\ files'[f][k] = files[f][k]
    BY <2>1, EarlierPlacesStay
  <2> QED
    BY <2>2 DEF InLog, EventAt
<1>2. Due(<<f, k>>) /\ <<f, k>> \in LogPositions
  BY <1>1, PositionsAre DEF Due, HistoryGrows
<1>3. Accounted(<<f, k>>)
  BY <1>2 DEF AccountedBefore
<1> QED
  BY <1>1, <1>3, AccountedStays

\* Places of the log in a step that does not change it.
LEMMA SamePositions ==
    ASSUME UNCHANGED binlogVars
    PROVE  /\ LogPositions' = LogPositions /\ files' = files
           /\ \A g, j : <<g, j>> \in LogPositions <=> InLog(g, j)
           /\ \A p \in LogPositions : \E g, j : p = <<g, j>>
BY DEF LogPositions, InLog, binlogVars

\* Behind the last event of a file comes the first one of the next.
LEMMA NextFileAccounted ==
    ASSUME LogTypeOK, UNCHANGED binlogVars,
           NEW f \in Nat, NEW k \in Nat, k = Len(files[f]) + 1,
           AccountedBefore(<<f, k>>)'
    PROVE  AccountedBefore(<<f + 1, 1>>)'
<1> SUFFICES ASSUME NEW g, NEW j, InLog(g, j), Due(<<g, j>>)',
                    Before(<<g, j>>, <<f + 1, 1>>)
             PROVE  Accounted(<<g, j>>)'
  BY SamePositions DEF AccountedBefore
<1>1. Len(files) \in Nat /\ Len(files[g]) \in Nat
  BY LogNumbers DEF LogTypeOK, InLog
<1>2. Before(<<g, j>>, <<f, k>>)
  BY <1>1 DEF Before, InLog
<1> QED
  BY <1>2, SamePositions DEF AccountedBefore

\* One more event is accounted for, or nobody asked for it.
LEMMA NextEventAccounted ==
    ASSUME UNCHANGED binlogVars, NEW f \in Nat, NEW k \in Nat, InLog(f, k),
           AccountedBefore(<<f, k>>)', (Due(<<f, k>>) => Accounted(<<f, k>>))'
    PROVE  AccountedBefore(<<f, k + 1>>)'
<1> SUFFICES ASSUME NEW g, NEW j, InLog(g, j), Due(<<g, j>>)',
                    Before(<<g, j>>, <<f, k + 1>>)
             PROVE  Accounted(<<g, j>>)'
  BY SamePositions DEF AccountedBefore
<1>1. CASE g = f /\ j = k
  BY <1>1
<1>2. CASE ~(g = f /\ j = k)
  <2>1. Before(<<g, j>>, <<f, k>>)
    BY <1>2 DEF Before, InLog
  <2> QED
    BY <2>1, SamePositions DEF AccountedBefore
<1> QED
  BY <1>1, <1>2

-----------------------------------------------------------------------------
(* The places of the thread *)

\* q is a place of the log with nothing missing in front of it.
Known(q) == OnLog(q) /\ AccountedBefore(q)

LEMMA KnownStays ==
    ASSUME LogTypeOK, HistoryTypeOK, Grows, HistoryGrows,
           NEW q \in Nat \X Nat, Known(q)
    PROVE  Known(q)'
<1>1. PICK F \in Nat, K \in Nat : q = <<F, K>>
  OBVIOUS
<1>2. OnLog(q)'
  BY PositionsStay DEF Known
<1>3. AccountedBefore(<<F, K>>)'
  BY <1>1, AccountedBeforeStays DEF Known
<1> QED
  BY <1>1, <1>2, <1>3 DEF Known

\* What ProgressInv speaks of are places of the log.
LEMMA KnownPlaces ==
    ASSUME CrashInv, ProgressInv
    PROVE  /\ pc # "init" => Known(Resume)
           /\ conn.st = "dump" /\ ~HoldsLogEvent => Known(Cursor)
           /\ HoldsLogEvent => Known(buf.at)
           /\ pc = "handle" /\ ~HoldsLogEvent /\ buf.ev.type = "ROTATE"
                => Known(buf.to)
<1> TypeOK /\ LogInv /\ SessionInv
  BY DEF CrashInv
<1> LogTypeOK
  BY TypeParts
<1>1. pc # "init" => OnLog(Resume)
  BY DEF SessionInv, PositionsInv, Boundary
<1>2. conn.st = "dump" => OnLog(Cursor)
  BY DEF SessionInv, DumpInv
<1>3. ASSUME HoldsLogEvent PROVE OnLog(buf.at)
  <2>1. PICK f, k : f = buf.at[1] /\ k = buf.at[2]
    OBVIOUS
  <2>2. f \in 1..Len(files) /\ k \in 1..Len(files[f])
    BY <1>3, <2>1 DEF SessionInv, PacketInv, InLog
  <2>3. Len(files[f]) \in Nat
    BY <2>2, LogNumbers DEF LogTypeOK
  <2> QED
    BY <2>1, <2>2, <2>3 DEF OnLog
<1>4. pc = "handle" /\ ~HoldsLogEvent /\ buf.ev.type = "ROTATE"
        => OnLog(buf.to)
  BY DEF SessionInv, PacketInv, HoldsLogEvent, Boundary
<1> QED
  BY <1>1, <1>2, <1>3, <1>4 DEF Known, ProgressInv

Progressing ==
    /\ Quiet /\ CrashInv /\ CrashInv' /\ Grows
    /\ RegistryInv /\ ProgressInv

\* The master writes.
LEMMA MasterKeepsProgress ==
    ASSUME CrashInv, ProgressInv, Grows,
           UNCHANGED <<sessionVars, pc, buf, conn, historyVars>>
    PROVE  ProgressInv'
<1> LogTypeOK /\ SessionTypeOK /\ HistoryTypeOK
  BY TypeParts DEF CrashInv
<1> HistoryGrows
  BY DEF HistoryGrows, historyVars
<1>1. PICK r \in Nat \X Nat, c \in Nat \X Nat, a \in Nat \X Nat,
           t \in Nat \X Nat :
        r = Resume /\ c = Cursor /\ a = buf.at /\ t = buf.to
  BY DEF Resume, Cursor, SessionTypeOK, HistoryTypeOK, Connection, Packet
<1>2. /\ Resume' = r /\ Cursor' = c /\ buf' = buf /\ pc' = pc /\ conn' = conn
      /\ HoldsLogEvent' = HoldsLogEvent
  BY <1>1 DEF Resume, Cursor, HoldsLogEvent, sessionVars, positionVars
<1>3. /\ Known(r) => Known(r)'
      /\ Known(c) => Known(c)'
      /\ Known(a) => Known(a)'
      /\ Known(t) => Known(t)'
  BY KnownStays
<1>4. /\ pc # "init" => Known(r)
      /\ conn.st = "dump" /\ ~HoldsLogEvent => Known(c)
      /\ HoldsLogEvent => Known(a)
      /\ pc = "handle" /\ ~HoldsLogEvent /\ buf.ev.type = "ROTATE"
           => Known(t)
  BY <1>1, KnownPlaces
<1>5. /\ pc # "init" => AccountedBefore(r)'
      /\ conn.st = "dump" /\ ~HoldsLogEvent => AccountedBefore(c)'
      /\ HoldsLogEvent => AccountedBefore(a)'
      /\ pc = "handle" /\ ~HoldsLogEvent /\ buf.ev.type = "ROTATE"
           => AccountedBefore(t)'
  BY <1>3, <1>4 DEF Known
<1> QED
  BY <1>1, <1>2, <1>5 DEF ProgressInv, AccountedBefore

-----------------------------------------------------------------------------
(* The thread at work *)

\* Between two packets the server goes on from where it was, or starts from
\* the resume point.
LEMMA WaitingKeepsProgress ==
    ASSUME Progressing, HistoryGrows, pc # "init", pc' # "handle",
           UNCHANGED positionVars,
           conn'.st = "dump" =>
             \/ Cursor' = Resume
             \/ conn.st = "dump" /\ ~HoldsLogEvent /\ Cursor' = Cursor
    PROVE  ProgressInv'
<1> LogTypeOK /\ SessionTypeOK /\ HistoryTypeOK
  BY TypeParts DEF Progressing, CrashInv
<1>1. PICK r \in Nat \X Nat, c \in Nat \X Nat : r = Resume /\ c = Cursor
  BY DEF Resume, Cursor, SessionTypeOK, Connection
<1>2. Resume' = r
  BY <1>1 DEF Resume, positionVars
<1>3. Known(r) /\ (conn.st = "dump" /\ ~HoldsLogEvent => Known(c))
  BY <1>1, KnownPlaces DEF Progressing
<1>4. /\ AccountedBefore(r)'
      /\ conn.st = "dump" /\ ~HoldsLogEvent => AccountedBefore(c)'
  BY <1>3, KnownStays DEF Progressing, Known
<1>5. conn'.st = "dump" => AccountedBefore(Cursor)'
  BY <1>1, <1>4 DEF AccountedBefore
<1> QED
  BY <1>1, <1>2, <1>4, <1>5 DEF ProgressInv, HoldsLogEvent, AccountedBefore

LEMMA BreakingKeepsProgress ==
    ASSUME Progressing, HistoryGrows, UNCHANGED <<positionVars, pc, buf>>,
           conn'.st # "dump"
    PROVE  ProgressInv'
<1> LogTypeOK /\ SessionTypeOK /\ HistoryTypeOK
  BY TypeParts DEF Progressing, CrashInv
<1>1. PICK r \in Nat \X Nat, a \in Nat \X Nat, t \in Nat \X Nat :
        r = Resume /\ a = buf.at /\ t = buf.to
  BY DEF Resume, SessionTypeOK, HistoryTypeOK, Packet
<1>2. Resume' = r /\ HoldsLogEvent' = HoldsLogEvent
  BY <1>1 DEF Resume, HoldsLogEvent, positionVars
<1>3. /\ pc # "init" => Known(r)
      /\ HoldsLogEvent => Known(a)
      /\ pc = "handle" /\ ~HoldsLogEvent /\ buf.ev.type = "ROTATE"
           => Known(t)
  BY <1>1, KnownPlaces DEF Progressing
<1>4. /\ Known(r) => Known(r)'
      /\ Known(a) => Known(a)'
      /\ Known(t) => Known(t)'
  BY KnownStays DEF Progressing
<1>5. /\ pc # "init" => AccountedBefore(r)'
      /\ HoldsLogEvent => AccountedBefore(a)'
      /\ pc = "handle" /\ ~HoldsLogEvent /\ buf.ev.type = "ROTATE"
           => AccountedBefore(t)'
  BY <1>3, <1>4 DEF Known
<1> QED
  BY <1>1, <1>2, <1>5 DEF ProgressInv, AccountedBefore

\* Nothing is due before the position prepare() begins with.
LEMMA StartKeepsProgress ==
    ASSUME Progressing, SetBinlogPosition \/ Prepare
    PROVE  ProgressInv'
<1>1. CASE SetBinlogPosition
  <2>1. pc' = "init" /\ conn' = NoConnection
    BY <1>1 DEF SetBinlogPosition, Progressing, CrashInv, SessionInv,
                PositionsInv
  <2> QED
    BY <2>1 DEF ProgressInv, HoldsLogEvent, NoConnection
<1>2. CASE Prepare
  <2>1. /\ pc' = "app"
        /\ binlog_name' = start'[1] /\ binlog_pos' = start'[2]
        /\ conn' = [st |-> "dump", file |-> start'[1], off |-> start'[2],
                    head |-> "rotate"]
    BY <1>2 DEF Prepare, ServerDumpsFrom
  <2>2. PICK s : s = start'
    OBVIOUS
  <2>3. s = <<s[1], s[2]>>
    BY <2>2 DEF Progressing, CrashInv, TypeOK
  <2>4. Resume' = s /\ Cursor' = s
    BY <2>1, <2>2, <2>3 DEF Resume, Cursor
  <2>5. AccountedBefore(s)'
    BY <2>2 DEF AccountedBefore, Due
  <2> QED
    BY <2>1, <2>4, <2>5 DEF ProgressInv, HoldsLogEvent, AccountedBefore
<1> QED
  BY <1>1, <1>2

LEMMA ConnectingKeepsProgress ==
    ASSUME Progressing,
           \/ AppLoop \/ LoopHead \/ Connect \/ ConnectFails \/ HookFails
           \/ RequestBinlogDump \/ RequestBinlogDumpFails \/ ReadFails
           \/ ReadStopped
    PROVE  ProgressInv'
<1>1. /\ HistoryGrows /\ UNCHANGED positionVars
      /\ pc # "init" /\ pc' # "handle" /\ ~HoldsLogEvent
  BY DEF AppLoop, LoopHead, Connect, ConnectFails, HookFails,
         RequestBinlogDump, RequestBinlogDumpFails, ReadFails, ReadStopped,
         HistoryGrows, historyVars, sessionVars, positionVars, Throw,
         HoldsLogEvent
<1>2. CASE RequestBinlogDump
  <2>1. conn'.st = "dump" => conn'.file = Resume[1] /\ conn'.off = Resume[2]
    <3>1. conn \in Connection
      BY TypeParts DEF Progressing, CrashInv, SessionTypeOK
    <3>2. \/ conn' = [conn EXCEPT !.st = "broken"]
          \/ ServerDumpsFrom(Resume)
      BY <1>2 DEF RequestBinlogDump
    <3> QED
      BY <3>1, <3>2 DEF ServerDumpsFrom, Connection
  <2>2. conn'.st = "dump" => Cursor' = Resume
    BY <2>1 DEF Cursor, Resume
  <2> QED
    BY <1>1, <2>2, WaitingKeepsProgress
<1>3. CASE ~RequestBinlogDump
  <2>1. \/ conn' = conn
        \/ conn' = NoConnection
        \/ conn' = [NoConnection EXCEPT !.st = "idle"]
    BY <1>3 DEF AppLoop, LoopHead, Connect, ConnectFails, HookFails,
                RequestBinlogDumpFails, ReadFails, ReadStopped
  <2>2. conn'.st = "dump" => conn' = conn
    BY <2>1 DEF NoConnection
  <2> QED
    BY <1>1, <2>2, WaitingKeepsProgress DEF Cursor
<1> QED
  BY <1>2, <1>3

LEMMA DropKeepsProgress ==
    ASSUME Progressing, Drop \/ StopEventLoop
    PROVE  ProgressInv'
<1> SessionTypeOK
  BY TypeParts DEF Progressing, CrashInv
<1>1. HistoryGrows /\ UNCHANGED <<positionVars, pc, buf>>
  BY DEF Drop, StopEventLoop, HistoryGrows, historyVars, sessionVars
<1>2. conn'.st # "dump"
  BY DEF Drop, StopEventLoop, SessionTypeOK, Connection
<1> QED
  BY <1>1, <1>2, BreakingKeepsProgress

LEMMA ReadingKeepsProgress ==
    ASSUME Progressing, ReadFileName \/ ReadFormatDescription \/ ReadEvent
    PROVE  ProgressInv'
<1> LogTypeOK /\ SessionTypeOK /\ HistoryTypeOK
  BY TypeParts DEF Progressing, CrashInv
<1>1. /\ HistoryGrows /\ UNCHANGED positionVars
      /\ pc = "read" /\ pc' = "handle" /\ ~HoldsLogEvent /\ conn.st = "dump"
  BY DEF ReadFileName, ReadFormatDescription, ReadEvent, Receive,
         HistoryGrows, historyVars, sessionVars, HoldsLogEvent
<1>2. PICK r \in Nat \X Nat, f \in Nat, k \in Nat :
        r = Resume /\ f = conn.file /\ k = conn.off
  BY DEF Resume, SessionTypeOK, Connection
<1>3. Known(r) /\ Known(<<f, k>>)
  BY <1>1, <1>2, KnownPlaces DEF Progressing, Cursor
<1>4. Known(r)' /\ Known(<<f, k>>)'
  BY <1>1, <1>3, KnownStays DEF Progressing
<1>5. Resume' = r /\ Cursor = <<f, k>>
  BY <1>1, <1>2 DEF Resume, positionVars, Cursor
<1>6. CASE ReadFileName
  <2>1. PICK p : p = IF AtFileEnd THEN <<f + 1, 1>> ELSE <<f, k>>
    OBVIOUS
  <2>2. /\ conn' = [st |-> "dump", file |-> p[1], off |-> p[2],
                    head |-> "fde"]
        /\ buf' = [NoPacket EXCEPT !.ev = Plain("ROTATE"), !.to = p]
    BY <1>2, <1>5, <1>6, <2>1 DEF ReadFileName
  <2>3. p \in Nat \X Nat /\ AccountedBefore(p)'
    <3>1. CASE AtFileEnd
      <4>1. k = Len(files[f]) + 1
        <5>1. k > Len(files[f])
          BY <1>2, <3>1 DEF AtFileEnd
        <5>2. f \in 1..Len(files) /\ k \in 1..(Len(files[f]) + 1)
          BY <1>3 DEF Known, OnLog
        <5>3. Len(files[f]) \in Nat
          BY <5>2, LogNumbers DEF LogTypeOK
        <5> QED
          BY <5>1, <5>2, <5>3
      <4>2. AccountedBefore(<<f + 1, 1>>)'
        BY <1>4, <4>1, NextFileAccounted DEF Known, Progressing, Quiet
      <4> QED
        BY <2>1, <3>1, <4>2 DEF AccountedBefore
    <3>2. CASE ~AtFileEnd
      BY <1>4, <2>1, <3>2 DEF Known, AccountedBefore
    <3> QED
      BY <3>1, <3>2
  <2>4. Cursor' = p /\ buf'.to = p /\ buf'.at = NoPos
    BY <2>2, <2>3 DEF Cursor, NoPacket
  <2>5. AccountedBefore(Cursor)' /\ AccountedBefore(buf.to)'
        /\ AccountedBefore(Resume)'
    BY <1>4, <1>5, <2>3, <2>4 DEF Known, AccountedBefore
  <2> QED
    BY <2>4, <2>5 DEF ProgressInv, HoldsLogEvent
<1>7. CASE ReadFormatDescription
  <2>1. /\ conn' = [conn EXCEPT !.head = "none"]
        /\ buf' = [NoPacket EXCEPT !.artificial = FALSE]
    BY <1>7 DEF ReadFormatDescription
  <2>2. Cursor' = <<f, k>>
    BY <1>2, <2>1 DEF Cursor, SessionTypeOK, Connection
  <2>3. buf'.ev.type = "FDE" /\ buf'.at = NoPos
    BY <2>1 DEF NoPacket, Plain
  <2>4. AccountedBefore(Cursor)' /\ AccountedBefore(Resume)'
    BY <1>4, <1>5, <2>2 DEF Known, AccountedBefore
  <2> QED
    BY <2>3, <2>4 DEF ProgressInv, HoldsLogEvent
<1>8. CASE ReadEvent
  <2>1. buf'.at = <<f, k>>
    BY <1>5, <1>8 DEF ReadEvent
  <2>2. <<f, k>> # NoPos
    BY <1>3 DEF Known, OnLog, NoPos
  <2>3. HoldsLogEvent'
    BY <1>1, <2>1, <2>2 DEF HoldsLogEvent
  <2>4. AccountedBefore(buf.at)' /\ AccountedBefore(Resume)'
    BY <1>4, <1>5, <2>1 DEF Known, AccountedBefore
  <2> QED
    BY <2>3, <2>4 DEF ProgressInv
<1> QED
  BY <1>6, <1>7, <1>8

\* A ROWS event of a watched table ends as a callback or an exception, unless
\* its TABLE_MAP event was refused, which an exception has told of.
LEMMA RowsAccounted ==
    ASSUME Progressing, HoldsLogEvent, Due(buf.at),
           HandleRows \/ CallbackFails
    PROVE  \E p : p = buf.at /\ Accounted(p)'
<1> TypeOK /\ LogInv /\ SessionInv
  BY DEF Progressing, CrashInv
<1> RegistryTypeOK /\ HistoryTypeOK /\ LogTypeOK
  BY TypeParts
<1>1. PICK p : p = buf.at
  OBVIOUS
<1>2. PICK ev : ev = buf.ev
  OBVIOUS
<1>3. /\ ev = EventAt(p) /\ ev.type = "ROWS" /\ ev.table \in Watched
      /\ InLog(p[1], p[2])
  BY <1>1, <1>2 DEF SessionInv, PacketInv, Due
<1>4. files' = files /\ EventAt(p)' = ev
  BY <1>3 DEF Progressing, Quiet, binlogVars, EventAt
<1>5. reported \subseteq reported'
  <2>1. CASE HandleRows
    BY <2>1, FinishReported
       DEF HandleRows, Handling, Progressing
  <2>2. CASE CallbackFails
    BY <2>2 DEF CallbackFails, Throw
  <2> QED
    BY <2>1, <2>2
<1>6. CASE CallbackFails
  <2>1. p \in reported'
    BY <1>1, <1>6 DEF CallbackFails, Throw, HoldsLogEvent
  <2> QED
    BY <1>1, <2>1 DEF Accounted
<1>7. CASE \E m \in reported : IsTableMapOf(m, p)
  <2>1. PICK m \in reported' : IsTableMapOf(m, p)
    BY <1>5, <1>7
  <2>2. IsTableMapOf(m, p)'
    BY <1>4, <2>1 DEF IsTableMapOf, InLog, EventAt
  <2> QED
    BY <1>1, <2>1, <2>2 DEF Accounted
<1>8. CASE HandleRows /\ ~\E m \in reported : IsTableMapOf(m, p)
  <2>1. PICK t : t = ev.table
    OBVIOUS
  <2>2. /\ tables[t].id = ev.id /\ ev.id \in DOMAIN id_2_table
        /\ id_2_table[ev.id] = t
    BY <1>1, <1>3, <1>8, <2>1, RowsInHand DEF Progressing
  <2>3. Deliver
    BY <1>2, <1>8, <2>2 DEF HandleRows, KnownId
  <2>4. PICK tbl : tbl = Update(tables[t], ev, p)
    OBVIOUS
  <2>5. PICK d : d = CallbackFor(t, tbl)
    OBVIOUS
  <2>6. d \in delivered'
    BY <1>1, <1>2, <2>2, <2>3, <2>4, <2>5 DEF Deliver
  <2>7. tbl.rows = p
    <3>1. tables[t] \in [tuned : BOOLEAN, id : Nat, ver : Nat,
                         rows : Nat \X Nat, newRows : Nat \X Nat]
      BY <1>3, <2>1 DEF RegistryTypeOK
    <3> QED
      BY <2>2, <2>4, <3>1 DEF Update
  <2>8. d.at = p /\ d.rows = p /\ d.table = t
    BY <1>1, <2>5, <2>7 DEF CallbackFor
  <2>9. Delivered(p)'
    BY <1>4, <2>1, <2>6, <2>8 DEF Delivered
  <2> QED
    BY <1>1, <2>9 DEF Accounted
<1> QED
  BY <1>6, <1>7, <1>8

\* However the packet in hand is dealt with, its event is accounted for.
LEMMA EventAccounted ==
    ASSUME Progressing, Handle \/ CallbackFails,
           NEW f \in Nat, NEW k \in Nat, buf.at = <<f, k>>, HoldsLogEvent
    PROVE  (Due(<<f, k>>) => Accounted(<<f, k>>))'
<1> LogInv /\ SessionInv
  BY DEF Progressing, CrashInv
<1>1. buf.ev = files[f][k] /\ files' = files
  BY DEF SessionInv, PacketInv, EventAt, Progressing, Quiet, binlogVars
<1>2. CASE HandleRefused \/ HandleWideRows
  <2>1. buf.at \in reported'
    BY <1>2, RefusalReported DEF HoldsLogEvent, Progressing
  <2> QED
    BY <2>1 DEF Accounted
<1>3. CASE HandleRows \/ CallbackFails
  <2>1. start' = start
    BY <1>3 DEF HandleRows, CallbackFails, Handling
  <2>2. CASE Due(<<f, k>>)
    BY <1>3, <2>2, RowsAccounted DEF Accounted, Delivered
  <2>3. CASE ~Due(<<f, k>>)
    BY <1>1, <2>1, <2>3 DEF Due, EventAt
  <2> QED
    BY <2>2, <2>3
<1>4. CASE \/ HandleRotate \/ HandleFormatDescription \/ HandleQuery
           \/ HandleLongQuery \/ HandleTableMap \/ HandleOther
  <2>1. buf.ev.type # "ROWS"
    BY <1>4 DEF HandleRotate, HandleFormatDescription, HandleQuery,
                HandleLongQuery, HandleTableMap, HandleOther, Handling
  <2> QED
    BY <1>1, <2>1 DEF Due, EventAt
<1> QED
  BY <1>2, <1>3, <1>4 DEF Handle

\* How far a packet moves the position.
LEMMA HandlingMoves ==
    ASSUME Progressing, Handle \/ CallbackFails
    PROVE  /\ pc = "handle" /\ pc' # "handle" /\ conn' \in {conn, NoConnection}
           /\ HistoryGrows
           /\ \/ UNCHANGED positionVars
              \/ /\ buf.ev.type \in {"QUERY", "XID", "STOP"}
                 /\ Resume' = <<binlog_name, buf.log_pos>>
              \/ /\ buf.ev.type = "ROTATE" /\ Resume' = buf.to
<1> TypeOK /\ HistoryTypeOK
  BY TypeParts DEF Progressing, CrashInv
<1>1. CASE HandleRefused \/ HandleWideRows
  <2>1. reported \subseteq reported'
    BY <1>1, RefusalReported DEF Progressing
  <2> QED
    BY <1>1, <2>1
       DEF HandleRefused, HandleWideRows, Handling, Throw, HistoryGrows,
           sessionVars
<1>2. CASE CallbackFails
  BY <1>2 DEF CallbackFails, Handling, Throw, Deliver, HistoryGrows
<1>3. CASE \/ HandleRotate \/ HandleFormatDescription \/ HandleQuery
           \/ HandleLongQuery \/ HandleTableMap \/ HandleRows \/ HandleOther
  <2>1. pc = "handle" /\ start' = start /\ Finish
    BY <1>3 DEF HandleRotate, HandleFormatDescription, HandleQuery,
                HandleLongQuery, HandleTableMap, HandleRows, HandleOther,
                Handling
  <2>2. pc' # "handle" /\ conn' \in {conn, NoConnection}
    BY <2>1, FinishEnds
  <2>3. delivered \subseteq delivered' /\ reported \subseteq reported'
    BY <1>3, <2>1, FinishReported
       DEF HandleRotate, HandleFormatDescription, HandleQuery,
           HandleLongQuery, HandleTableMap, HandleRows, HandleOther, Deliver,
           Progressing
  <2>4. \/ UNCHANGED positionVars
        \/ /\ buf.ev.type \in {"QUERY", "XID", "STOP"}
           /\ binlog_name' = binlog_name /\ binlog_pos' = buf.log_pos
        \/ /\ buf.ev.type = "ROTATE"
           /\ binlog_name' = buf.to[1] /\ binlog_pos' = buf.to[2]
    BY <1>3 DEF HandleRotate, HandleFormatDescription, HandleQuery,
                HandleLongQuery, HandleTableMap, HandleRows, HandleOther,
                Handling, MoveTo
  <2>5. buf.to = <<buf.to[1], buf.to[2]>>
    BY DEF HistoryTypeOK, Packet
  <2> QED
    BY <2>1, <2>2, <2>3, <2>4, <2>5 DEF HistoryGrows, Resume
<1> QED
  BY <1>1, <1>2, <1>3 DEF Handle

LEMMA HandlingKeepsProgress ==
    ASSUME Progressing, Handle \/ CallbackFails
    PROVE  ProgressInv'
<1> TypeOK /\ LogInv
  BY DEF Progressing, CrashInv
<1> LogTypeOK /\ SessionTypeOK /\ HistoryTypeOK
  BY TypeParts
<1>1. /\ pc = "handle" /\ pc' # "handle" /\ conn' \in {conn, NoConnection}
      /\ HistoryGrows
  BY HandlingMoves
<1>2. PICK r \in Nat \X Nat, c \in Nat \X Nat : r = Resume /\ c = Cursor
  BY DEF Resume, Cursor, SessionTypeOK, Connection
<1>3. Known(r)'
  BY <1>1, <1>2, KnownPlaces, KnownStays DEF Progressing
<1>4. conn'.st = "dump" => conn.st = "dump" /\ Cursor' = c
  BY <1>1, <1>2 DEF NoConnection, Cursor
<1>5. PICK s : s = Resume'
  OBVIOUS
<1>6. AccountedBefore(s)' /\ (conn'.st = "dump" => AccountedBefore(c)')
  <2>1. CASE HoldsLogEvent
    <3>1. PICK f \in Nat, k \in Nat : buf.at = <<f, k>>
      BY DEF HistoryTypeOK, Packet
    <3>2. /\ binlog_name = f /\ buf.log_pos = k + 1
          /\ buf.to = <<f + 1, 1>>
          /\ InLog(f, k) /\ buf.ev = files[f][k]
          /\ conn.st = "dump" => c = <<f, k + 1>>
      BY <1>1, <1>2, <2>1, <3>1, PacketInHand
         DEF HoldsLogEvent, Progressing, EventAt
    <3>3. Known(<<f, k>>)'
      <4>1. Known(<<f, k>>)
        BY <2>1, <3>1, KnownPlaces DEF Progressing
      <4> QED
        BY <1>1, <4>1, KnownStays DEF Progressing
    <3>4. AccountedBefore(<<f, k + 1>>)'
      BY <2>1, <3>1, <3>2, <3>3, EventAccounted, NextEventAccounted
         DEF Known, Progressing, Quiet
    <3>5. buf.ev.type = "ROTATE" => AccountedBefore(<<f + 1, 1>>)'
      <4>1. ASSUME buf.ev.type = "ROTATE"
            PROVE  k + 1 = Len(files[f]) + 1
        BY <3>2, <4>1 DEF LogInv, RotateEndsFile, InLog
      <4> QED
        BY <3>4, <4>1, NextFileAccounted DEF Progressing, Quiet
    <3>6. \/ s = r
          \/ s = <<f, k + 1>>
          \/ s = <<f + 1, 1>> /\ buf.ev.type = "ROTATE"
      BY <1>2, <1>5, <3>2, HandlingMoves DEF Resume, positionVars
    <3>7. AccountedBefore(s)'
      BY <1>3, <3>4, <3>5, <3>6 DEF Known, AccountedBefore
    <3> QED
      BY <1>4, <3>2, <3>4, <3>7 DEF AccountedBefore
  <2>2. CASE ~HoldsLogEvent
    <3>1. buf.ev.type \in {"ROTATE", "FDE"}
      BY <1>1, <2>2, PacketInHand DEF HoldsLogEvent, Progressing
    <3>2. PICK t \in Nat \X Nat : t = buf.to
      BY DEF HistoryTypeOK, Packet
    <3>3. \/ s = r
          \/ s = t /\ buf.ev.type = "ROTATE"
      BY <1>2, <1>5, <3>1, <3>2, HandlingMoves DEF Resume, positionVars
    <3>4. /\ buf.ev.type = "ROTATE" => Known(t)
          /\ conn.st = "dump" => Known(c)
      BY <1>1, <1>2, <2>2, <3>2, KnownPlaces DEF Progressing
    <3>5. /\ buf.ev.type = "ROTATE" => Known(t)'
          /\ conn.st = "dump" => Known(c)'
      BY <1>1, <3>4, KnownStays DEF Progressing
    <3>6. AccountedBefore(s)'
      BY <1>3, <3>3, <3>5 DEF Known, AccountedBefore
    <3> QED
      BY <1>4, <3>5, <3>6 DEF Known
  <2> QED
    BY <2>1, <2>2
<1>7. AccountedBefore(Resume)'
      /\ (conn'.st = "dump" => AccountedBefore(Cursor)')
  BY <1>4, <1>5, <1>6 DEF AccountedBefore
<1> QED
  BY <1>1, <1>7 DEF ProgressInv, HoldsLogEvent

LEMMA ProgressStep ==
    ASSUME CrashInv, RegistryInv, ProgressInv, [Next]_vars
    PROVE  ProgressInv'
<1> TypeOK /\ LogInv /\ SessionInv
  BY DEF CrashInv
<1>1. CrashInv' /\ Grows
  BY SessionStep, TypeStep, NextCases
<1>2. CASE Master \/ UNCHANGED vars
  BY <1>1, <1>2, MasterKeepsProgress DEF Master, vars
<1>3. CASE Plainly \/ HandleTableMap \/ HandleRows \/ CallbackFails
  <2>1. UNCHANGED binlogVars
    BY <1>3, PlainlyUnchanged
       DEF HandleTableMap, HandleRows, CallbackFails, Handling
  <2>2. Progressing
    BY <1>1, <2>1 DEF Progressing, Quiet
  <2> QED
    BY <1>3, <2>2, StartKeepsProgress, ConnectingKeepsProgress,
       DropKeepsProgress, ReadingKeepsProgress, HandlingKeepsProgress
       DEF Plainly, Reading, Handle
<1> QED
  BY <1>2, <1>3, NextCases

LEMMA ProgressInit ==
    ASSUME Init
    PROVE  ProgressInv
BY DEF Init, ReplicationInit, NoConnection, ProgressInv, HoldsLogEvent

-----------------------------------------------------------------------------
\* What holds of a CLogParser at work, on any log, with any tables and under
\* any of the failures, until the server restarts: the invariant that all the
\* safety properties follow from.
THEOREM Invariant == Spec => []IInv
<1>1. Init => IInv
  BY SessionInit, ReplayInit, RegistryInvInit, ProgressInit
     DEF IInv, Init, ReplicationInit, DeliveredInv
<1>2. IInv /\ [Next]_vars => IInv'
  BY SessionStep, ReplayStep, RegistryStep, ProgressStep, DeliveredStep,
     NextCases DEF IInv
<1> QED
  BY <1>1, <1>2, PTL DEF Spec

\* No change of a watched table is skipped in silence, whatever happens:
\* before the position from which a reconnect would resume, every change was
\* handed to a callback with its own rows and as its own table, or an
\* exception left dispatch_events() about it or about the TABLE_MAP event
\* without which it means nothing.
THEOREM SkipsNothing == Spec => []NoSilentLoss
<1>1. IInv => NoSilentLoss
  BY DEF IInv, ProgressInv, AccountedBefore, NoSilentLoss
<1> QED
  BY <1>1, Invariant, PTL

-----------------------------------------------------------------------------
(* The refinement *)

\* Nothing has been told before the thread is prepared.
UntoldInv == pc = "init" => delivered = {} /\ reported = {}

LEMMA UntoldStep ==
    ASSUME CrashInv, UntoldInv, [Next]_vars
    PROVE  UntoldInv'
<1>1. CASE pc # "init" /\ pc' # "init"
  BY <1>1 DEF UntoldInv
<1>2. CASE pc' = "init" /\ pc = "init"
  <2>1. UNCHANGED <<delivered, reported>>
    BY <1>2
       DEF Next, ThreadStep, Failing, Reconnecting, Reading, Handle,
           SetBinlogPosition, Prepare, AppLoop, LoopHead, Connect,
           ConnectFails, HookFails, RequestBinlogDump,
           RequestBinlogDumpFails, Drop, ReadFails, ReadStopped, ReadFileName,
           ReadFormatDescription, ReadEvent, Receive, HandleRefused,
           HandleRotate, HandleFormatDescription, HandleQuery,
           HandleLongQuery, HandleTableMap, HandleWideRows, HandleRows,
           CallbackFails, HandleOther, StopEventLoop, Handling, Master, vars,
           historyVars
  <2> QED
    BY <1>2, <2>1 DEF UntoldInv
<1>3. CASE pc' = "init" /\ pc # "init"
  BY <1>3, FinishEnds
     DEF Next, ThreadStep, Failing, Reconnecting, Reading, Handle,
         SetBinlogPosition, Prepare, AppLoop, LoopHead, Connect, ConnectFails,
         HookFails, RequestBinlogDump, RequestBinlogDumpFails, Drop,
         ReadFails, ReadStopped, ReadFileName, ReadFormatDescription,
         ReadEvent, Receive, HandleRefused, HandleRotate,
         HandleFormatDescription, HandleQuery, HandleLongQuery,
         HandleTableMap, HandleWideRows, HandleRows, CallbackFails,
         HandleOther, StopEventLoop, Handling, Throw, Master, vars
<1>4. CASE pc = "init" /\ pc' # "init"
  BY <1>4 DEF UntoldInv
<1> QED
  BY <1>1, <1>2, <1>3, <1>4

-----------------------------------------------------------------------------
(* The feed's view of a state *)

\* The point the feed has come to is a place of the log at or behind the
\* resume point.
LEMMA FeedPlace ==
    ASSUME IInv, Started
    PROVE  /\ FeedNext \in Nat \X Nat /\ OnLog(FeedNext)
           /\ FeedAcked = Resume /\ FeedAcked \in Nat \X Nat
           /\ OnLog(FeedAcked) /\ ~Before(FeedNext, FeedAcked)
<1> TypeOK /\ LogInv /\ SessionInv /\ CrashInv /\ ProgressInv
  BY DEF IInv, CrashInv
<1> LogTypeOK /\ SessionTypeOK /\ HistoryTypeOK
  BY TypeParts
<1>1. Resume \in Nat \X Nat /\ OnLog(Resume) /\ ~Before(Resume, Resume)
  BY KnownPlaces DEF Started, Known, Resume, SessionTypeOK, Before
<1>2. ASSUME conn.file # 0 PROVE Handled \in Nat \X Nat /\ OnLog(Handled)
  <2>1. CASE HoldsLogEvent
    BY <2>1, KnownPlaces
       DEF Handled, HoldsLogEvent, Known, HistoryTypeOK, Packet
  <2>2. CASE ~HoldsLogEvent
    BY <1>2, <2>2
       DEF Handled, HoldsLogEvent, Cursor, IInv, ReplayInv, SessionTypeOK,
           Connection
  <2> QED
    BY <2>1, <2>2
<1> QED
  BY <1>1, <1>2 DEF FeedNext, FeedAcked, Started

LEMMA FeedChangesAre ==
    ASSUME Started, NEW p
    PROVE  p \in FeedChanges <=> p \in LogPositions /\ Due(p)
BY DEF FeedChanges

\* A step of the thread that delivers and reports nothing.
LEMMA FeedQuiet ==
    ASSUME Started, Started', UNCHANGED <<binlogVars, historyVars>>
    PROVE  UNCHANGED <<FeedChanges, FeedSeen, FeedTold>>
BY DEF FeedChanges, FeedSeen, FeedTold, Started, binlogVars, historyVars, Due,
       Delivered, IsTableMapOf, InLog, EventAt, LogPositions

-----------------------------------------------------------------------------
(* Steps of the feed *)

\* No change lies between the points the feed was at and is at.
PassesNone ==
    /\ ~Before(FeedNext', FeedNext)
    /\ \A c \in FeedChanges : Before(c, FeedNext') => Before(c, FeedNext)

LEMMA FeedGoes ==
    ASSUME NEW S, FeedNext' \in Nat \X Nat,
           \/ FeedNext' = FeedAcked'
           \/ /\ ~Before(FeedNext', FeedNext)
              /\ S = {c \in FeedChanges :
                        ~Before(c, FeedNext) /\ Before(c, FeedNext')}
    PROVE  Feed!GoesPast(S)
BY DEF Feed!GoesPast, Feed!Between, Feed!Position, Feed!Before, Before

LEMMA FeedWarns ==
    ASSUME FeedNext' \in Nat \X Nat,
           UNCHANGED <<FeedChanges, FeedAcked, FeedSeen>>,
           FeedTold \subseteq FeedTold',
           FeedTold' \subseteq
             FeedTold \union {c \in FeedChanges : ~Before(c, FeedNext)},
           FeedNext' = FeedAcked' \/ PassesNone
    PROVE  Feed!Next
<1>1. Feed!GoesPast({})
  BY FeedGoes DEF PassesNone
<1>2. Feed!Warn
  BY <1>1 DEF Feed!Warn, Feed!Before, Before
<1> QED
  BY <1>2 DEF Feed!Next

LEMMA FeedAcknowledges ==
    ASSUME FeedNext' \in Nat \X Nat, FeedAcked' \in Nat \X Nat,
           UNCHANGED <<FeedChanges, FeedSeen, FeedTold>>,
           ~Before(FeedAcked', FeedAcked), ~Before(FeedNext', FeedAcked'),
           \A c \in FeedChanges :
              Before(c, FeedAcked') => Before(c, FeedNext),
           FeedNext' = FeedAcked' \/ PassesNone
    PROVE  Feed!Next
<1>1. Feed!GoesPast({})
  BY FeedGoes DEF PassesNone
<1>2. Feed!Acknowledge
  BY <1>1 DEF Feed!Acknowledge, Feed!Position, Feed!Before, Before
<1> QED
  BY <1>2 DEF Feed!Next

\* The change the feed is at is dealt with.
LEMMA FeedDeals ==
    ASSUME FeedNext' \in Nat \X Nat, FeedNext \in Nat \X Nat,
           FeedNext \in FeedChanges,
           UNCHANGED <<FeedChanges, FeedAcked>>,
           FeedSeen' \in {FeedSeen, FeedSeen \union {FeedNext}},
           FeedTold' \in {FeedTold, FeedTold \union {FeedNext}},
           FeedNext \in FeedSeen' \union FeedTold',
           \/ FeedNext' = FeedAcked'
           \/ /\ ~Before(FeedNext', FeedNext)
              /\ {FeedNext} = {c \in FeedChanges :
                        ~Before(c, FeedNext) /\ Before(c, FeedNext')}
    PROVE  Feed!Next
<1>1. Feed!GoesPast({FeedNext})
  BY FeedGoes
<1>2. Feed!IsFirst(FeedNext)
  <2>1. ~Before(FeedNext, FeedNext)
    BY DEF Before
  <2> QED
    BY <2>1 DEF Feed!IsFirst, Feed!Before, Before
<1>3. CASE FeedNext \in FeedSeen'
  <2>1. FeedSeen' = FeedSeen \union {FeedNext}
    BY <1>3
  <2>2. Feed!HandOver
    BY <1>1, <1>2, <2>1 DEF Feed!HandOver
  <2> QED
    BY <2>2 DEF Feed!Next
<1>4. CASE FeedNext \notin FeedSeen'
  <2>1. FeedTold' = FeedTold \union {FeedNext} /\ FeedSeen' = FeedSeen
    BY <1>4
  <2>2. Feed!LeaveOut
    BY <1>1, <1>2, <2>1 DEF Feed!LeaveOut
  <2> QED
    BY <2>2 DEF Feed!Next
<1> QED
  BY <1>3, <1>4

-----------------------------------------------------------------------------
(* The steps of the thread *)

\* A step of the feed, or nothing it knows of has changed.
RefinesFeed == [Feed!Next]_(Feed!feedVars)

Implementing ==
    /\ Progressing /\ IInv /\ IInv'
    /\ Started /\ Started'

LEMMA NextFeedPlace ==
    ASSUME Implementing
    PROVE  /\ FeedNext' \in Nat \X Nat
           /\ FeedAcked' = Resume' /\ FeedAcked' \in Nat \X Nat
           /\ ~Before(FeedNext', FeedAcked')
<1>1. FeedAcked' = Resume' /\ Resume' \in Nat \X Nat
      /\ Handled' \in Nat \X Nat
  BY DEF Implementing, FeedAcked, IInv, CrashInv, TypeOK, Handled, Packet,
         Cursor, Connection
<1>2. ~Before(Resume', Resume')
  BY <1>1 DEF Before
<1> QED
  BY <1>1, <1>2 DEF FeedNext, Implementing

\* Between two packets.
LEMMA WaitingRefines ==
    ASSUME Implementing, UNCHANGED <<positionVars, historyVars>>,
           \/ FeedNext' \in {FeedNext, Resume}
           \/ PassesNone
    PROVE  RefinesFeed
<1>1. UNCHANGED <<FeedChanges, FeedSeen, FeedTold>>
  BY FeedQuiet DEF Implementing, Progressing, Quiet
<1>2. UNCHANGED FeedAcked /\ FeedAcked = Resume
  BY DEF Implementing, FeedAcked, Resume, positionVars
<1>3. FeedNext' \in Nat \X Nat
  BY NextFeedPlace
<1>4. CASE FeedNext' = FeedNext
  BY <1>1, <1>2, <1>4 DEF RefinesFeed, Feed!feedVars
<1>5. CASE FeedNext' = Resume \/ PassesNone
  BY <1>1, <1>2, <1>3, <1>5, FeedWarns DEF RefinesFeed
<1> QED
  BY <1>4, <1>5

LEMMA ConnectingRefines ==
    ASSUME Implementing,
           \/ AppLoop \/ LoopHead \/ Connect \/ ConnectFails \/ HookFails
           \/ RequestBinlogDump \/ RequestBinlogDumpFails \/ ReadFails
           \/ ReadStopped
    PROVE  RefinesFeed
<1>1. UNCHANGED <<positionVars, historyVars>>
      /\ pc # "handle" /\ pc' # "handle"
  BY DEF AppLoop, LoopHead, Connect, ConnectFails, HookFails,
         RequestBinlogDump, RequestBinlogDumpFails, ReadFails, ReadStopped,
         historyVars, sessionVars, positionVars, Throw
<1>2. /\ Handled = Cursor /\ Handled' = Cursor' /\ Resume' = Resume
      /\ conn \in Connection
  BY <1>1, TypeParts
     DEF Handled, Resume, positionVars, Implementing, Progressing, CrashInv,
         SessionTypeOK
<1>3. \/ conn'.file = 0
      \/ conn'.file = conn.file /\ conn'.off = conn.off
      \/ Cursor' = Resume
  <2>1. CASE RequestBinlogDump
    <3>1. \/ conn' = [conn EXCEPT !.st = "broken"]
          \/ ServerDumpsFrom(Resume)
      BY <2>1 DEF RequestBinlogDump
    <3> QED
      BY <1>2, <3>1 DEF ServerDumpsFrom, Connection, Cursor, Resume
  <2>2. CASE ~RequestBinlogDump
    <3>1. \/ conn' = conn
          \/ conn' = NoConnection
          \/ conn' = [NoConnection EXCEPT !.st = "idle"]
      BY <2>2 DEF AppLoop, LoopHead, Connect, ConnectFails, HookFails,
                  RequestBinlogDumpFails, ReadFails, ReadStopped
    <3> QED
      BY <3>1 DEF NoConnection
  <2> QED
    BY <2>1, <2>2
<1>4. FeedNext' \in {FeedNext, Resume}
  BY <1>2, <1>3 DEF FeedNext, Cursor, Implementing, Started
<1> QED
  BY <1>1, <1>4, WaitingRefines

LEMMA DropRefines ==
    ASSUME Implementing, Drop \/ StopEventLoop
    PROVE  RefinesFeed
<1>1. /\ UNCHANGED <<positionVars, historyVars, pc, buf>>
      /\ conn'.file = conn.file /\ conn'.off = conn.off
  BY TypeParts
     DEF Drop, StopEventLoop, sessionVars, Implementing, Progressing,
         CrashInv, SessionTypeOK, Connection
<1>2. FeedNext' = FeedNext
  BY <1>1 DEF FeedNext, Handled, Cursor, Resume, Started, positionVars
<1> QED
  BY <1>1, <1>2, WaitingRefines

LEMMA ReadingRefines ==
    ASSUME Implementing, ReadFileName \/ ReadFormatDescription \/ ReadEvent
    PROVE  RefinesFeed
<1> LogTypeOK /\ SessionTypeOK
  BY TypeParts DEF Implementing, Progressing, CrashInv
<1>1. /\ UNCHANGED <<positionVars, historyVars>>
      /\ pc = "read" /\ pc' = "handle" /\ conn.st = "dump"
  BY DEF ReadFileName, ReadFormatDescription, ReadEvent, Receive,
         historyVars, sessionVars
<1>2. PICK r \in Nat \X Nat, f \in Nat, k \in Nat :
        r = Resume /\ f = conn.file /\ k = conn.off
  BY DEF Resume, SessionTypeOK, Connection
<1>3. /\ Resume' = r /\ Cursor = <<f, k>> /\ Handled = <<f, k>>
      /\ OnLog(<<f, k>>) /\ f # 0
  <2>1. OnLog(Cursor)
    BY <1>1 DEF Implementing, Progressing, Quiet, SessionInv, DumpInv
  <2> QED
    BY <1>1, <1>2, <2>1 DEF Resume, positionVars, Cursor, Handled, OnLog
<1>4. FeedNext = IF Before(<<f, k>>, r) THEN r ELSE <<f, k>>
  BY <1>2, <1>3 DEF FeedNext, Implementing
<1>5. CASE ReadEvent \/ ReadFormatDescription
           \/ (ReadFileName /\ ~AtFileEnd)
  <2>1. conn'.file = f /\ Handled' = <<f, k>>
    <3>1. CASE ReadEvent
      BY <1>1, <1>2, <1>3, <3>1
         DEF ReadEvent, Handled, NoPos, SessionTypeOK, Connection
    <3>2. CASE ReadFormatDescription
      <4>1. conn'.file = f /\ conn'.off = k /\ buf'.at = NoPos
        BY <1>2, <3>2
           DEF ReadFormatDescription, NoPacket, SessionTypeOK, Connection
      <4> QED
        BY <4>1 DEF Handled, Cursor
    <3>3. CASE ReadFileName /\ ~AtFileEnd
      <4>1. conn'.file = f /\ conn'.off = k /\ buf'.at = NoPos
        BY <1>3, <3>3 DEF ReadFileName, NoPacket
      <4> QED
        BY <4>1 DEF Handled, Cursor
    <3> QED
      BY <1>5, <3>1, <3>2, <3>3
  <2>2. FeedNext' = FeedNext
    BY <1>3, <1>4, <2>1 DEF FeedNext, Implementing
  <2> QED
    BY <1>1, <2>2, WaitingRefines
<1>6. CASE ReadFileName /\ AtFileEnd
  <2>1. conn'.file = f + 1 /\ conn'.off = 1 /\ buf'.at = NoPos
    BY <1>2, <1>6 DEF ReadFileName, NoPacket
  <2>2. Handled' = <<f + 1, 1>>
    BY <2>1 DEF Handled, Cursor
  <2>3. CASE Before(<<f, k>>, r)
    <3>1. r = <<f + 1, 1>>
      BY <1>2, <1>3, <2>3 DEF Implementing, IInv, ReplayInv
    <3>2. FeedNext' = FeedNext
      BY <1>3, <1>4, <2>1, <2>2, <2>3, <3>1
         DEF FeedNext, Implementing, Before
    <3> QED
      BY <1>1, <3>2, WaitingRefines
  <2>4. CASE ~Before(<<f, k>>, r)
    <3>1. FeedNext = <<f, k>> /\ FeedNext' = <<f + 1, 1>>
      BY <1>3, <1>4, <2>1, <2>2, <2>4 DEF FeedNext, Implementing, Before
    <3>2. ~Before(<<f + 1, 1>>, <<f, k>>)
      BY DEF Before
    <3>3. ASSUME NEW c \in FeedChanges, Before(c, <<f + 1, 1>>)
          PROVE  Before(c, <<f, k>>)
      <4>1. PICK g, j : c = <<g, j>> /\ InLog(g, j)
        BY FeedChangesAre, PositionsAre DEF Implementing
      <4>2. k > Len(files[f])
        BY <1>2, <1>6 DEF AtFileEnd
      <4>3. Len(files) \in Nat /\ Len(files[g]) \in Nat
        BY <4>1, LogNumbers DEF LogTypeOK, InLog
      <4> QED
        BY <3>3, <4>1, <4>2, <4>3 DEF Before, InLog
    <3>4. PassesNone
      BY <3>1, <3>2, <3>3 DEF PassesNone
    <3> QED
      BY <1>1, <3>4, WaitingRefines
  <2> QED
    BY <2>3, <2>4
<1> QED
  BY <1>5, <1>6

-----------------------------------------------------------------------------
(* The steps that deal with a packet *)

HandlingStep == Implementing /\ (Handle \/ CallbackFails)

LEMMA DeliversItsEvent ==
    ASSUME Deliver \/ UNCHANGED delivered
    PROVE  \A d \in delivered' \ delivered : d.at = buf.at
<1>1. \A t, tbl : CallbackFor(t, tbl).at = buf.at
  BY DEF CallbackFor
<1>2. ASSUME Deliver PROVE \E t, tbl : delivered' = delivered \union {CallbackFor(t, tbl)}
  BY <1>2 DEF Deliver
<1>3. QED
  BY <1>1, <1>2

\* What a packet adds is about its own event, and what moves the position
\* adds nothing.
LEMMA HandlingTells ==
    ASSUME HandlingStep
    PROVE  /\ \A d \in delivered' \ delivered : d.at = buf.at
           /\ \A p \in reported' \ reported : p = buf.at /\ p # NoPos
           /\ UNCHANGED positionVars \/ UNCHANGED historyVars
<1> Quiet
  BY DEF HandlingStep, Implementing, Progressing
<1>1. CASE HandleRefused \/ HandleWideRows
  BY <1>1 DEF HandleRefused, HandleWideRows, Throw, sessionVars
<1>2. CASE CallbackFails
  BY <1>2 DEF CallbackFails, Deliver, CallbackFor, Throw
<1>3. CASE \/ HandleTableMap \/ HandleFormatDescription
           \/ HandleLongQuery \/ HandleRows
  <2>1. \A d \in delivered' \ delivered : d.at = buf.at
    <3>1. Deliver \/ UNCHANGED delivered
      BY <1>3 DEF HandleTableMap, HandleFormatDescription, HandleLongQuery,
                  HandleRows
    <3> QED
      BY <3>1, DeliversItsEvent
  <2>2. \A p \in reported' \ reported : p = buf.at /\ p # NoPos
    <3>1. Finish
      BY <1>3 DEF HandleTableMap, HandleFormatDescription, HandleLongQuery,
                  HandleRows
    <3>2. \/ reported' = reported
          \/ reported' = IF buf.at = NoPos THEN reported
                         ELSE reported \union {buf.at}
      BY <3>1 DEF Finish, Throw
    <3> QED
      BY <3>2
  <2> QED
    BY <1>3, <2>1, <2>2
       DEF HandleTableMap, HandleFormatDescription, HandleLongQuery, HandleRows
<1>4. CASE HandleRotate \/ HandleQuery \/ HandleOther
  <2>1. /\ pc = "handle" /\ Finish /\ buf.ev.type # "ROWS"
        /\ UNCHANGED <<start, delivered>>
    BY <1>4 DEF HandleRotate, HandleQuery, HandleOther, Handling
  <2>2. reported' = reported
    BY <2>1, FinishReported
  <2> QED
    BY <2>1, <2>2 DEF historyVars
<1> QED
  BY <1>1, <1>2, <1>3, <1>4 DEF HandlingStep, Handle

\* The feed is at the event in hand, and goes behind it, perhaps to the next
\* file, or back to the resume point.
LEMMA HandlingGoes ==
    ASSUME HandlingStep, HoldsLogEvent,
           NEW f \in Nat, NEW k \in Nat, buf.at = <<f, k>>
    PROVE  /\ FeedNext = <<f, k>> /\ InLog(f, k) /\ buf.ev = files[f][k]
           /\ \/ FeedNext' = Resume'
              \/ FeedNext' = <<f, k + 1>>
           /\ \/ UNCHANGED positionVars
              \/ Resume' = <<f, k + 1>> /\ buf.ev.type # "ROWS"
              \/ /\ Resume' = <<f + 1, 1>> /\ k = Len(files[f])
                 /\ buf.ev.type # "ROWS"
<1> Quiet /\ LogInv
  BY DEF HandlingStep, Implementing, Progressing, Quiet
<1>1. /\ pc = "handle" /\ pc' # "handle" /\ conn' \in {conn, NoConnection}
      /\ \/ UNCHANGED positionVars
         \/ /\ buf.ev.type \in {"QUERY", "XID", "STOP"}
            /\ Resume' = <<binlog_name, buf.log_pos>>
         \/ buf.ev.type = "ROTATE" /\ Resume' = buf.to
  BY HandlingMoves DEF HandlingStep, Implementing
<1>2. /\ binlog_name = f /\ buf.log_pos = k + 1 /\ buf.to = <<f + 1, 1>>
      /\ InLog(f, k) /\ buf.ev = files[f][k]
  BY <1>1, PacketInHand DEF HoldsLogEvent, EventAt
<1>3. Cursor = <<f, k + 1>> /\ ~Before(<<f, k>>, Resume) /\ conn.file = f
  BY DEF HandlingStep, Implementing, IInv, ReplayInv, Cursor
<1>4. f # 0
  BY <1>2 DEF InLog
<1>5. FeedNext = <<f, k>>
  BY <1>3, <1>4
     DEF FeedNext, Handled, HoldsLogEvent, HandlingStep, Implementing
<1>6. FeedNext' = Resume' \/ FeedNext' = <<f, k + 1>>
  <2>1. CASE conn' = NoConnection
    BY <2>1 DEF NoConnection, FeedNext, HandlingStep, Implementing
  <2>2. CASE conn' = conn
    BY <1>1, <1>3, <2>2
       DEF Cursor, Handled, FeedNext, HandlingStep, Implementing
  <2> QED
    BY <1>1, <2>1, <2>2
<1>7. buf.ev.type = "ROTATE" => k = Len(files[f])
  BY <1>2 DEF LogInv, RotateEndsFile, InLog
<1> QED
  BY <1>1, <1>2, <1>5, <1>6, <1>7

\* The changes stay, and those the event in hand is not one of and does not
\* map stay as they were.
LEMMA HandlingShows ==
    ASSUME HandlingStep, HoldsLogEvent,
           NEW f \in Nat, NEW k \in Nat, buf.at = <<f, k>>
    PROVE  /\ UNCHANGED FeedChanges
           /\ FeedSeen \subseteq FeedSeen' /\ FeedTold \subseteq FeedTold'
           /\ FeedSeen' \subseteq FeedSeen \union {<<f, k>>}
           /\ \A c \in FeedTold' \ FeedTold :
                c = <<f, k>> \/ IsTableMapOf(<<f, k>>, c)
<1>1. HistoryGrows
  BY HandlingMoves DEF HandlingStep, Implementing
<1>2. /\ files' = files /\ LogPositions' = LogPositions
      /\ Started /\ Started'
  BY SamePositions DEF HandlingStep, Implementing, Progressing, Quiet
<1>3. \A p : /\ Due(p)' <=> Due(p)
             /\ EventAt(p)' = EventAt(p)
             /\ \A m : IsTableMapOf(m, p)' <=> IsTableMapOf(m, p)
  BY <1>1, <1>2 DEF Due, EventAt, IsTableMapOf, InLog, HistoryGrows
<1>4. UNCHANGED FeedChanges
  BY <1>2, <1>3 DEF FeedChanges
<1>5. FeedSeen \subseteq FeedSeen' /\ FeedTold \subseteq FeedTold'
  BY <1>1, <1>3, <1>4 DEF FeedSeen, FeedTold, Delivered, HistoryGrows
<1>6. FeedSeen' \subseteq FeedSeen \union {<<f, k>>}
  BY <1>3, <1>4, HandlingTells DEF FeedSeen, Delivered
<1>7. \A c \in FeedTold' \ FeedTold :
        c = <<f, k>> \/ IsTableMapOf(<<f, k>>, c)
  BY <1>3, <1>4, HandlingTells DEF FeedTold
<1> QED
  BY <1>4, <1>5, <1>6, <1>7

\* Where the feed goes from the event in hand: changes between are the event
\* itself, if it is one.
LEMMA EventIsNext ==
    ASSUME LogTypeOK, Started, NEW f \in Nat, NEW k \in Nat, InLog(f, k),
           NEW c \in FeedChanges, NEW q,
           q = <<f, k + 1>> \/ (q = <<f + 1, 1>> /\ k = Len(files[f])),
           Before(c, q)
    PROVE  c = <<f, k>> \/ Before(c, <<f, k>>)
<1>1. PICK g, j : c = <<g, j>> /\ InLog(g, j)
  BY FeedChangesAre, PositionsAre
<1>2. Len(files) \in Nat /\ Len(files[g]) \in Nat /\ Len(files[f]) \in Nat
  BY <1>1, LogNumbers DEF LogTypeOK, InLog
<1> QED
  BY <1>1, <1>2 DEF Before, InLog

\* A change is handed over, or left out and told of.
LEMMA ChangeRefines ==
    ASSUME HandlingStep, HoldsLogEvent,
           NEW f \in Nat, NEW k \in Nat, buf.at = <<f, k>>,
           <<f, k>> \in FeedChanges
    PROVE  RefinesFeed
<1> LogTypeOK /\ Started /\ Started' /\ IInv'
  BY TypeParts DEF HandlingStep, Implementing, Progressing, CrashInv
<1>1. /\ FeedNext = <<f, k>> /\ InLog(f, k) /\ buf.ev = files[f][k]
      /\ FeedNext' = Resume' \/ FeedNext' = <<f, k + 1>>
      /\ UNCHANGED positionVars \/ buf.ev.type # "ROWS"
  BY HandlingGoes
<1>2. Due(<<f, k>>) /\ buf.ev.type = "ROWS"
  BY <1>1, FeedChangesAre DEF Due, EventAt
<1>3. /\ UNCHANGED FeedChanges
      /\ FeedSeen \subseteq FeedSeen' /\ FeedTold \subseteq FeedTold'
      /\ FeedSeen' \subseteq FeedSeen \union {<<f, k>>}
      /\ \A c \in FeedTold' \ FeedTold :
           c = <<f, k>> \/ IsTableMapOf(<<f, k>>, c)
  BY HandlingShows
<1>4. FeedTold' \subseteq FeedTold \union {<<f, k>>}
  BY <1>1, <1>2, <1>3 DEF IsTableMapOf, EventAt
<1>5. UNCHANGED FeedAcked /\ FeedAcked' = Resume'
  BY <1>1, <1>2 DEF FeedAcked, Resume, positionVars
<1>6. <<f, k>> \in FeedSeen' \union FeedTold'
  <2>1. (Due(<<f, k>>) => Accounted(<<f, k>>))'
    BY EventAccounted DEF HandlingStep, Implementing
  <2>2. <<f, k>> \in FeedChanges' /\ Due(<<f, k>>)'
    BY <1>3 DEF FeedChanges
  <2> QED
    BY <2>1, <2>2 DEF Accounted, FeedSeen, FeedTold
<1>7. \/ FeedNext' = FeedAcked'
      \/ /\ ~Before(FeedNext', <<f, k>>)
         /\ {<<f, k>>} = {c \in FeedChanges :
                   ~Before(c, <<f, k>>) /\ Before(c, FeedNext')}
  <2> SUFFICES ASSUME FeedNext' = <<f, k + 1>>
               PROVE  /\ ~Before(<<f, k + 1>>, <<f, k>>)
                      /\ {<<f, k>>} = {c \in FeedChanges :
                           ~Before(c, <<f, k>>) /\ Before(c, <<f, k + 1>>)}
    BY <1>1, <1>5
  <2>1. /\ ~Before(<<f, k + 1>>, <<f, k>>) /\ Before(<<f, k>>, <<f, k + 1>>)
        /\ ~Before(<<f, k>>, <<f, k>>)
    BY DEF Before
  <2>2. \A c \in FeedChanges :
          Before(c, <<f, k + 1>>) => c = <<f, k>> \/ Before(c, <<f, k>>)
    BY <1>1, EventIsNext
  <2> QED
    BY <2>1, <2>2
<1>8. FeedNext' \in Nat \X Nat
  BY NextFeedPlace DEF HandlingStep
<1>9. Feed!Next
  BY <1>1, <1>3, <1>4, <1>5, <1>6, <1>7, <1>8, FeedDeals
<1> QED
  BY <1>9 DEF RefinesFeed

\* An event that is no change: the feed goes on behind it, and where the
\* position moves, it moves no further than that.
LEMMA OtherEventRefines ==
    ASSUME HandlingStep, HoldsLogEvent,
           NEW f \in Nat, NEW k \in Nat, buf.at = <<f, k>>,
           <<f, k>> \notin FeedChanges
    PROVE  RefinesFeed
<1> LogTypeOK /\ Started
  BY TypeParts DEF HandlingStep, Implementing, Progressing, CrashInv
<1>1. /\ FeedNext = <<f, k>> /\ InLog(f, k)
      /\ FeedNext' = Resume' \/ FeedNext' = <<f, k + 1>>
      /\ \/ UNCHANGED positionVars
         \/ Resume' = <<f, k + 1>>
         \/ Resume' = <<f + 1, 1>> /\ k = Len(files[f])
  BY HandlingGoes
<1>2. /\ FeedNext' \in Nat \X Nat
      /\ FeedAcked' = Resume' /\ FeedAcked' \in Nat \X Nat
      /\ ~Before(FeedNext', FeedAcked')
  BY NextFeedPlace DEF HandlingStep
<1>3. /\ UNCHANGED FeedChanges
      /\ FeedSeen \subseteq FeedSeen' /\ FeedTold \subseteq FeedTold'
      /\ FeedSeen' \subseteq FeedSeen \union {<<f, k>>}
      /\ \A c \in FeedTold' \ FeedTold :
           c = <<f, k>> \/ IsTableMapOf(<<f, k>>, c)
  BY HandlingShows
<1>4. FeedSeen' \subseteq FeedChanges /\ FeedTold' \subseteq FeedChanges
  BY <1>3 DEF FeedSeen, FeedTold
<1>5. /\ UNCHANGED FeedSeen
      /\ FeedTold' \subseteq FeedTold \union
                               {c \in FeedChanges : ~Before(c, FeedNext)}
  <2>1. FeedSeen' = FeedSeen
    BY <1>3, <1>4
  <2>2. ASSUME NEW c \in FeedTold' \ FeedTold
        PROVE  c \in FeedChanges /\ ~Before(c, <<f, k>>)
    <3>1. c \in FeedChanges /\ IsTableMapOf(<<f, k>>, c)
      BY <1>3, <1>4
    <3>2. f = c[1] /\ k < c[2]
      BY <3>1 DEF IsTableMapOf
    <3>3. PICK g, j : c = <<g, j>> /\ InLog(g, j)
      BY <3>1, FeedChangesAre, PositionsAre
    <3>4. Len(files) \in Nat /\ Len(files[g]) \in Nat
      BY <3>3, LogNumbers DEF LogTypeOK, InLog
    <3> QED
      BY <3>1, <3>2, <3>3, <3>4 DEF Before, InLog
  <2> QED
    BY <1>1, <2>1, <2>2
<1>6. \A q : \A c \in FeedChanges :
        /\ q = <<f, k + 1>> \/ (q = <<f + 1, 1>> /\ k = Len(files[f]))
        /\ Before(c, q)
        => Before(c, <<f, k>>)
  BY <1>1, EventIsNext
<1>7. FeedNext' = FeedAcked' \/ PassesNone
  <2>1. ~Before(<<f, k + 1>>, <<f, k>>)
    BY DEF Before
  <2> QED
    BY <1>1, <1>2, <1>6, <2>1 DEF PassesNone
<1>8. CASE UNCHANGED positionVars
  <2>1. UNCHANGED FeedAcked
    BY <1>2, <1>8 DEF Resume, positionVars, FeedAcked
  <2> QED
    BY <1>2, <1>3, <1>5, <1>7, <2>1, FeedWarns DEF RefinesFeed
<1>9. CASE ~UNCHANGED positionVars
  <2>1. UNCHANGED historyVars
    BY <1>9, HandlingTells
  <2>2. UNCHANGED FeedTold
    BY <2>1, FeedQuiet
       DEF HandlingStep, Implementing, Progressing, Quiet
  <2>3. ~Before(FeedAcked', FeedAcked)
    <3>1. FeedAcked \in Nat \X Nat /\ ~Before(<<f, k>>, FeedAcked)
      BY <1>1, FeedPlace DEF HandlingStep, Implementing
    <3> QED
      BY <1>1, <1>2, <1>9, <3>1 DEF Before
  <2>4. \A c \in FeedChanges : Before(c, FeedAcked') => Before(c, FeedNext)
    BY <1>1, <1>2, <1>6, <1>9
  <2> QED
    BY <1>2, <1>3, <1>5, <1>7, <2>2, <2>3, <2>4, FeedAcknowledges
       DEF RefinesFeed
<1> QED
  BY <1>8, <1>9

\* The packets the dump thread makes.
LEMMA ArtificialRefines ==
    ASSUME HandlingStep, ~HoldsLogEvent
    PROVE  RefinesFeed
<1> Quiet /\ SessionInv /\ SessionTypeOK /\ HistoryTypeOK
  BY TypeParts
     DEF HandlingStep, Implementing, Progressing, Quiet, CrashInv
<1>1. /\ pc = "handle" /\ pc' # "handle" /\ conn' \in {conn, NoConnection}
      /\ HistoryGrows
      /\ \/ UNCHANGED positionVars
         \/ /\ buf.ev.type \in {"QUERY", "XID", "STOP"}
            /\ Resume' = <<binlog_name, buf.log_pos>>
         \/ buf.ev.type = "ROTATE" /\ Resume' = buf.to
  BY HandlingMoves DEF HandlingStep, Implementing
<1>2. buf.at = NoPos /\ buf.ev.type \in {"ROTATE", "FDE"}
      /\ buf.damage = "none"
  BY <1>1, PacketInHand DEF HoldsLogEvent
<1>3. UNCHANGED historyVars
  <2>1. reported' = reported /\ start' = start
    BY <1>1, <1>2, HandlingTells DEF HistoryGrows
  <2>2. delivered' = delivered
    BY <1>2
       DEF HandlingStep, Handle, HandleRefused, HandleRotate,
           HandleFormatDescription, HandleQuery, HandleLongQuery,
           HandleTableMap, HandleWideRows, HandleRows, CallbackFails,
           HandleOther, Handling
  <2> QED
    BY <2>1, <2>2 DEF historyVars
<1>4. Handled = Cursor /\ Handled' = Cursor'
  BY <1>1, <1>2 DEF Handled
<1>5. CASE UNCHANGED positionVars
  <2>1. Resume' = Resume
    BY <1>5 DEF Resume, positionVars
  <2>2. FeedNext' \in {FeedNext, Resume}
    BY <1>1, <1>4, <2>1
       DEF NoConnection, FeedNext, Cursor, HandlingStep, Implementing
  <2> QED
    BY <1>3, <1>5, <2>2, WaitingRefines DEF HandlingStep
<1>6. CASE ~UNCHANGED positionVars
  <2>1. /\ conn.head = "fde" /\ Resume' = Cursor
        /\ Boundary(Cursor)
    BY <1>1, <1>2, <1>6
       DEF HandlingStep, Implementing, IInv, ReplayInv, SessionInv, PacketInv
  <2>2. conn.file # 0 /\ Cursor \in Nat \X Nat
    BY <2>1 DEF Boundary, OnLog, Cursor, SessionTypeOK, Connection
  <2>3. ~Before(Cursor, Resume)
    BY <2>1, <2>2
       DEF HandlingStep, Implementing, IInv, ReplayInv, AtFileEnd
  <2>4. FeedNext = Cursor /\ FeedAcked = Resume
    BY <1>4, <2>2, <2>3
       DEF FeedNext, FeedAcked, HandlingStep, Implementing
  <2>5. /\ FeedAcked' = Cursor /\ FeedNext' = Cursor
        /\ ~Before(Cursor, Cursor)
    <3>1. Cursor' = Cursor \/ conn'.file = 0
      BY <1>1 DEF Cursor, NoConnection
    <3> QED
      BY <1>4, <2>1, <2>2, <3>1
         DEF FeedNext, FeedAcked, HandlingStep, Implementing, Before
  <2>6. UNCHANGED <<FeedChanges, FeedSeen, FeedTold>>
    BY <1>3, FeedQuiet DEF HandlingStep, Implementing, Quiet
  <2>7. Feed!Next
    BY <2>2, <2>3, <2>4, <2>5, <2>6, FeedAcknowledges
  <2> QED
    BY <2>7 DEF RefinesFeed
<1> QED
  BY <1>5, <1>6

-----------------------------------------------------------------------------
(* The master *)

LEMMA OldAndNewPlaces ==
    ASSUME LogTypeOK, Grows, NEW c \in LogPositions'
    PROVE  /\ c \in Nat \X Nat
           /\ \/ c \in LogPositions
              \/ \A q \in Nat \X Nat : OnLog(q) => ~Before(c, q)
<1>1. PICK g, j : c = <<g, j>> /\ g \in 1..Len(files')
                  /\ j \in 1..Len(files'[g])
  BY DEF LogPositions
<1>2. ASSUME NEW F \in Nat, NEW K \in Nat, OnLog(<<F, K>>),
             Before(<<g, j>>, <<F, K>>)
      PROVE  c \in LogPositions
  <2>1. /\ F \in 1..Len(files) /\ K \in 1..(Len(files[F]) + 1)
        /\ g < F \/ (g = F /\ j < K)
    BY <1>2 DEF OnLog, Before
  <2>2. g \in 1..Len(files) /\ j \in 1..Len(files[g])
    BY <1>1, <2>1, EarlierPlacesStay
  <2> QED
    BY <1>1, <2>2, PositionsAre DEF InLog
<1> QED
  BY <1>1, <1>2

\* The changes there are keep what was delivered and told of them.
LEMMA WritingKeepsOld ==
    ASSUME IInv, Started, Started', Grows, UNCHANGED historyVars,
           NEW c \in FeedChanges
    PROVE  /\ c \in FeedChanges'
           /\ c \in FeedSeen' <=> c \in FeedSeen
           /\ c \in FeedTold' <=> c \in FeedTold
<1> LogTypeOK /\ HistoryTypeOK
  BY TypeParts DEF IInv, CrashInv
<1>1. PICK f, k : c = <<f, k>> /\ InLog(f, k)
  BY FeedChangesAre, PositionsAre
<1>2. InLog(f, k)' /\ EventAt(c)' = EventAt(c)
  <2>1. InLog(c[1], c[2])' /\ EventAt(c)' = EventAt(c)
    BY <1>1, PositionsStay
  <2> QED
    BY <1>1, <2>1 DEF InLog
<1>3. c \in FeedChanges'
  <2>1. c \in LogPositions'
    BY <1>1, <1>2 DEF LogPositions, InLog
  <2>2. Due(c)'
    BY <1>2, FeedChangesAre DEF Due, historyVars
  <2> QED
    BY <2>1, <2>2 DEF FeedChanges
<1>4. c \in FeedSeen' <=> c \in FeedSeen
  BY <1>2, <1>3 DEF FeedSeen, Delivered, historyVars
<1>5. ASSUME NEW m \in reported
      PROVE  IsTableMapOf(m, c)' <=> IsTableMapOf(m, c)
  <2>1. PICK g \in Nat, i \in Nat : m = <<g, i>>
    BY DEF HistoryTypeOK
  <2>2. CASE g = f
    BY <1>1, <2>1, <2>2, TableMapOfStable DEF InLog
  <2>3. CASE g # f
    BY <1>1, <2>1, <2>3 DEF IsTableMapOf
  <2> QED
    BY <2>2, <2>3
<1>6. c \in FeedTold' <=> c \in FeedTold
  BY <1>3, <1>5 DEF FeedTold, historyVars
<1> QED
  BY <1>3, <1>4, <1>6

LEMMA MasterRefines ==
    ASSUME IInv, Master, Grows
    PROVE  RefinesFeed
<1> LogTypeOK
  BY TypeParts DEF IInv, CrashInv
<1>1. /\ UNCHANGED <<sessionVars, pc, conn, buf, historyVars>>
      /\ Resume' = Resume
  BY DEF Master, sessionVars, positionVars, Resume
<1>2. UNCHANGED <<FeedAcked, FeedNext>>
  BY <1>1 DEF FeedAcked, FeedNext, Started, Handled, Cursor
<1>3. CASE ~Started
  <2>1. UNCHANGED <<FeedChanges, FeedSeen, FeedTold>>
    BY <1>1, <1>3 DEF FeedChanges, FeedSeen, FeedTold, Started
  <2> QED
    BY <1>2, <2>1 DEF RefinesFeed, Feed!feedVars
<1>4. CASE Started
  <2> Started'
    BY <1>1, <1>4 DEF Started
  <2>1. /\ FeedNext \in Nat \X Nat /\ OnLog(FeedNext)
        /\ FeedAcked \in Nat \X Nat /\ OnLog(FeedAcked)
    BY <1>4, FeedPlace
  <2>2. FeedAcked # NoPos
    BY <2>1 DEF OnLog, NoPos
  <2>3. \A c \in FeedChanges :
          /\ c \in FeedChanges'
          /\ c \in FeedSeen' <=> c \in FeedSeen
          /\ c \in FeedTold' <=> c \in FeedTold
    BY <1>1, <1>4, WritingKeepsOld
  <2>4. FeedChanges' \subseteq LogPositions'
    BY DEF FeedChanges
  <2>5. ASSUME NEW c \in FeedChanges', c \notin FeedChanges
        PROVE  /\ c \notin FeedSeen'
               /\ ~Before(c, FeedNext)
               /\ \A d \in FeedChanges : Before(d, c)
    <3>1. c \notin LogPositions
      <4>1. ASSUME c \in LogPositions PROVE c \in FeedChanges
        <5>1. PICK f, k : c = <<f, k>> /\ InLog(f, k)
          BY <4>1, PositionsAre
        <5>2. EventAt(c)' = EventAt(c)
          BY <5>1, PositionsStay
        <5>3. Due(c)'
          BY DEF FeedChanges
        <5> QED
          BY <1>1, <1>4, <4>1, <5>2, <5>3
             DEF FeedChanges, Due, historyVars
      <4> QED
        BY <2>5, <4>1
    <3>2. c \in Nat \X Nat
          /\ \A q \in Nat \X Nat : OnLog(q) => ~Before(c, q)
      BY <2>4, <3>1, OldAndNewPlaces
    <3>3. ASSUME NEW d \in FeedChanges PROVE Before(d, c)
      <4>1. PICK f, k : d = <<f, k>> /\ InLog(f, k)
        BY <1>4, FeedChangesAre, PositionsAre
      <4>2. f \in Nat /\ k \in Nat /\ OnLog(<<f, k + 1>>)
        BY <4>1, LogNumbers DEF InLog, OnLog, LogTypeOK
      <4>3. ~Before(c, <<f, k + 1>>)
        BY <3>2, <4>2
      <4> QED
        BY <3>2, <4>1, <4>2, <4>3 DEF Before
    <3>4. c \notin FeedSeen'
      <4>1. ASSUME NEW d \in delivered PROVE d.at # c
        <5>1. InLog(d.at[1], d.at[2])
          BY DEF IInv, DeliveredInv
        <5>2. PICK f, k : c = <<f, k>>
          BY <3>2
        <5> QED
          BY <3>1, <5>1, <5>2, PositionsAre
      <4> QED
        BY <1>1, <4>1 DEF FeedSeen, Delivered, historyVars
    <3> QED
      BY <2>1, <3>2, <3>3, <3>4
  <2>6. FeedSeen' \subseteq FeedChanges' /\ FeedTold' \subseteq FeedChanges'
        /\ FeedSeen \subseteq FeedChanges /\ FeedTold \subseteq FeedChanges
    BY DEF FeedSeen, FeedTold
  <2>7. FeedChanges' \subseteq Nat \X Nat
    BY <2>4, OldAndNewPlaces
  <2>8. UNCHANGED FeedSeen
    BY <2>3, <2>5, <2>6
  <2>9. /\ FeedTold \subseteq FeedTold'
        /\ FeedTold' \subseteq FeedTold \union (FeedChanges' \ FeedChanges)
    BY <2>3, <2>6
  <2>10. Feed!Write
    BY <1>2, <2>2, <2>3, <2>5, <2>7, <2>8, <2>9
       DEF Feed!Write, Feed!Position, Feed!Before, Before, Feed!NoPos, NoPos
  <2> QED
    BY <2>10 DEF RefinesFeed, Feed!Next
<1> QED
  BY <1>3, <1>4

-----------------------------------------------------------------------------
(* The start *)

LEMMA PrepareRefines ==
    ASSUME IInv, IInv', UntoldInv, Prepare
    PROVE  RefinesFeed
<1>1. /\ ~Started /\ Started'
      /\ delivered = {} /\ reported = {}
      /\ UNCHANGED <<binlogVars, delivered, reported>>
  BY DEF Prepare, Started, UntoldInv
<1>2. FeedAcked = NoPos
  BY <1>1 DEF FeedAcked
<1>3. PICK s \in Nat \X Nat : s = start'
  BY DEF IInv, CrashInv, TypeOK
<1>4. /\ Resume' = s
      /\ conn' = [st |-> "dump", file |-> s[1], off |-> s[2],
                  head |-> "rotate"]
      /\ pc' = "app"
  BY <1>3 DEF Prepare, ServerDumpsFrom, Resume
<1>5. Cursor' = s /\ Handled' = s
  BY <1>4 DEF Cursor, Handled
<1>6. FeedAcked' = s /\ FeedNext' = s
  BY <1>1, <1>4, <1>5 DEF FeedAcked, FeedNext
<1>7. s # NoPos
  <2>1. Boundary(Resume)'
    BY <1>4 DEF IInv, CrashInv, SessionInv, PositionsInv
  <2>2. s[1] \in 1..Len(files')
    BY <1>4, <2>1 DEF Boundary, OnLog
  <2> QED
    BY <2>2 DEF NoPos
<1>8. FeedSeen' = {} /\ FeedTold' = {}
  BY <1>1 DEF FeedSeen, FeedTold, Delivered
<1>9. FeedChanges' \subseteq Nat \X Nat
      /\ \A c \in FeedChanges' : ~Before(c, s)
  <2>1. LogTypeOK'
    BY DEF IInv, CrashInv, TypeOK, LogTypeOK
  <2>2. LogPositions' \subseteq Nat \X Nat
    BY DEF LogPositions
  <2>3. \A c \in FeedChanges' : c \in LogPositions' /\ ~Before(c, s)
    BY <1>3 DEF FeedChanges, Due
  <2> QED
    BY <2>2, <2>3
<1>10. Feed!Subscribe
  BY <1>2, <1>6, <1>7, <1>8, <1>9
     DEF Feed!Subscribe, Feed!Position, Feed!NoPos, NoPos, Feed!Before, Before
<1> QED
  BY <1>10 DEF RefinesFeed, Feed!Next

\* Before prepare() there is no feed.
LEMMA NothingShown ==
    ASSUME ~Started
    PROVE  /\ FeedChanges = {} /\ FeedSeen = {} /\ FeedTold = {}
           /\ FeedAcked = NoPos /\ FeedNext = NoPos
BY DEF FeedChanges, FeedSeen, FeedTold, FeedAcked, FeedNext

LEMMA NothingShownYet ==
    ASSUME ~Started, ~Started'
    PROVE  RefinesFeed
BY DEF FeedChanges, FeedSeen, FeedTold, FeedAcked, FeedNext, RefinesFeed,
       Feed!feedVars

LEMMA StutterRefines ==
    ASSUME UNCHANGED vars
    PROVE  RefinesFeed
<1>1. CASE Started
  <2>1. Started' /\ UNCHANGED <<binlogVars, historyVars>>
    BY <1>1 DEF Started, vars
  <2>2. UNCHANGED <<FeedAcked, FeedNext>>
    BY DEF FeedAcked, FeedNext, Started, Handled, Cursor, Resume, vars,
           sessionVars, positionVars
  <2>3. UNCHANGED <<FeedChanges, FeedSeen, FeedTold>>
    BY <1>1, <2>1, FeedQuiet
  <2> QED
    BY <2>2, <2>3 DEF RefinesFeed, Feed!feedVars
<1>2. CASE ~Started
  <2>1. ~Started'
    BY <1>2 DEF Started, vars
  <2> QED
    BY <1>2, <2>1, NothingShownYet
<1> QED
  BY <1>1, <1>2

LEMMA RefinementStep ==
    ASSUME IInv, IInv', UntoldInv, [Next]_vars
    PROVE  RefinesFeed
<1> TypeOK /\ LogInv /\ SessionInv /\ CrashInv /\ CrashInv'
    /\ RegistryInv /\ ProgressInv
  BY DEF IInv, CrashInv
<1>1. Grows
  BY TypeStep, NextCases
<1>2. CASE Master
  BY <1>1, <1>2, MasterRefines
<1>3. CASE UNCHANGED vars
  BY <1>3, StutterRefines
<1>4. CASE SetBinlogPosition
  BY <1>4, NothingShownYet DEF SetBinlogPosition, Started
<1>5. CASE Prepare
  BY <1>5, PrepareRefines
<1>6. CASE ThreadStep \/ Failing \/ StopEventLoop
  <2>1. Plainly \/ HandleTableMap \/ HandleRows \/ CallbackFails
    BY <1>6
       DEF ThreadStep, Failing, Reconnecting, Handle, Plainly
  <2>2. UNCHANGED binlogVars
    BY <2>1, PlainlyUnchanged
       DEF HandleTableMap, HandleRows, CallbackFails, Handling
  <2>3. Progressing
    BY <1>1, <2>2 DEF Progressing, Quiet
  <2>4. Started /\ Started'
    <3>1. CASE Handle \/ CallbackFails
      BY <2>3, <3>1, HandlingMoves
         DEF Started, HandleRefused, HandleRotate, HandleFormatDescription,
             HandleQuery, HandleLongQuery, HandleTableMap, HandleWideRows,
             HandleRows, CallbackFails, HandleOther, Handling, Handle, Finish, Throw
    <3>2. CASE Drop
      BY <3>2 DEF Drop, Started, SessionInv, PositionsInv, NoConnection
    <3>3. CASE \/ AppLoop \/ LoopHead \/ Reconnecting \/ Reading
               \/ ConnectFails \/ HookFails \/ StopEventLoop
      BY <3>3
         DEF AppLoop, LoopHead, Reconnecting, Connect, RequestBinlogDump,
             RequestBinlogDumpFails, Reading, ReadFails, ReadStopped,
             ReadFileName, ReadFormatDescription, ReadEvent, Receive,
             ConnectFails, HookFails, StopEventLoop, Throw, Started
    <3> QED
      BY <1>6, <3>1, <3>2, <3>3 DEF ThreadStep, Failing
  <2>5. Implementing
    BY <2>3, <2>4 DEF Implementing
  <2>6. CASE Handle \/ CallbackFails
    <3>1. HandlingStep
      BY <2>5, <2>6 DEF HandlingStep
    <3>2. CASE HoldsLogEvent
      <4>1. PICK f \in Nat, k \in Nat : buf.at = <<f, k>>
        BY DEF TypeOK, Packet
      <4> QED
        BY <3>1, <3>2, <4>1, ChangeRefines, OtherEventRefines
    <3> QED
      BY <3>1, <3>2, ArtificialRefines
  <2> QED
    BY <1>6, <2>5, <2>6, ConnectingRefines, DropRefines, ReadingRefines
       DEF ThreadStep, Failing, Reconnecting, Reading
<1> QED
  BY <1>2, <1>3, <1>4, <1>5, <1>6 DEF Next

\* The callbacks and the exceptions of a CLogParser are a feed, as ChangeFeed
\* describes it: in the order of the log and without a gap, whatever the
\* master, the network, the callbacks and the thread that stops the loop do
\* until the server restarts, and read again from the resume point only.
THEOREM Implementation == Spec => ImplementsFeed
<1>1. Init => UntoldInv /\ Feed!Init
  <2>1. ASSUME Init
        PROVE  UntoldInv /\ ~Started
    BY <2>1 DEF Init, ReplicationInit, UntoldInv, Started
  <2> QED
    BY <2>1, NothingShown DEF Feed!Init, Feed!NoPos, NoPos
<1>2. CrashInv /\ UntoldInv /\ [Next]_vars => UntoldInv'
  BY UntoldStep
<1>3. IInv /\ IInv' /\ UntoldInv /\ [Next]_vars
        => [Feed!Next]_(Feed!feedVars)
  BY RefinementStep DEF RefinesFeed
<1>4. IInv => CrashInv
  BY DEF IInv
<1> QED
  BY <1>1, <1>2, <1>3, <1>4, Invariant, PTL
     DEF Spec, ImplementsFeed, Feed!Spec

=============================================================================
